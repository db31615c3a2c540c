---------------------------- MODULE AssistantProofs ----------------------------
(***************************************************************************)
(* Theorems about Assistant, for any number of chats and of messages, and    *)
(* whatever the events of a turn are: what the page keeps of its chats and   *)
(* streams, and what its panel shows of them.                                *)
(***************************************************************************)
EXTENDS Assistant, FiniteSetTheorems, TLAPS

Post == [chat : Chats, turn : Turns, at : {"sent", "answered", "failed"}]

ChatsOK ==
    /\ chats \in Seq(Chats) /\ activeChat \in Listed(chats)
    /\ \A i, j \in DOMAIN chats : chats[i] = chats[j] => i = j
    /\ history \in [Chats -> Seq(Message)] /\ lastDone \in [Chats -> {0} \cup Turns]

StreamsOK ==
    /\ activeStreams \in [Chats -> {0} \cup Turns] /\ savedStreams \in [Chats -> {0} \cup Turns]
    /\ source \in [Chats -> Source] /\ streaming \in [Chats -> Streaming]
    /\ \A c \in Chats : source[c].state = "closed" <=> activeStreams[c] = 0

PostsOK ==
    /\ posts \subseteq Post /\ lost \subseteq Turns /\ sent \in 0..MaxTurns
    /\ script \in [Turns -> Scripts \cup {<<>>}]
    /\ connected \in BOOLEAN
    /\ pendingPosts = {q.chat : q \in posts}
    /\ \A q, r \in posts : q.chat = r.chat \/ q.turn = r.turn => q = r

(* A chat id that has not been used leaves no trace.                         *)
MadeOK ==
    /\ made \subseteq Chats /\ Listed(chats) \subseteq made
    /\ \A q \in posts : q.chat \in made
    /\ \A c \in Chats \ made : history[c] = <<>> /\ activeStreams[c] = 0 /\ savedStreams[c] = 0

(* localStorage has the chats as they are.                                   *)
SavedOK == saved =
    [chats |-> chats, active |-> activeChat, last |-> lastDone,
     history |-> [c \in Chats |-> IF c \in Listed(chats) THEN history[c] ELSE <<>>]]

BusyOK == busy = (activeStreams[activeChat] # 0 \/ activeChat \in pendingPosts)

CoreInv == ChatsOK /\ StreamsOK /\ PostsOK /\ MadeOK /\ SavedOK /\ BusyOK

-------------------------------------------------------------------------------
(* The page and localStorage agree on the streams of its chats, or else the  *)
(* page follows none yet and cannot send.                                    *)
Together == \A c \in Listed(chats) : savedStreams[c] = activeStreams[c]
Idle == ~connected /\ activeStreams = Nowhere /\ posts = {}

MemoryInv == CoreInv /\ StreamsRemembered /\ (Together \/ Idle)

-------------------------------------------------------------------------------
(* What a turn has to do with the messages, before its end is there.         *)
UsersAreUsers == \A c \in Listed(chats) : \A i \in 1..Len(history[c]) :
    history[c][i].role = "user" => history[c][i] = User(history[c][i].turn)

Waiting(c, n) == history[c] # <<>> /\ history[c][Len(history[c])] = User(n)
InPost(c, n) == \E q \in posts : q.chat = c /\ q.turn = n

TurnsOK ==
    /\ \A q \in posts : q.turn <= sent
    /\ \A c \in Chats : lastDone[c] <= sent

(* A chat has one turn in flight.                                            *)
OneInFlight == \A c \in Listed(chats), n \in Turns :
    InPost(c, n) => activeStreams[c] = 0 /\ savedStreams[c] = 0

(* Whatever is in flight waits for the end of the chat's last message.       *)
InFlightWaits == \A c \in Listed(chats), n \in Turns :
    InPost(c, n) \/ savedStreams[c] = n => Waiting(c, n) /\ lastDone[c] # n

(* A message waits for what is in flight, or for what a navigation cut off.  *)
WaitsForSomething == \A c \in Listed(chats), n \in Turns :
    Waiting(c, n) => n \in lost \/ InPost(c, n) \/ savedStreams[c] = n

AlternationInv ==
    /\ MemoryInv /\ TurnsOK /\ UsersAreUsers
    /\ OneInFlight /\ InFlightWaits /\ WaitsForSomething
    /\ TurnsAlternate

-------------------------------------------------------------------------------
(* The events of a turn are known before anything comes of them.             *)
Known(n) == script[n] # <<>>

KnownFirst ==
    /\ \A q \in posts : /\ q.at = "sent" => ~Known(q.turn)
                        /\ q.at = "answered" => Known(q.turn)
    /\ \A n \in Turns : n > sent => ~Known(n)
    /\ \A c \in Chats : /\ activeStreams[c] # 0 => Known(activeStreams[c])
                        /\ savedStreams[c] # 0 => Known(savedStreams[c])
    /\ \A c \in Chats : \A i \in DOMAIN history[c] :
         history[c][i].role = "assistant" => Known(history[c][i].turn)

(* What the page counts, the server has counted.                             *)
CountsWhatIsThere == \A c \in Chats :
    streaming[c].tokens # 0 => activeStreams[c] # 0 /\ Total(script[activeStreams[c]]) > 0

UsageInv == CoreInv /\ TurnsOK /\ KnownFirst /\ CountsWhatIsThere /\ UsageCountedOnce

-------------------------------------------------------------------------------
LEMMA Appending ==
  ASSUME NEW S, NEW h \in Seq(S), NEW m \in S
  PROVE  /\ Append(h, m) \in Seq(S) /\ Len(Append(h, m)) = Len(h) + 1
         /\ Append(h, m) # <<>> /\ Append(h, m)[Len(h) + 1] = m
         /\ \A i \in 1..Len(h) : Append(h, m)[i] = h[i]
         /\ Extends(h, Append(h, m))
<1>1. SubSeq(Append(h, m), 1, Len(h)) = h
  OBVIOUS
<1>2. /\ Append(h, m) \in Seq(S) /\ Len(Append(h, m)) = Len(h) + 1
      /\ Append(h, m) # <<>> /\ Append(h, m)[Len(h) + 1] = m
      /\ \A i \in 1..Len(h) : Append(h, m)[i] = h[i]
  OBVIOUS
<1>3. Len(h) <= Len(Append(h, m))
  <2>1. Len(h) \in Nat
    OBVIOUS
  <2> QED
    BY <1>2, <2>1
<1> QED
  BY <1>1, <1>2, <1>3 DEF Extends

LEMMA TakingOut ==
  ASSUME NEW S, NEW l \in Seq(S), NEW i \in DOMAIN l, Len(l) > 1,
         \A j, k \in DOMAIN l : l[j] = l[k] => j = k
  PROVE  /\ Without(l, i) \in Seq(S) /\ Len(Without(l, i)) = Len(l) - 1
         /\ \A j, k \in DOMAIN Without(l, i) : Without(l, i)[j] = Without(l, i)[k] => j = k
         /\ Listed(Without(l, i)) = Listed(l) \ {l[i]}
<1> DEFINE w == Without(l, i)
<1>1. w \in Seq(S) /\ Len(w) = Len(l) - 1 /\ DOMAIN w = 1..Len(l) - 1
  BY DEF Without
<1>2. \A k \in DOMAIN w : w[k] = IF k < i THEN l[k] ELSE l[k + 1]
  BY <1>1 DEF Without
<1>3. \A j, k \in DOMAIN w : w[j] = w[k] => j = k
  <2> SUFFICES ASSUME NEW j \in DOMAIN w, NEW k \in DOMAIN w, w[j] = w[k]
               PROVE  j = k
    OBVIOUS
  <2>1. CASE j < i /\ k < i
    BY <1>1, <1>2, <2>1
  <2>2. CASE j < i /\ ~(k < i)
    <3>1. l[j] = l[k + 1] /\ j \in DOMAIN l /\ k + 1 \in DOMAIN l
      BY <1>1, <1>2, <2>2
    <3> QED
      BY <1>1, <2>2, <3>1
  <2>3. CASE ~(j < i) /\ k < i
    <3>1. l[j + 1] = l[k] /\ j + 1 \in DOMAIN l /\ k \in DOMAIN l
      BY <1>1, <1>2, <2>3
    <3> QED
      BY <1>1, <2>3, <3>1
  <2>4. CASE ~(j < i) /\ ~(k < i)
    <3>1. l[j + 1] = l[k + 1] /\ j + 1 \in DOMAIN l /\ k + 1 \in DOMAIN l
      BY <1>1, <1>2, <2>4
    <3> QED
      BY <1>1, <2>4, <3>1
  <2> QED
    BY <2>1, <2>2, <2>3, <2>4
<1>4. Listed(w) = Listed(l) \ {l[i]}
  <2>1. ASSUME NEW k \in DOMAIN w PROVE w[k] \in Listed(l) \ {l[i]}
    <3>1. CASE k < i
      BY <1>1, <1>2, <3>1 DEF Listed
    <3>2. CASE ~(k < i)
      <4>1. k + 1 \in DOMAIN l /\ w[k] = l[k + 1] /\ k + 1 # i
        BY <1>1, <1>2, <3>2
      <4> QED
        BY <4>1 DEF Listed
    <3> QED
      BY <3>1, <3>2
  <2>2. ASSUME NEW k \in DOMAIN l, k # i PROVE l[k] \in Listed(w)
    <3>1. CASE k < i
      <4>1. k \in 1..Len(w) /\ w[k] = l[k]
        BY <1>1, <1>2, <3>1
      <4> QED
        BY <4>1 DEF Listed
    <3>2. CASE ~(k < i)
      <4>1. k - 1 \in 1..Len(w) /\ w[k - 1] = l[k]
        BY <1>1, <1>2, <2>2, <3>2
      <4> QED
        BY <4>1 DEF Listed
    <3> QED
      BY <3>1, <3>2
  <2>3. Listed(w) = {w[k] : k \in DOMAIN w} /\ Listed(l) = {l[k] : k \in DOMAIN l}
    BY <1>1 DEF Listed
  <2> QED
    BY <2>1, <2>2, <2>3
<1> QED
  BY <1>1, <1>3, <1>4

(* A chat that is made now has an id of its own.                             *)
LEMMA FreshIsNew == made \subseteq Chats /\ made # Chats => Fresh \in Chats \ made
BY DEF Fresh

LEMMA AddingFirst ==
  ASSUME NEW S, NEW l \in Seq(S), NEW c \in S, c \notin Listed(l),
         \A j, k \in DOMAIN l : l[j] = l[k] => j = k
  PROVE  /\ <<c>> \o l \in Seq(S)
         /\ \A j, k \in DOMAIN (<<c>> \o l) : (<<c>> \o l)[j] = (<<c>> \o l)[k] => j = k
         /\ Listed(<<c>> \o l) = Listed(l) \cup {c}
<1> DEFINE m == <<c>> \o l
<1>1. m \in Seq(S) /\ Len(m) = Len(l) + 1 /\ DOMAIN m = 1..Len(l) + 1
  OBVIOUS
<1>2. m[1] = c /\ \A k \in 2..Len(l) + 1 : m[k] = l[k - 1]
  OBVIOUS
<1>3. Listed(m) = {m[k] : k \in DOMAIN m} /\ Listed(l) = {l[k] : k \in DOMAIN l}
  BY <1>1 DEF Listed
<1>4. Listed(m) \subseteq Listed(l) \cup {c}
  <2> SUFFICES ASSUME NEW k \in DOMAIN m PROVE m[k] \in Listed(l) \cup {c}
    BY <1>3
  <2> QED
    BY <1>1, <1>2, <1>3
<1>5. c \in Listed(m) /\ \A k \in DOMAIN l : l[k] \in Listed(m)
  <2>1. ASSUME NEW k \in DOMAIN l PROVE l[k] \in Listed(m)
    <3>1. k + 1 \in DOMAIN m /\ m[k + 1] = l[k]
      BY <1>1, <1>2
    <3> QED
      BY <1>3, <3>1
  <2> QED
    BY <1>1, <1>2, <1>3, <2>1
<1>6. \A j, k \in DOMAIN m : m[j] = m[k] => j = k
  <2> SUFFICES ASSUME NEW j \in DOMAIN m, NEW k \in DOMAIN m, m[j] = m[k]
               PROVE  j = k
    OBVIOUS
  <2>1. \A n \in DOMAIN m : n # 1 => n - 1 \in DOMAIN l /\ m[n] = l[n - 1] /\ m[n] # c
    BY <1>1, <1>2, <1>3
  <2> QED
    BY <1>1, <1>2, <2>1
<1> QED
  BY <1>1, <1>3, <1>4, <1>5, <1>6

LEMMA TotalIsNatural ==
  ASSUME AssistantAssumption, NEW s \in Scripts \cup {<<>>}
  PROVE  /\ Total(s) \in Nat
         /\ \A k \in 1..Len(s) : s[k] = "usage" => Total(s) > 0
<1> DEFINE U == {k \in 1..Len(s) : s[k] = "usage"}
<1>1. s \in Seq(Kinds) /\ Len(s) \in Nat
  <2>1. <<>> \in Seq(Kinds) /\ Scripts \subseteq Seq(Kinds)
    BY DEF AssistantAssumption
  <2>2. s \in Seq(Kinds)
    BY <2>1
  <2> QED
    BY <2>2
<1>2. IsFiniteSet(1..Len(s)) /\ IsFiniteSet(U)
  <2>1. IsFiniteSet(1..Len(s))
    BY <1>1, FS_Interval
  <2> QED
    BY <2>1, FS_Subset
<1>3. Cardinality(U) \in Nat /\ (Cardinality(U) = 0 <=> U = {})
  BY <1>2, FS_CardinalityType, FS_EmptySet
<1>4. Total(s) = Cardinality(U)
  BY DEF Total
<1>5. ASSUME NEW k \in 1..Len(s), s[k] = "usage" PROVE Total(s) > 0
  <2>1. U # {}
    BY <1>5
  <2> QED
    BY <1>3, <1>4, <2>1
<1> QED
  BY <1>3, <1>4, <1>5

-------------------------------------------------------------------------------
(* What the steps do to the state these invariants are about.                *)
Quiet ==
    /\ UNCHANGED <<chatVars, activeStreams, savedStreams, script, posts, sent, lost,
                   pendingPosts, busy, connected>>
    /\ source' \in [Chats -> Source] /\ streaming' \in [Chats -> Streaming]
    /\ \A c \in Chats : source'[c].state = "closed" <=> source[c].state = "closed"
    /\ \A c \in Chats : streaming'[c].tokens = streaming[c].tokens
                        \/ (activeStreams[c] # 0 /\ Total(script[activeStreams[c]]) > 0)

Reconnected(on) ==
    /\ on \in BOOLEAN /\ connected' = on
    /\ Attach(IF on THEN Stored(chats) ELSE Nowhere, streaming)
    /\ UNCHANGED <<chatVars, pendingPosts, posts, script, sent, lost>>
    /\ RefreshBusy

Settling(c, m) ==
    /\ source[c].state # "closed"
    /\ m \in Message /\ m.turn = activeStreams[c] /\ m.role # "user"
    /\ m.role = "assistant" => m.tokens = Total(script[m.turn])
    /\ Settle(c, m)
    /\ UNCHANGED <<script, posts, sent, lost, pendingPosts, connected>>

Booting(to, on) ==
    /\ on \in BOOLEAN /\ to \in {Nowhere, Stored(saved.chats)}
    /\ on => to = Stored(saved.chats)
    /\ Boot(to, on)
    /\ UNCHANGED <<saved, made, script, sent>>

Marking(q, where) ==
    /\ At(q, where)
    /\ IF where = "answered"
       THEN q.at = "sent" /\ \E s \in Scripts : script' = [script EXCEPT ![q.turn] = s]
       ELSE where = "failed" /\ UNCHANGED script
    /\ UNCHANGED <<chatVars, streamVars, sent, lost, pendingPosts, busy, connected>>

Steps ==
    \/ Quiet
    \/ NewChat \/ SendMessage
    \/ \E c \in Chats : SelectChat(c) \/ DeleteChat(c)
    \/ \E q \in posts : PostAnswered(q) \/ PostFailed(q) \/ \E w \in {"answered", "failed"} : Marking(q, w)
    \/ \E c \in Chats, m \in Message : Settling(c, m)
    \/ \E on \in BOOLEAN : Reconnected(on)
    \/ \E to \in [Chats -> {0} \cup Turns], on \in BOOLEAN : Booting(to, on)

(* The streaming states of the elements that were wiped are states.          *)
LEMMA DetachedIsStreaming ==
  ASSUME streaming \in [Chats -> Streaming]
  PROVE  /\ Detached \in [Chats -> Streaming]
         /\ \A c \in Chats : Detached[c].tokens = streaming[c].tokens
<1>1. \A e \in Element : Wiped(e) \in Element
  BY DEF Wiped, Element
<1> QED
  BY <1>1 DEF Detached, Streaming

(* The end of a stream: what is counted is what the server says.             *)
LEMMA EndingSettles ==
  ASSUME AssistantAssumption, CoreInv, CountsWhatIsThere, NEW c \in Chats,
         StreamGone(c) \/ Done(c) \/ Error(c)
  PROVE  \E m \in Message : Settling(c, m)
<1> DEFINE n == activeStreams[c]
<1>1. n \in Turns /\ script[n] \in Scripts \cup {<<>>} /\ source[c].state # "closed"
  <2>1. source[c].state # "closed"
    BY DEF StreamGone, Done, Error, Event
  <2>2. n \in {0} \cup Turns /\ n # 0
    BY <2>1 DEF CoreInv, StreamsOK
  <2> QED
    BY <2>1, <2>2 DEF CoreInv, PostsOK
<1>2. Total(script[n]) \in Nat
  BY <1>1, TotalIsNatural
<1>3. CASE StreamGone(c) \/ Error(c)
  <2>1. Failure(n) \in Message /\ Failure(n).role = "error" /\ Failure(n).turn = n
    BY <1>1 DEF Failure, Message
  <2>2. Settle(c, Failure(n))
    BY <1>3 DEF StreamGone, Error, Stream
  <2>3. UNCHANGED <<script, posts, sent, lost, pendingPosts, connected>>
    BY <1>3 DEF StreamGone, Error, Event, serverVars, askVars
  <2>4. Settling(c, Failure(n))
    BY <1>1, <2>1, <2>2, <2>3 DEF Settling
  <2> QED
    BY <2>1, <2>4
<1>4. CASE Done(c)
  <2> DEFINE k == IF Total(script[n]) > 0 THEN Total(script[n]) ELSE streaming[c].tokens
             m == Answer(n, k)
  <2>1. streaming[c].tokens \in Nat
    BY DEF CoreInv, StreamsOK, Streaming
  <2>2. k = Total(script[n])
    BY <1>2, <2>1 DEF CountsWhatIsThere
  <2>3. m \in Message /\ m.role = "assistant" /\ m.turn = n /\ m.tokens = k
    BY <1>1, <1>2, <2>2 DEF Answer, Message
  <2>4. Settle(c, m)
    BY <1>4 DEF Done, Stream
  <2>5. UNCHANGED <<script, posts, sent, lost, pendingPosts, connected>>
    BY <1>4 DEF Done, Event, serverVars, askVars
  <2>6. Settling(c, m)
    BY <1>1, <2>2, <2>3, <2>4, <2>5 DEF Settling
  <2> QED
    BY <2>3, <2>6
<1> QED
  BY <1>3, <1>4

(* Where an event goes has nothing to do with what has been counted.         *)
LEMMA NewBubble ==
  ASSUME streaming \in [Chats -> Streaming], NEW c \in Chats, NEW b \in Element,
         streaming' = [streaming EXCEPT ![c].bubble = b]
  PROVE  /\ streaming' \in [Chats -> Streaming]
         /\ \A d \in Chats : streaming'[d].tokens = streaming[d].tokens
<1> DEFINE r == [streaming[c] EXCEPT !.bubble = b]
<1>1. r \in Streaming /\ r.tokens = streaming[c].tokens
  BY DEF Streaming
<1>2. streaming' = [streaming EXCEPT ![c] = r]
  OBVIOUS
<1> HIDE DEF r
<1> QED
  BY <1>1, <1>2

(* An event that does not end the stream leaves all of it but the panel and  *)
(* the streaming state alone.                                                *)
LEMMA EventsAreQuiet ==
  ASSUME AssistantAssumption, CoreInv, NEW c \in Chats,
         Delta(c) \/ MessageEnd(c) \/ ToolCall(c) \/ ToolResult(c) \/ Usage(c)
  PROVE  Quiet
<1> DEFINE n == activeStreams[c]
           k == source[c].at + 1
<1>1. source[c].state = "open" /\ source[c] \in Source /\ k \in Nat /\ k <= Len(script[n])
  <2>1. source[c].state = "open" /\ source[c].at < Len(script[n])
    BY DEF Delta, MessageEnd, ToolCall, ToolResult, Usage, Event, Stream
  <2>2. source[c] \in Source
    BY DEF CoreInv, StreamsOK
  <2>3. n \in Turns
    BY <2>1 DEF CoreInv, StreamsOK
  <2>4. script[n] \in Scripts \cup {<<>>}
    BY <2>3 DEF CoreInv, PostsOK
  <2>5. Len(script[n]) \in Nat
    <3>1. Scripts \cup {<<>>} \subseteq Seq(Kinds)
      <4>1. <<>> \in Seq(Kinds) /\ Scripts \subseteq Seq(Kinds)
        BY DEF AssistantAssumption
      <4> QED
        BY <4>1
    <3> QED
      BY <2>4, <3>1
  <2> QED
    BY <2>1, <2>2, <2>5 DEF Source
<1>2. UNCHANGED <<chatVars, activeStreams, savedStreams, script, posts, sent, lost,
                  pendingPosts, busy, connected>>
  BY DEF Delta, MessageEnd, ToolCall, ToolResult, Usage, Event, Delivered, serverVars, askVars
<1>3. source' \in [Chats -> Source] /\ \A d \in Chats : source'[d].state = source[d].state
  <2>1. source' = [source EXCEPT ![c].at = @ + 1]
    BY DEF Delta, MessageEnd, ToolCall, ToolResult, Usage, Delivered
  <2>2. source \in [Chats -> Source]
    BY DEF CoreInv, StreamsOK
  <2> QED
    BY <1>1, <2>1, <2>2 DEF Source
<1>4. streaming \in [Chats -> Streaming]
  BY DEF CoreInv, StreamsOK
<1>5. streaming' \in [Chats -> Streaming]
      /\ \A d \in Chats : \/ streaming'[d].tokens = streaming[d].tokens
                          \/ d = c /\ Usage(c)
  <2>1. \A e \in Element : Opens(e) \in Element
    BY DEF Opens, Element
  <2>2. CASE Delta(c)
    <3> DEFINE b == Opens(streaming[c].bubble)
    <3>1. b \in Element
      BY <1>4, <2>1 DEF Streaming
    <3>2. streaming' = streaming \/ streaming' = [streaming EXCEPT ![c].bubble = b]
      BY <2>2 DEF Delta
    <3> QED
      BY <1>4, <3>1, <3>2, NewBubble
  <2>3. CASE MessageEnd(c)
    <3>1. streaming' = streaming \/ streaming' = [streaming EXCEPT ![c].bubble = "none"]
      BY <2>3 DEF MessageEnd
    <3>2. "none" \in Element
      BY DEF Element
    <3> QED
      BY <1>4, <3>1, <3>2, NewBubble
  <2>4. CASE ToolCall(c)
    <3> DEFINE t == Opens(streaming[c].thinking)
               b == IF streaming[c].thinking = "none" THEN "none" ELSE streaming[c].bubble
    <3>1. t \in Element /\ b \in Element
      BY <1>4, <2>1 DEF Streaming, Element
    <3>2. CASE streaming' = streaming
      BY <1>4, <3>2
    <3>3. CASE streaming' = [streaming EXCEPT ![c].thinking = t, ![c].items = @ \cup {k}, ![c].bubble = b]
      <4>1. streaming[c] \in Streaming
        BY <1>4
      <4>2. \A d \in Chats : d # c => streaming'[d] = streaming[d]
        BY <1>4, <3>3
      <4>3. streaming'[c] = [streaming[c] EXCEPT !.thinking = t, !.items = @ \cup {k}, !.bubble = b]
        BY <1>4, <3>3
      <4>4. streaming'[c] \in Streaming /\ streaming'[c].tokens = streaming[c].tokens
        <5> DEFINE r == streaming[c]
                   items == r.items \cup {k}
        <5>1. items \in SUBSET Nat
          BY <1>1, <4>1 DEF Streaming
        <5>2. r = [bubble |-> r.bubble, thinking |-> r.thinking, items |-> r.items, tokens |-> r.tokens]
              /\ r.tokens \in Nat
          BY <4>1 DEF Streaming
        <5>3. streaming'[c] = [bubble |-> b, thinking |-> t, items |-> items, tokens |-> r.tokens]
          <6> HIDE DEF b, t
          <6> QED
            BY <4>3, <5>2
        <5> QED
          BY <3>1, <5>1, <5>2, <5>3 DEF Streaming
      <4>5. streaming' = [d \in Chats |-> streaming'[d]]
        BY <1>4, <3>3
      <4> QED
        BY <1>4, <4>2, <4>4, <4>5
    <3> QED
      BY <2>4, <3>2, <3>3 DEF ToolCall
  <2>5. CASE ToolResult(c)
    BY <1>4, <2>5 DEF ToolResult
  <2>6. CASE Usage(c)
    <3>1. streaming' = [streaming EXCEPT ![c].tokens = @ + 1]
      BY <2>6 DEF Usage
    <3> DEFINE r == [streaming[c] EXCEPT !.tokens = @ + 1]
    <3>2. streaming' = [streaming EXCEPT ![c] = r]
      BY <3>1
    <3>3. streaming[c] \in Streaming
      BY <1>4
    <3>4. r \in Streaming
      BY <3>3 DEF Streaming
    <3> QED
      BY <1>4, <2>6, <3>2, <3>4
  <2> QED
    BY <2>2, <2>3, <2>4, <2>5, <2>6
<1>6. ASSUME Usage(c) PROVE n # 0 /\ Total(script[n]) > 0
  <2>1. n \in Turns /\ script[n] \in Scripts \cup {<<>>} /\ n # 0
    BY <1>1 DEF CoreInv, StreamsOK, PostsOK, Turns
  <2>2. script[n][k] = "usage" /\ source[c].at \in Nat
    BY <1>1, <1>6 DEF Usage, Event, Stream, Source
  <2>3. k \in 1..Len(script[n])
    BY <1>1, <2>2
  <2> QED
    BY <2>1, <2>2, <2>3, TotalIsNatural
<1> QED
  BY <1>2, <1>3, <1>5, <1>6 DEF Quiet

LEMMA StepKinds ==
  ASSUME AssistantAssumption, CoreInv, CountsWhatIsThere, Next
  PROVE  Steps
<1>1. source \in [Chats -> Source] /\ streaming \in [Chats -> Streaming]
  BY DEF CoreInv, StreamsOK
<1>3. CASE SendMessage \/ NewChat \/ \E c \in Chats : SelectChat(c) \/ DeleteChat(c)
  BY <1>3 DEF Steps
<1>4. CASE KeepEmptyChat
  <2>1. streaming' = Detached /\ source' = source
        /\ UNCHANGED <<chatVars, activeStreams, savedStreams, script, posts, sent, lost,
                       pendingPosts, busy, connected>>
    BY <1>4 DEF KeepEmptyChat, serverVars, askVars
  <2> QED
    BY <1>1, <2>1, DetachedIsStreaming DEF Quiet, Steps
<1>5. CASE OpenPanel \/ Logout \/ HandleAuthStatus \/ HandleLogout \/ \E n \in Turns : Expire(n)
  <2>1. UNCHANGED <<chatVars, streamVars, script, posts, sent, lost, pendingPosts, busy, connected>>
    BY <1>5 DEF OpenPanel, Logout, HandleAuthStatus, HandleLogout, Expire, serverVars, askVars
  <2> QED
    BY <1>1, <2>1 DEF Quiet, Steps, streamVars
<1>6. ASSUME NEW c \in Chats, Drop(c) \/ Connect(c) PROVE Quiet
  <2>1. /\ source[c].state # "closed"
        /\ \/ source' = [source EXCEPT ![c].state = "connecting"]
           \/ source' = [source EXCEPT ![c] = [state |-> "open", at |-> 0]]
        /\ UNCHANGED <<chatVars, activeStreams, streaming, savedStreams, script, posts, sent, lost,
                       pendingPosts, busy, connected>>
    BY <1>6 DEF Drop, Connect, serverVars, askVars
  <2>2. source' \in [Chats -> Source] /\ source'[c].state # "closed"
        /\ \A d \in Chats : d # c => source'[d] = source[d]
    <3>1. source[c] \in Source /\ [state |-> "open", at |-> 0] \in Source
      BY <1>1 DEF Source
    <3>2. [source[c] EXCEPT !.state = "connecting"] \in Source
      BY <3>1 DEF Source
    <3>3. CASE source' = [source EXCEPT ![c] = [state |-> "open", at |-> 0]]
      BY <1>1, <3>1, <3>3
    <3>4. CASE source' = [source EXCEPT ![c].state = "connecting"]
      <4>1. source' = [source EXCEPT ![c] = [source[c] EXCEPT !.state = "connecting"]]
        BY <3>4
      <4>2. [source[c] EXCEPT !.state = "connecting"].state = "connecting"
        BY <3>1 DEF Source
      <4> QED
        BY <1>1, <3>2, <4>1, <4>2
    <3> QED
      BY <2>1, <3>3, <3>4
  <2> QED
    BY <1>1, <2>1, <2>2 DEF Quiet
<1>7. CASE Restart
  <2>1. /\ source' = [c \in Chats |-> IF source[c].state = "open"
                        THEN [source[c] EXCEPT !.state = "connecting"] ELSE source[c]]
        /\ UNCHANGED <<chatVars, activeStreams, streaming, savedStreams, script, posts, sent, lost,
                       pendingPosts, busy, connected>>
    BY <1>7 DEF Restart, askVars
  <2>2. source' \in [Chats -> Source]
        /\ \A c \in Chats : source'[c].state = "closed" <=> source[c].state = "closed"
    BY <1>1, <2>1 DEF Source
  <2> QED
    BY <1>1, <2>1, <2>2 DEF Quiet, Steps
<1>8. CASE AuthStatusFails \/ AuthStatus \/ LoggedOut \/ LogoutFails
  <2>1. PICK on \in BOOLEAN : SetConnected(on)
    BY <1>8 DEF AuthStatusFails, AuthStatus, LoggedOut, LogoutFails
  <2>2. UNCHANGED <<posts, script, sent, lost>>
    BY <1>8 DEF AuthStatusFails, AuthStatus, LoggedOut, LogoutFails, serverVars
  <2> QED
    BY <2>1, <2>2 DEF SetConnected, Reconnected, Steps
<1>9. CASE Login \/ Reload
  <2>1. CASE Login
    <3>1. Stored(saved.chats) \in [Chats -> {0} \cup Turns]
      BY DEF Stored, CoreInv, StreamsOK
    <3>2. Boot(Stored(saved.chats), TRUE) /\ UNCHANGED <<saved, made, script, sent>>
      BY <2>1 DEF Login
    <3>3. Booting(Stored(saved.chats), TRUE)
      BY <3>2 DEF Booting
    <3> QED
      BY <3>1, <3>3 DEF Steps
  <2>2. CASE Reload
    <3>1. Nowhere \in [Chats -> {0} \cup Turns]
      BY DEF Nowhere
    <3>2. Boot(Nowhere, FALSE) /\ UNCHANGED <<saved, made, script, sent>>
      BY <2>2 DEF Reload, serverVars
    <3>3. Booting(Nowhere, FALSE)
      BY <3>2 DEF Booting
    <3> QED
      BY <3>1, <3>3 DEF Steps
  <2> QED
    BY <1>9, <2>1, <2>2
<1>10. ASSUME NEW q \in posts, HandleChat(q) \/ LosePost(q)
       PROVE  \E w \in {"answered", "failed"} : Marking(q, w)
  <2>1. CASE HandleChat(q) /\ cookie
    BY <2>1 DEF HandleChat, Marking
  <2>2. CASE HandleChat(q) /\ ~cookie
    BY <2>2 DEF HandleChat, Marking
  <2>3. CASE LosePost(q)
    BY <2>3 DEF LosePost, Marking, serverVars
  <2> QED
    BY <1>10, <2>1, <2>2, <2>3
<1>11. CASE \E q \in posts : HandleChat(q) \/ LosePost(q) \/ PostAnswered(q) \/ PostFailed(q)
  BY <1>10, <1>11 DEF Steps
<1>12. CASE \E c \in Chats : Drop(c) \/ Connect(c) \/ StreamGone(c) \/ Deliver(c)
  <2> PICK c \in Chats : Drop(c) \/ Connect(c) \/ StreamGone(c) \/ Deliver(c)
    BY <1>12
  <2>1. CASE StreamGone(c) \/ Done(c) \/ Error(c)
    BY <2>1, EndingSettles DEF Steps
  <2>2. CASE Delta(c) \/ MessageEnd(c) \/ ToolCall(c) \/ ToolResult(c) \/ Usage(c)
    BY <2>2, EventsAreQuiet DEF Steps
  <2> QED
    BY <1>6, <2>1, <2>2 DEF Deliver, Steps
<1> QED
  BY <1>3, <1>4, <1>5, <1>7, <1>8, <1>9, <1>11, <1>12 DEF Next, User_, Trouble, System

(* A step that changes nothing is quiet.                                     *)
LEMMA StutterIsQuiet == CoreInv /\ UNCHANGED vars => Quiet
BY DEF vars, chatVars, streamVars, serverVars, askVars, CoreInv, StreamsOK, Quiet

-------------------------------------------------------------------------------
(* The core holds.  The steps that render the chats' state into localStorage *)
(* and refresh busy do it by definition.                                     *)
LEMMA SavedAndBusy ==
  /\ SaveChats => SavedOK'
  /\ RefreshBusy => BusyOK'
  /\ CoreInv /\ UNCHANGED chatVars => SavedOK'
  /\ CoreInv /\ UNCHANGED <<activeStreams, activeChat, pendingPosts, busy>> => BusyOK'
BY DEF SaveChats, RefreshBusy, SavedOK, BusyOK, CoreInv, chatVars

LEMMA AttachIsOK ==
  ASSUME StreamsOK, NEW to \in [Chats -> {0} \cup Turns], NEW rest \in [Chats -> Streaming],
         Attach(to, rest)
  PROVE  /\ StreamsOK'
         /\ \A c \in Chats : activeStreams'[c] = IF to[c] = 0 THEN activeStreams[c] ELSE to[c]
         /\ \A c \in Chats : streaming'[c] = IF to[c] = 0 THEN rest[c] ELSE NoState
         /\ IF to = Nowhere THEN savedStreams' = savedStreams ELSE savedStreams' = activeStreams'
<1>1. NoState \in Streaming /\ Opened \in Source /\ Opened.state # "closed"
  BY DEF NoState, Streaming, Element, Opened, Source
<1>2. /\ activeStreams' = [c \in Chats |-> IF to[c] = 0 THEN activeStreams[c] ELSE to[c]]
      /\ source' = [c \in Chats |-> IF to[c] = 0 THEN source[c] ELSE Opened]
      /\ streaming' = [c \in Chats |-> IF to[c] = 0 THEN rest[c] ELSE NoState]
      /\ IF \E c \in Chats : to[c] # 0 THEN savedStreams' = activeStreams' ELSE savedStreams' = savedStreams
  BY DEF Attach, PersistActiveStreams
<1>3. to = Nowhere <=> \A c \in Chats : to[c] = 0
  BY DEF Nowhere
<1>4. activeStreams' \in [Chats -> {0} \cup Turns] /\ savedStreams' \in [Chats -> {0} \cup Turns]
  BY <1>2 DEF StreamsOK
<1>5. source' \in [Chats -> Source] /\ streaming' \in [Chats -> Streaming]
  BY <1>1, <1>2 DEF StreamsOK
<1>6. \A c \in Chats : source'[c].state = "closed" <=> activeStreams'[c] = 0
  BY <1>1, <1>2 DEF StreamsOK
<1> QED
  BY <1>2, <1>3, <1>4, <1>5, <1>6 DEF StreamsOK

LEMMA NobodyIsOK ==
  /\ Nowhere \in [Chats -> {0} \cup Turns] /\ \A c \in Chats : Nowhere[c] = 0
  /\ \A c \in Chats, n \in {0} \cup Turns :
       /\ Only(c, n) \in [Chats -> {0} \cup Turns] /\ Only(c, n)[c] = n
       /\ \A d \in Chats : d # c => Only(c, n)[d] = 0
BY DEF Nowhere, Only

LEMMA QuietCore == CoreInv /\ Quiet => CoreInv'
<1> SUFFICES ASSUME CoreInv, Quiet PROVE CoreInv'
  OBVIOUS
<1>1. SavedOK' /\ BusyOK'
  BY SavedAndBusy DEF Quiet, chatVars
<1>2. ChatsOK'
  BY DEF Quiet, chatVars, CoreInv, ChatsOK
<1>3. StreamsOK'
  BY DEF Quiet, CoreInv, StreamsOK
<1>4. PostsOK'
  BY DEF Quiet, CoreInv, PostsOK
<1>5. MadeOK'
  BY DEF Quiet, chatVars, CoreInv, MadeOK
<1> QED
  BY <1>1, <1>2, <1>3, <1>4, <1>5 DEF CoreInv

LEMMA ReconnectedCore ==
  ASSUME CoreInv, NEW on \in BOOLEAN, Reconnected(on)
  PROVE  CoreInv'
<1> DEFINE to == IF on THEN Stored(chats) ELSE Nowhere
<1>1. to \in [Chats -> {0} \cup Turns]
      /\ \A c \in Chats : to[c] # 0 => c \in Listed(chats) /\ to[c] = savedStreams[c]
  BY NobodyIsOK DEF Stored, CoreInv, StreamsOK
<1>2. /\ StreamsOK'
      /\ \A c \in Chats : activeStreams'[c] = IF to[c] = 0 THEN activeStreams[c] ELSE to[c]
      /\ savedStreams' = savedStreams \/ savedStreams' = activeStreams'
  <2>1. Attach(to, streaming) /\ streaming \in [Chats -> Streaming] /\ StreamsOK
    BY DEF Reconnected, CoreInv, StreamsOK
  <2> HIDE DEF to
  <2> QED
    BY <1>1, <2>1, AttachIsOK
<1>3. SavedOK' /\ BusyOK'
  BY SavedAndBusy DEF Reconnected
<1>4. ChatsOK' /\ PostsOK'
  BY DEF Reconnected, chatVars, CoreInv, ChatsOK, PostsOK
<1>5. MadeOK'
  <2> HIDE DEF to
  <2> QED
    BY <1>1, <1>2 DEF Reconnected, chatVars, CoreInv, MadeOK
<1> QED
  BY <1>2, <1>3, <1>4, <1>5 DEF CoreInv

LEMMA SelectCore ==
  ASSUME CoreInv, NEW c \in Chats, SelectChat(c)
  PROVE  CoreInv'
<1> DEFINE to == Only(c, activeStreams[c])
<1>1. activeStreams[c] \in {0} \cup Turns
  BY DEF CoreInv, StreamsOK
<1>2. /\ StreamsOK'
      /\ \A d \in Chats : activeStreams'[d] = activeStreams[d]
      /\ savedStreams' = savedStreams \/ savedStreams' = activeStreams'
  <2>1. Attach(to, Detached) /\ Detached \in [Chats -> Streaming] /\ StreamsOK
    BY DetachedIsStreaming DEF SelectChat, CoreInv, StreamsOK
  <2>2. to \in [Chats -> {0} \cup Turns] /\ to[c] = activeStreams[c]
        /\ \A d \in Chats : d # c => to[d] = 0
    <3> DEFINE n == activeStreams[c]
    <3> HIDE DEF n
    <3>1. n \in {0} \cup Turns
      BY <1>1 DEF n
    <3>2. Only(c, n) \in [Chats -> {0} \cup Turns] /\ Only(c, n)[c] = n
          /\ \A d \in Chats : d # c => Only(c, n)[d] = 0
      BY <3>1, NobodyIsOK
    <3> QED
      BY <3>2 DEF n
  <2> HIDE DEF to
  <2> QED
    BY <2>1, <2>2, AttachIsOK
<1>3. SavedOK' /\ BusyOK'
  BY SavedAndBusy DEF SelectChat
<1>4. ChatsOK' /\ PostsOK'
  BY DEF SelectChat, chatVars, serverVars, askVars, CoreInv, ChatsOK, PostsOK
<1>5. MadeOK'
  BY <1>2 DEF SelectChat, askVars, CoreInv, MadeOK
<1> QED
  BY <1>2, <1>3, <1>4, <1>5 DEF CoreInv

LEMMA NewChatCore ==
  ASSUME CoreInv, NewChat
  PROVE  CoreInv'
<1>1. Fresh \in Chats \ made /\ Fresh \notin Listed(chats)
  BY FreshIsNew DEF NewChat, CoreInv, MadeOK
<1>2. chats' = <<Fresh>> \o chats /\ activeChat' = Fresh /\ made' = made \cup {Fresh}
  BY DEF NewChat
<1>3. /\ chats' \in Seq(Chats) /\ Listed(chats') = Listed(chats) \cup {Fresh}
      /\ \A j, k \in DOMAIN chats' : chats'[j] = chats'[k] => j = k
  BY <1>1, <1>2, AddingFirst DEF CoreInv, ChatsOK
<1>4. UNCHANGED <<history, lastDone, activeStreams, source, savedStreams, script, posts, sent, lost,
                  pendingPosts, connected>> /\ streaming' = Detached
  BY DEF NewChat, serverVars, askVars
<1>5. SavedOK' /\ BusyOK'
  BY SavedAndBusy DEF NewChat
<1>6. ChatsOK'
  BY <1>2, <1>3, <1>4 DEF CoreInv, ChatsOK
<1>7. StreamsOK'
  BY <1>4, DetachedIsStreaming DEF CoreInv, StreamsOK
<1>8. PostsOK'
  BY <1>4 DEF CoreInv, PostsOK
<1>9. MadeOK'
  BY <1>1, <1>2, <1>3, <1>4 DEF CoreInv, MadeOK
<1> QED
  BY <1>5, <1>6, <1>7, <1>8, <1>9 DEF CoreInv

(* What deleting a chat does to the list.                                    *)
LEMMA Deleting ==
  ASSUME CoreInv, NEW c \in Chats, DeleteChat(c)
  PROVE  /\ chats' \in Seq(Chats) /\ activeChat' \in Listed(chats')
         /\ \A j, k \in DOMAIN chats' : chats'[j] = chats'[k] => j = k
         /\ \/ made' = made /\ Listed(chats') = Listed(chats) \ {c}
            \/ /\ Fresh \in Chats \ made /\ made' = made \cup {Fresh} /\ Listed(chats') = {Fresh}
         /\ c \in Listed(chats) /\ c \notin Listed(chats')
<1>1. PICK i \in 1..Len(chats) : /\ chats[i] = c
         /\ IF Len(chats) = 1
            THEN /\ made # Chats
                 /\ chats' = <<Fresh>> /\ activeChat' = Fresh /\ made' = made \cup {Fresh}
            ELSE /\ chats' = Without(chats, i)
                 /\ activeChat' = ActiveAfter(c, i, chats')
                 /\ made' = made
  BY DEF DeleteChat
<1>2. chats \in Seq(Chats) /\ i \in DOMAIN chats /\ c \in Listed(chats) /\ c \in made
      /\ \A j, k \in DOMAIN chats : chats[j] = chats[k] => j = k
  <2>1. chats \in Seq(Chats) /\ \A j, k \in DOMAIN chats : chats[j] = chats[k] => j = k
    BY DEF CoreInv, ChatsOK
  <2>2. i \in DOMAIN chats /\ c \in Listed(chats)
    BY <1>1, <2>1 DEF Listed
  <2> QED
    BY <2>1, <2>2 DEF CoreInv, MadeOK
<1>3. CASE Len(chats) = 1
  <2>1. Fresh \in Chats \ made
    BY <1>1, <1>3, FreshIsNew DEF CoreInv, MadeOK
  <2>2. chats' = <<Fresh>> /\ activeChat' = Fresh /\ made' = made \cup {Fresh}
    BY <1>1, <1>3
  <2>3. Listed(chats') = {Fresh} /\ chats' \in Seq(Chats) /\ DOMAIN chats' = {1}
    BY <2>1, <2>2 DEF Listed
  <2> QED
    BY <1>2, <2>1, <2>2, <2>3
<1>4. CASE Len(chats) # 1
  <2>1. Len(chats) > 1 /\ Len(chats) \in Nat
    BY <1>1, <1>2, <1>4
  <2>2. chats' = Without(chats, i) /\ activeChat' = ActiveAfter(c, i, chats') /\ made' = made
    BY <1>1, <1>4
  <2>3. /\ chats' \in Seq(Chats) /\ Len(chats') = Len(chats) - 1
        /\ \A j, k \in DOMAIN chats' : chats'[j] = chats'[k] => j = k
        /\ Listed(chats') = Listed(chats) \ {c}
    BY <1>1, <1>2, <2>1, <2>2, TakingOut
  <2>4. activeChat' \in Listed(chats')
    <3>1. CASE c # activeChat
      BY <2>2, <2>3, <3>1 DEF ActiveAfter, CoreInv, ChatsOK
    <3>2. CASE c = activeChat
      <4> DEFINE k == IF i > 1 THEN i - 1 ELSE 1
      <4>1. activeChat' = chats'[k] /\ k \in 1..Len(chats')
        BY <1>1, <2>1, <2>2, <2>3, <3>2 DEF ActiveAfter
      <4> QED
        BY <4>1 DEF Listed
    <3> QED
      BY <3>1, <3>2
  <2> QED
    BY <1>2, <2>2, <2>3, <2>4
<1> QED
  BY <1>3, <1>4

LEMMA DeleteCore ==
  ASSUME CoreInv, NEW c \in Chats, DeleteChat(c)
  PROVE  CoreInv'
<1>1. /\ UNCHANGED <<history, lastDone, script, posts, sent, lost, pendingPosts, connected>>
      /\ activeStreams' = [activeStreams EXCEPT ![c] = 0]
      /\ source' = [source EXCEPT ![c] = Closed]
      /\ streaming' = [Detached EXCEPT ![c] = NoState]
      /\ savedStreams' = savedStreams \/ savedStreams' = activeStreams'
  BY DEF DeleteChat, PersistActiveStreams, serverVars, askVars
<1>2. SavedOK' /\ BusyOK'
  BY SavedAndBusy DEF DeleteChat
<1>3. ChatsOK'
  BY <1>1, Deleting DEF CoreInv, ChatsOK
<1>4. StreamsOK'
  <2>1. NoState \in Streaming /\ Closed \in Source /\ Closed.state = "closed"
    BY DEF NoState, Streaming, Element, Closed, Source
  <2>2. Detached \in [Chats -> Streaming]
    BY DetachedIsStreaming DEF CoreInv, StreamsOK
  <2> QED
    BY <1>1, <2>1, <2>2 DEF CoreInv, StreamsOK
<1>5. PostsOK'
  BY <1>1 DEF CoreInv, PostsOK
<1>6. MadeOK'
  <2>1. made \subseteq made' /\ made' \subseteq Chats /\ Listed(chats') \subseteq made'
    BY Deleting DEF CoreInv, MadeOK
  <2>2. \A d \in Chats : activeStreams[d] = 0 => activeStreams'[d] = 0
    BY <1>1 DEF CoreInv, StreamsOK
  <2> QED
    BY <1>1, <2>1, <2>2 DEF CoreInv, MadeOK
<1> QED
  BY <1>2, <1>3, <1>4, <1>5, <1>6 DEF CoreInv

LEMMA SendCore ==
  ASSUME AssistantAssumption, CoreInv, TurnsOK, SendMessage
  PROVE  CoreInv'
<1> DEFINE n == sent + 1
           q == [chat |-> activeChat, turn |-> n, at |-> "sent"]
<1>1. /\ sent < MaxTurns /\ ~busy /\ sent' = n
      /\ history' = [history EXCEPT ![activeChat] = Append(@, User(n))]
      /\ pendingPosts' = pendingPosts \cup {activeChat}
      /\ posts' = posts \cup {q}
      /\ UNCHANGED <<chats, activeChat, lastDone, made, streamVars, script, lost, connected>>
  BY DEF SendMessage, serverVars
<1>2. n \in Turns /\ n \in 0..MaxTurns /\ sent \in Nat
  BY <1>1 DEF CoreInv, PostsOK, Turns, AssistantAssumption
<1>3. activeChat \in Listed(chats) /\ activeChat \in made /\ activeChat \in Chats
  BY DEF CoreInv, ChatsOK, MadeOK
<1>4. activeChat \notin pendingPosts
  BY <1>1 DEF CoreInv, BusyOK
<1>5. User(n) \in Message
  BY <1>2 DEF User, Message
<1>6. SavedOK' /\ BusyOK'
  BY SavedAndBusy DEF SendMessage
<1>7. ChatsOK'
  <2>1. history' \in [Chats -> Seq(Message)]
    <3>1. \A h \in Seq(Message) : Append(h, User(n)) \in Seq(Message)
      BY <1>5
    <3> QED
      BY <1>1, <1>3, <3>1 DEF CoreInv, ChatsOK
  <2> QED
    BY <1>1, <2>1 DEF CoreInv, ChatsOK
<1>8. StreamsOK'
  BY <1>1 DEF CoreInv, StreamsOK, streamVars
<1>9. PostsOK'
  <2>1. q \in Post
    BY <1>2, <1>3 DEF Post
  <2>2. \A r \in posts : r.chat # activeChat /\ r.turn # n
    <3>1. \A r \in posts : r.turn <= sent /\ r.turn \in Turns /\ r.chat \in pendingPosts
      BY DEF CoreInv, PostsOK, Post, TurnsOK
    <3> QED
      BY <1>2, <1>4, <3>1 DEF Turns
  <2>3. q.chat = activeChat /\ q.turn = n
    OBVIOUS
  <2>4. pendingPosts' = {r.chat : r \in posts'}
    BY <1>1, <2>3 DEF CoreInv, PostsOK
  <2> HIDE DEF q
  <2>5. \A r, s \in posts' : r.chat = s.chat \/ r.turn = s.turn => r = s
    BY <1>1, <2>2, <2>3 DEF CoreInv, PostsOK
  <2> QED
    BY <1>1, <1>2, <2>1, <2>4, <2>5 DEF CoreInv, PostsOK
<1>10. MadeOK'
  <2>1. \A c \in Chats \ made : history'[c] = history[c]
    BY <1>1, <1>3 DEF CoreInv, ChatsOK
  <2>2. q.chat = activeChat
    OBVIOUS
  <2> HIDE DEF q
  <2> QED
    BY <1>1, <1>3, <2>1, <2>2 DEF CoreInv, MadeOK, streamVars
<1> QED
  BY <1>6, <1>7, <1>8, <1>9, <1>10 DEF CoreInv

(* The posts after one of them was marked, or answered to the page.          *)
LEMMA MarkedPosts ==
  ASSUME PostsOK, NEW q \in posts, NEW w \in {"answered", "failed"}, At(q, w)
  PROVE  /\ posts' \subseteq Post
         /\ {r.chat : r \in posts'} = {r.chat : r \in posts}
         /\ \A r, s \in posts' : r.chat = s.chat \/ r.turn = s.turn => r = s
         /\ \A r \in posts' : \E s \in posts :
              /\ s.chat = r.chat /\ s.turn = r.turn
              /\ (r = s /\ s # q) \/ (s = q /\ r.at = w)
         /\ \A s \in posts : \E r \in posts' : s.chat = r.chat /\ s.turn = r.turn
<1> DEFINE p == [q EXCEPT !.at = w]
<1>1. posts' = (posts \ {q}) \cup {p}
  BY DEF At
<1>2. posts \subseteq Post /\ \A r, s \in posts : r.chat = s.chat \/ r.turn = s.turn => r = s
  BY DEF PostsOK
<1>3. p \in Post /\ p.chat = q.chat /\ p.turn = q.turn /\ p.at = w
  BY <1>2 DEF Post
<1> HIDE DEF p
<1>4. posts' \subseteq Post /\ {r.chat : r \in posts'} = {r.chat : r \in posts}
  BY <1>1, <1>2, <1>3
<1>5. \A r \in posts' : \E s \in posts :
        /\ s.chat = r.chat /\ s.turn = r.turn
        /\ (r = s /\ s # q) \/ (r = p /\ s = q)
  BY <1>1, <1>3
<1>6. \A r, s \in posts' : r.chat = s.chat \/ r.turn = s.turn => r = s
  <2> SUFFICES ASSUME NEW r \in posts', NEW s \in posts', r.chat = s.chat \/ r.turn = s.turn
               PROVE  r = s
    OBVIOUS
  <2>1. PICK a \in posts : a.chat = r.chat /\ a.turn = r.turn /\ ((r = a /\ a # q) \/ (r = p /\ a = q))
    BY <1>5
  <2>2. PICK b \in posts : b.chat = s.chat /\ b.turn = s.turn /\ ((s = b /\ b # q) \/ (s = p /\ b = q))
    BY <1>5
  <2>3. a = b
    BY <1>2, <2>1, <2>2
  <2> QED
    BY <2>1, <2>2, <2>3
<1>7. \A s \in posts : \E r \in posts' : s.chat = r.chat /\ s.turn = r.turn
  BY <1>1, <1>3
<1> QED
  BY <1>3, <1>4, <1>5, <1>6, <1>7

LEMMA MarkingCore ==
  ASSUME CoreInv, NEW q \in posts, NEW w \in {"answered", "failed"}, Marking(q, w)
  PROVE  CoreInv'
<1>1. UNCHANGED <<chatVars, streamVars, sent, lost, pendingPosts, busy, connected>> /\ At(q, w)
  BY DEF Marking
<1>2. script' \in [Turns -> Scripts \cup {<<>>}]
  BY DEF Marking, CoreInv, PostsOK, Post
<1>3. PostsOK
  BY DEF CoreInv
<1>4. SavedOK' /\ BusyOK'
  BY <1>1, SavedAndBusy DEF chatVars, streamVars
<1>5. ChatsOK' /\ StreamsOK'
  BY <1>1 DEF CoreInv, ChatsOK, StreamsOK, chatVars, streamVars
<1>6. PostsOK'
  BY <1>1, <1>2, <1>3, MarkedPosts DEF PostsOK
<1>7. MadeOK'
  BY <1>1, <1>3, MarkedPosts DEF CoreInv, MadeOK, chatVars, streamVars
<1> QED
  BY <1>4, <1>5, <1>6, <1>7 DEF CoreInv

(* The posts after one of them is done.                                      *)
LEMMA PostsLeft ==
  ASSUME CoreInv, NEW q \in posts, posts' = posts \ {q}, pendingPosts' = pendingPosts \ {q.chat},
         UNCHANGED <<script, sent, lost, connected>>
  PROVE  PostsOK'
<1>1. \A r \in posts : r # q => r.chat # q.chat
  BY DEF CoreInv, PostsOK
<1> QED
  BY <1>1 DEF CoreInv, PostsOK

LEMMA PostAnsweredCore ==
  ASSUME CoreInv, NEW q \in posts, PostAnswered(q)
  PROVE  CoreInv'
<1> DEFINE c == q.chat
           n == q.turn
<1>1. c \in Chats /\ n \in Turns /\ c \in made
  BY DEF CoreInv, PostsOK, Post, MadeOK
<1>2. /\ StreamsOK'
      /\ \A d \in Chats : d # c => activeStreams'[d] = activeStreams[d]
      /\ savedStreams' = savedStreams \/ savedStreams' = activeStreams'
  <2>1. Attach(Only(c, n), streaming) /\ streaming \in [Chats -> Streaming] /\ StreamsOK
    BY DEF PostAnswered, CoreInv, StreamsOK
  <2>2. /\ Only(c, n) \in [Chats -> {0} \cup Turns]
        /\ \A d \in Chats : d # c => Only(c, n)[d] = 0
    <3> HIDE DEF c, n
    <3>1. n \in {0} \cup Turns
      BY <1>1
    <3> QED
      BY <1>1, <3>1, NobodyIsOK
  <2> QED
    BY <2>1, <2>2, AttachIsOK
<1>3. SavedOK' /\ BusyOK'
  BY SavedAndBusy DEF PostAnswered
<1>4. UNCHANGED <<chatVars, script, sent, lost, connected>>
      /\ posts' = posts \ {q} /\ pendingPosts' = pendingPosts \ {c}
  BY DEF PostAnswered, serverVars
<1>5. ChatsOK'
  BY <1>4 DEF chatVars, CoreInv, ChatsOK
<1>6. PostsOK'
  BY <1>4, PostsLeft
<1>7. MadeOK'
  <2>1. \A d \in Chats \ made : d # c
    BY <1>1
  <2> HIDE DEF c
  <2> QED
    BY <1>2, <1>4, <2>1 DEF chatVars, CoreInv, MadeOK
<1> QED
  BY <1>2, <1>3, <1>5, <1>6, <1>7 DEF CoreInv

LEMMA AppendingTo ==
  ASSUME ChatsOK, NEW c \in Chats, NEW m \in Message,
         history' = [history EXCEPT ![c] = Append(@, m)]
  PROVE  /\ history' \in [Chats -> Seq(Message)]
         /\ \A d \in Chats : d # c => history'[d] = history[d]
         /\ history'[c] = Append(history[c], m) /\ history[c] \in Seq(Message)
<1>1. history[c] \in Seq(Message)
  BY DEF ChatsOK
<1>2. Append(history[c], m) \in Seq(Message)
  BY <1>1
<1> QED
  BY <1>1, <1>2 DEF ChatsOK

LEMMA PostFailedCore ==
  ASSUME CoreInv, NEW q \in posts, PostFailed(q)
  PROVE  CoreInv'
<1>1. q.chat \in Chats /\ q.turn \in Turns /\ q.chat \in made
  BY DEF CoreInv, PostsOK, Post, MadeOK
<1>2. UNCHANGED <<chats, activeChat, lastDone, made, streamVars, script, sent, lost, connected>>
      /\ posts' = posts \ {q} /\ pendingPosts' = pendingPosts \ {q.chat}
      /\ history' = [history EXCEPT ![q.chat] = Append(@, Failure(q.turn))]
  BY DEF PostFailed, serverVars
<1>3. Failure(q.turn) \in Message
  BY <1>1 DEF Failure, Message
<1>4. SavedOK' /\ BusyOK'
  BY SavedAndBusy DEF PostFailed
<1>5. history' \in [Chats -> Seq(Message)] /\ \A d \in Chats : d # q.chat => history'[d] = history[d]
  BY <1>1, <1>2, <1>3, AppendingTo DEF CoreInv
<1>6. ChatsOK'
  BY <1>2, <1>5 DEF CoreInv, ChatsOK
<1>7. StreamsOK'
  BY <1>2 DEF CoreInv, StreamsOK, streamVars
<1>8. PostsOK'
  BY <1>2, PostsLeft
<1>9. MadeOK'
  <2>1. \A d \in Chats \ made : history'[d] = history[d]
    BY <1>1, <1>5
  <2> QED
    BY <1>2, <2>1 DEF CoreInv, MadeOK, streamVars
<1> QED
  BY <1>4, <1>6, <1>7, <1>8, <1>9 DEF CoreInv

(* What the end of a stream does: the message comes once.                    *)
LEMMA Settled_ ==
  ASSUME CoreInv, NEW c \in Chats, NEW m \in Message, Settling(c, m)
  PROVE  /\ activeStreams[c] \in Turns /\ c \in made
         /\ activeStreams' = [activeStreams EXCEPT ![c] = 0] /\ savedStreams' = activeStreams'
         /\ source' = [source EXCEPT ![c] = Closed]
         /\ streaming' = [streaming EXCEPT ![c] = NoState]
         /\ UNCHANGED <<chats, activeChat, made>>
         /\ UNCHANGED <<script, posts, sent, lost, pendingPosts, connected>>
         /\ SavedOK' /\ BusyOK'
         /\ \/ lastDone[c] = activeStreams[c] /\ UNCHANGED <<history, lastDone>>
            \/ /\ lastDone[c] # activeStreams[c]
               /\ lastDone' = [lastDone EXCEPT ![c] = activeStreams[c]]
               /\ history' = [history EXCEPT ![c] = Append(@, m)]
<1>1. activeStreams[c] \in Turns /\ c \in made
  BY DEF Settling, CoreInv, StreamsOK, MadeOK
<1>2. Settle(c, m) /\ UNCHANGED <<script, posts, sent, lost, pendingPosts, connected>>
  BY DEF Settling
<1>3. CloseStream(c) /\ RefreshBusy
  BY <1>2 DEF Settle
<1>4. CASE lastDone[c] = activeStreams[c]
  <2>1. UNCHANGED chatVars
    BY <1>2, <1>4 DEF Settle, Stream
  <2> QED
    BY <1>1, <1>2, <1>3, <1>4, <2>1, SavedAndBusy DEF CloseStream, PersistActiveStreams, chatVars
<1>5. CASE lastDone[c] # activeStreams[c]
  <2>1. /\ lastDone' = [lastDone EXCEPT ![c] = activeStreams[c]]
        /\ history' = [history EXCEPT ![c] = Append(@, m)]
        /\ UNCHANGED <<chats, activeChat, made>> /\ SaveChats
    BY <1>2, <1>5 DEF Settle, Stream
  <2> QED
    BY <1>1, <1>2, <1>3, <1>5, <2>1, SavedAndBusy DEF CloseStream, PersistActiveStreams
<1> QED
  BY <1>4, <1>5

LEMMA SettlingCore ==
  ASSUME CoreInv, NEW c \in Chats, NEW m \in Message, Settling(c, m)
  PROVE  CoreInv'
<1>1. /\ activeStreams' = [activeStreams EXCEPT ![c] = 0] /\ savedStreams' = activeStreams'
      /\ source' = [source EXCEPT ![c] = Closed]
      /\ streaming' = [streaming EXCEPT ![c] = NoState]
      /\ UNCHANGED <<chats, activeChat, made>>
      /\ UNCHANGED <<script, posts, sent, lost, pendingPosts, connected>>
      /\ SavedOK' /\ BusyOK' /\ c \in made /\ activeStreams[c] \in Turns
  BY Settled_
<1>2. /\ history' \in [Chats -> Seq(Message)] /\ lastDone' \in [Chats -> {0} \cup Turns]
      /\ \A d \in Chats : d # c => history'[d] = history[d]
  <2>1. CASE UNCHANGED <<history, lastDone>>
    BY <2>1 DEF CoreInv, ChatsOK
  <2>2. CASE lastDone' = [lastDone EXCEPT ![c] = activeStreams[c]]
             /\ history' = [history EXCEPT ![c] = Append(@, m)]
    BY <1>1, <2>2, AppendingTo DEF CoreInv, ChatsOK
  <2> QED
    BY <2>1, <2>2, Settled_
<1>3. ChatsOK'
  BY <1>1, <1>2 DEF CoreInv, ChatsOK
<1>4. StreamsOK'
  <2>1. NoState \in Streaming /\ Closed \in Source /\ Closed.state = "closed"
    BY DEF NoState, Streaming, Element, Closed, Source
  <2> QED
    BY <1>1, <2>1 DEF CoreInv, StreamsOK
<1>5. PostsOK'
  BY <1>1 DEF CoreInv, PostsOK
<1>6. MadeOK'
  BY <1>1, <1>2 DEF CoreInv, MadeOK, StreamsOK
<1> QED
  BY <1>1, <1>3, <1>4, <1>5, <1>6 DEF CoreInv

(* A new page has what the last one has saved.                               *)
LEMMA Booted ==
  ASSUME CoreInv, NEW to, NEW on, Booting(to, on)
  PROVE  /\ UNCHANGED <<chats, activeChat, lastDone, saved, made, script, sent>>
         /\ history' = [c \in Chats |-> IF c \in Listed(chats) THEN history[c] ELSE <<>>]
         /\ posts' = {} /\ pendingPosts' = {} /\ lost' = lost \cup {q.turn : q \in posts}
         /\ connected' = on /\ on \in BOOLEAN
         /\ to \in [Chats -> {0} \cup Turns] /\ activeStreams' = to
         /\ \A c \in Chats : to[c] # 0 => c \in Listed(chats) /\ to[c] = savedStreams[c]
         /\ to = Nowhere \/ \A c \in Listed(chats) : to[c] = savedStreams[c]
         /\ on => \A c \in Listed(chats) : to[c] = savedStreams[c]
         /\ IF to = Nowhere THEN savedStreams' = savedStreams ELSE savedStreams' = activeStreams'
         /\ source' = [c \in Chats |-> IF to[c] = 0 THEN Closed ELSE Opened]
         /\ streaming' = [c \in Chats |-> NoState]
         /\ RefreshBusy
<1>1. saved.chats = chats /\ saved.active = activeChat /\ saved.last = lastDone
      /\ saved.history = [c \in Chats |-> IF c \in Listed(chats) THEN history[c] ELSE <<>>]
  BY DEF CoreInv, SavedOK
<1>2. activeChat \in Listed(chats) /\ Listed(chats) \subseteq Chats
  BY DEF CoreInv, ChatsOK, MadeOK
<1>3. /\ chats' = chats /\ activeChat' = activeChat /\ history' = saved.history /\ lastDone' = saved.last
      /\ UNCHANGED <<saved, made, script, sent>>
      /\ posts' = {} /\ pendingPosts' = {} /\ lost' = lost \cup {q.turn : q \in posts}
      /\ connected' = on /\ activeStreams' = to
      /\ IF to = Nowhere THEN savedStreams' = savedStreams ELSE savedStreams' = activeStreams'
      /\ source' = [c \in Chats |-> IF to[c] = 0 THEN Closed ELSE Opened]
      /\ streaming' = [c \in Chats |-> NoState]
      /\ RefreshBusy
  BY <1>1, <1>2 DEF Booting, Boot, PersistActiveStreams
<1>4. /\ to \in [Chats -> {0} \cup Turns] /\ on \in BOOLEAN
      /\ \A c \in Chats : to[c] # 0 => c \in Listed(chats) /\ to[c] = savedStreams[c]
      /\ to = Nowhere \/ \A c \in Listed(chats) : to[c] = savedStreams[c]
      /\ on => \A c \in Listed(chats) : to[c] = savedStreams[c]
  <2>1. on \in BOOLEAN /\ to \in {Nowhere, Stored(chats)} /\ (on => to = Stored(chats))
    BY <1>1 DEF Booting
  <2>2. savedStreams \in [Chats -> {0} \cup Turns]
    BY DEF CoreInv, StreamsOK
  <2> QED
    BY <1>2, <2>1, <2>2, NobodyIsOK DEF Stored
<1> QED
  BY <1>1, <1>3, <1>4

LEMMA BootingCore ==
  ASSUME CoreInv, NEW to, NEW on, Booting(to, on)
  PROVE  CoreInv'
<1> DEFINE facts ==
      /\ UNCHANGED <<chats, activeChat, lastDone, saved, made, script, sent>>
      /\ history' = [c \in Chats |-> IF c \in Listed(chats) THEN history[c] ELSE <<>>]
      /\ posts' = {} /\ pendingPosts' = {} /\ lost' = lost \cup {q.turn : q \in posts}
      /\ connected' \in BOOLEAN
      /\ to \in [Chats -> {0} \cup Turns] /\ activeStreams' = to
      /\ \A c \in Chats : to[c] # 0 => c \in Listed(chats) /\ to[c] = savedStreams[c]
      /\ savedStreams' = savedStreams \/ savedStreams' = activeStreams'
      /\ source' = [c \in Chats |-> IF to[c] = 0 THEN Closed ELSE Opened]
      /\ streaming' = [c \in Chats |-> NoState]
<1>1. facts /\ BusyOK'
  BY Booted, SavedAndBusy
<1>2. SavedOK'
  BY <1>1 DEF CoreInv, SavedOK
<1>3. ChatsOK'
  <2>1. <<>> \in Seq(Message)
    OBVIOUS
  <2> QED
    BY <1>1, <2>1 DEF CoreInv, ChatsOK
<1>4. StreamsOK'
  <2>1. NoState \in Streaming /\ Closed \in Source /\ Closed.state = "closed"
        /\ Opened \in Source /\ Opened.state # "closed"
    BY DEF NoState, Streaming, Element, Opened, Closed, Source
  <2> QED
    BY <1>1, <2>1 DEF CoreInv, StreamsOK
<1>5. PostsOK'
  <2>1. lost' \subseteq Turns
    BY <1>1 DEF CoreInv, PostsOK, Post
  <2> QED
    BY <1>1, <2>1 DEF CoreInv, PostsOK
<1>6. MadeOK'
  BY <1>1 DEF CoreInv, MadeOK
<1> QED
  BY <1>1, <1>2, <1>3, <1>4, <1>5, <1>6 DEF CoreInv

LEMMA CoreStart == AssistantAssumption /\ Init => CoreInv
<1> SUFFICES ASSUME AssistantAssumption, Init PROVE CoreInv
  OBVIOUS
<1>1. First \in Chats /\ 0 \in 0..MaxTurns
  BY DEF AssistantAssumption
<1>2. Listed(chats) = {First} /\ chats \in Seq(Chats) /\ DOMAIN chats = {1}
  BY <1>1 DEF Init, Listed
<1>3. ChatsOK
  <2>1. <<>> \in Seq(Message)
    OBVIOUS
  <2> QED
    BY <1>1, <1>2, <2>1 DEF Init, ChatsOK, Nowhere
<1>4. StreamsOK
  BY DEF Init, StreamsOK, Nowhere, NoState, Streaming, Element, Closed, Source
<1>5. PostsOK
  BY <1>1 DEF Init, PostsOK
<1>6. MadeOK
  BY <1>1, <1>2 DEF Init, MadeOK, Nowhere
<1>7. SavedOK
  BY <1>1, <1>2 DEF Init, SavedOK
<1>8. BusyOK
  BY <1>1 DEF Init, BusyOK, Nowhere
<1> QED
  BY <1>3, <1>4, <1>5, <1>6, <1>7, <1>8 DEF CoreInv

-------------------------------------------------------------------------------
(* Usage: what a step has to leave as it is, or to see to.                   *)
Old(c, i) == i \in DOMAIN history[c] /\ history'[c][i] = history[c][i]

UsageStep ==
    /\ \A n \in Turns : Known(n) => script'[n] = script[n]
    /\ \A n \in Turns : n > sent' => script'[n] = <<>>
    /\ \A q \in posts' : /\ q.turn <= sent'
                         /\ q.at = "sent" => script'[q.turn] = <<>>
                         /\ q.at = "answered" => script'[q.turn] # <<>>
    /\ \A c \in Chats : lastDone'[c] <= sent'
    /\ \A c \in Chats : activeStreams'[c] # 0 =>
         Known(activeStreams'[c]) \/ \E q \in posts : q.at = "answered" /\ q.turn = activeStreams'[c]
    /\ \A c \in Chats : savedStreams'[c] \in {0, savedStreams[c], activeStreams'[c]}
    /\ \A c \in Chats : streaming'[c].tokens # 0 =>
         /\ activeStreams'[c] = activeStreams[c]
         /\ streaming'[c].tokens = streaming[c].tokens
            \/ (activeStreams[c] # 0 /\ Total(script[activeStreams[c]]) > 0)
    /\ \A c \in Chats : \A i \in DOMAIN history'[c] : history'[c][i].role = "assistant" =>
         \/ Old(c, i)
         \/ LET m == history'[c][i]
            IN m.turn \in Turns /\ Known(m.turn) /\ m.tokens = Total(script[m.turn])

LEMMA UsageKept ==
  ASSUME UsageInv, CoreInv', UsageStep
  PROVE  UsageInv'
<1>1. \A n \in Turns : Known(n) => Known(n)' /\ Total(script'[n]) = Total(script[n])
  BY DEF UsageStep, Known
<1>2. TurnsOK'
  BY DEF UsageStep, TurnsOK
<1>3. \A c \in Chats : activeStreams'[c] # 0 => Known(activeStreams'[c])
  BY DEF UsageStep, UsageInv, KnownFirst
<1>4. \A c \in Chats : /\ activeStreams[c] \in {0} \cup Turns /\ activeStreams'[c] \in {0} \cup Turns
                       /\ savedStreams[c] \in {0} \cup Turns /\ savedStreams'[c] \in {0} \cup Turns
  BY DEF UsageInv, CoreInv, StreamsOK
<1>5. \A c \in Chats : \A i \in DOMAIN history[c] : history[c][i] \in Message
  BY DEF UsageInv, CoreInv, ChatsOK
<1>6. KnownFirst'
  <2>1. \A q \in posts' : /\ q.at = "sent" => ~Known(q.turn)'
                          /\ q.at = "answered" => Known(q.turn)'
    BY DEF UsageStep, Known
  <2>2. \A n \in Turns : n > sent' => ~Known(n)'
    BY DEF UsageStep, Known
  <2>3. \A c \in Chats : activeStreams'[c] # 0 => script'[activeStreams'[c]] # <<>>
    <3> SUFFICES ASSUME NEW c \in Chats, activeStreams'[c] # 0
                 PROVE  script'[activeStreams'[c]] # <<>>
      OBVIOUS
    <3> QED
      BY <1>1, <1>3, <1>4 DEF Known
  <2>4. \A c \in Chats : savedStreams'[c] # 0 => script'[savedStreams'[c]] # <<>>
    <3> SUFFICES ASSUME NEW c \in Chats, savedStreams'[c] # 0
                 PROVE  script'[savedStreams'[c]] # <<>>
      OBVIOUS
    <3>1. savedStreams'[c] = savedStreams[c] \/ savedStreams'[c] = activeStreams'[c]
      BY DEF UsageStep
    <3> QED
      BY <1>1, <1>4, <2>3, <3>1 DEF Known, UsageInv, KnownFirst
  <2>5. ASSUME NEW c \in Chats, NEW i \in DOMAIN history'[c], history'[c][i].role = "assistant"
        PROVE  script'[history'[c][i].turn] # <<>>
    <3>1. CASE Old(c, i)
      <4>1. history[c][i].turn \in Turns
        BY <1>5, <3>1 DEF Old, Message
      <4>2. Known(history[c][i].turn)
        BY <2>5, <3>1 DEF Old, UsageInv, KnownFirst
      <4> QED
        BY <1>1, <3>1, <4>1, <4>2 DEF Old, Known
    <3>2. CASE history'[c][i].turn \in Turns /\ Known(history'[c][i].turn)
      BY <1>1, <3>2 DEF Known
    <3> QED
      BY <2>5, <3>1, <3>2 DEF UsageStep
  <2> QED
    BY <2>1, <2>2, <2>3, <2>4, <2>5 DEF KnownFirst, Known
<1>7. CountsWhatIsThere'
  <2> SUFFICES ASSUME NEW c \in Chats, streaming'[c].tokens # 0
               PROVE  activeStreams'[c] # 0 /\ Total(script'[activeStreams'[c]]) > 0
    BY DEF CountsWhatIsThere, Total
  <2>1. activeStreams'[c] = activeStreams[c]
        /\ activeStreams[c] # 0 /\ Total(script[activeStreams[c]]) > 0
    BY DEF UsageStep, UsageInv, CountsWhatIsThere
  <2>2. Known(activeStreams[c])
    BY <2>1 DEF UsageInv, KnownFirst
  <2> QED
    BY <1>1, <1>4, <2>1, <2>2
<1>8. UsageCountedOnce'
  <2>1. \A c \in Chats : DOMAIN history'[c] = 1..Len(history'[c]) /\ DOMAIN history[c] = 1..Len(history[c])
    BY DEF UsageInv, CoreInv, ChatsOK
  <2> SUFFICES ASSUME NEW c \in Chats, NEW i \in DOMAIN history'[c], history'[c][i].role = "assistant"
               PROVE  history'[c][i].tokens = Total(script'[history'[c][i].turn])
    BY <2>1 DEF UsageCountedOnce, Total
  <2>2. CASE Old(c, i)
    <3>1. history[c][i].turn \in Turns /\ i \in 1..Len(history[c])
      BY <1>5, <2>1, <2>2 DEF Old, Message
    <3>2. Known(history[c][i].turn) /\ history[c][i].tokens = Total(script[history[c][i].turn])
      BY <2>2, <3>1 DEF Old, UsageInv, KnownFirst, UsageCountedOnce
    <3> QED
      BY <1>1, <2>2, <3>1, <3>2 DEF Old
  <2>3. CASE LET m == history'[c][i]
             IN m.turn \in Turns /\ Known(m.turn) /\ m.tokens = Total(script[m.turn])
    BY <1>1, <2>3
  <2> QED
    BY <2>2, <2>3 DEF UsageStep
<1> QED
  BY <1>2, <1>6, <1>7, <1>8 DEF UsageInv

(* What the steps that change neither posts, messages nor scripts have to    *)
(* show of the streams.                                                      *)
LEMMA UsageOfStreams ==
  ASSUME UsageInv, UNCHANGED <<history, lastDone, script, sent>>, posts' \subseteq posts,
         \A c \in Chats : activeStreams'[c] # 0 =>
            Known(activeStreams'[c]) \/ \E q \in posts : q.at = "answered" /\ q.turn = activeStreams'[c],
         \A c \in Chats : savedStreams'[c] \in {0, savedStreams[c], activeStreams'[c]},
         \A c \in Chats : streaming'[c].tokens # 0 =>
            activeStreams'[c] = activeStreams[c]
            /\ (streaming'[c].tokens = streaming[c].tokens
                \/ (activeStreams[c] # 0 /\ Total(script[activeStreams[c]]) > 0))
  PROVE  UsageStep
<1>1. \A c \in Chats : \A i \in DOMAIN history'[c] : Old(c, i)
  BY DEF Old
<1>2. \A n \in Turns : n > sent => script[n] = <<>>
  BY DEF UsageInv, KnownFirst, Known
<1>3. \A q \in posts : /\ q.turn <= sent
                       /\ q.at = "sent" => script[q.turn] = <<>>
                       /\ q.at = "answered" => script[q.turn] # <<>>
  BY DEF UsageInv, TurnsOK, KnownFirst, Known
<1>4. \A c \in Chats : lastDone[c] <= sent
  BY DEF UsageInv, TurnsOK
<1> QED
  BY <1>1, <1>2, <1>3, <1>4 DEF UsageStep

(* The streams the page follows and remembers are of turns that are known.   *)
LEMMA StreamsAreKnown ==
  ASSUME UsageInv, NEW c \in Chats
  PROVE  /\ activeStreams[c] # 0 => Known(activeStreams[c]) /\ activeStreams[c] <= sent
         /\ savedStreams[c] # 0 => Known(savedStreams[c]) /\ savedStreams[c] <= sent
<1>1. \A n \in Turns : Known(n) => n <= sent
  BY DEF UsageInv, CoreInv, PostsOK, KnownFirst, Turns
<1>2. activeStreams[c] \in {0} \cup Turns /\ savedStreams[c] \in {0} \cup Turns
  BY DEF UsageInv, CoreInv, StreamsOK
<1> QED
  BY <1>1, <1>2 DEF UsageInv, KnownFirst

LEMMA QuietUsage == UsageInv /\ Quiet => UsageStep
<1> SUFFICES ASSUME UsageInv, Quiet PROVE UsageStep
  OBVIOUS
<1> QED
  BY StreamsAreKnown, UsageOfStreams DEF Quiet, chatVars

LEMMA ReconnectedUsage ==
  ASSUME UsageInv, NEW on \in BOOLEAN, Reconnected(on)
  PROVE  UsageStep
<1> DEFINE to == IF on THEN Stored(chats) ELSE Nowhere
<1>1. to \in [Chats -> {0} \cup Turns]
      /\ \A c \in Chats : to[c] # 0 => to[c] = savedStreams[c]
  BY NobodyIsOK DEF Stored, UsageInv, CoreInv, StreamsOK
<1>2. Attach(to, streaming) /\ streaming \in [Chats -> Streaming] /\ StreamsOK
      /\ UNCHANGED <<history, lastDone, script, sent, posts>>
  BY DEF Reconnected, UsageInv, CoreInv, StreamsOK, chatVars
<1> HIDE DEF to
<1>3. /\ \A c \in Chats : activeStreams'[c] = IF to[c] = 0 THEN activeStreams[c] ELSE to[c]
      /\ \A c \in Chats : streaming'[c] = IF to[c] = 0 THEN streaming[c] ELSE NoState
      /\ savedStreams' = savedStreams \/ savedStreams' = activeStreams'
  BY <1>1, <1>2, AttachIsOK
<1>4. NoState.tokens = 0
  BY DEF NoState
<1> QED
  BY <1>1, <1>2, <1>3, <1>4, StreamsAreKnown, UsageOfStreams

LEMMA SelectUsage ==
  ASSUME UsageInv, NEW c \in Chats, SelectChat(c)
  PROVE  UsageStep
<1> DEFINE to == Only(c, activeStreams[c])
<1>1. to \in [Chats -> {0} \cup Turns] /\ \A d \in Chats : to[d] \in {0, activeStreams[d]}
  <2> DEFINE n == activeStreams[c]
  <2>1. n \in {0} \cup Turns
    BY DEF UsageInv, CoreInv, StreamsOK
  <2> HIDE DEF n
  <2>2. Only(c, n) \in [Chats -> {0} \cup Turns] /\ Only(c, n)[c] = n
        /\ \A d \in Chats : d # c => Only(c, n)[d] = 0
    BY <2>1, NobodyIsOK
  <2> QED
    BY <2>2 DEF n
<1>2. Attach(to, Detached) /\ Detached \in [Chats -> Streaming] /\ StreamsOK
      /\ UNCHANGED <<history, lastDone, script, sent, posts>>
      /\ \A d \in Chats : Detached[d].tokens = streaming[d].tokens
  BY DetachedIsStreaming DEF SelectChat, UsageInv, CoreInv, StreamsOK, serverVars, askVars
<1> HIDE DEF to
<1>3. /\ \A d \in Chats : activeStreams'[d] = activeStreams[d]
      /\ \A d \in Chats : streaming'[d] = IF to[d] = 0 THEN Detached[d] ELSE NoState
      /\ savedStreams' = savedStreams \/ savedStreams' = activeStreams'
  BY <1>1, <1>2, AttachIsOK
<1>4. NoState.tokens = 0
  BY DEF NoState
<1> QED
  BY <1>1, <1>2, <1>3, <1>4, StreamsAreKnown, UsageOfStreams

LEMMA PostAnsweredUsage ==
  ASSUME UsageInv, NEW q \in posts, PostAnswered(q)
  PROVE  UsageStep
<1> DEFINE c == q.chat
           n == q.turn
           to == Only(c, n)
<1>1. c \in Chats /\ n \in {0} \cup Turns /\ q.at = "answered"
  BY DEF UsageInv, CoreInv, PostsOK, Post, PostAnswered
<1>2. to \in [Chats -> {0} \cup Turns] /\ to[c] = n /\ \A d \in Chats : d # c => to[d] = 0
  <2> HIDE DEF c, n
  <2> QED
    BY <1>1, NobodyIsOK
<1>3. Attach(to, streaming) /\ streaming \in [Chats -> Streaming] /\ StreamsOK
      /\ UNCHANGED <<history, lastDone, script, sent>> /\ posts' = posts \ {q}
  BY DEF PostAnswered, UsageInv, CoreInv, StreamsOK, chatVars, serverVars
<1> HIDE DEF to
<1>4. /\ \A d \in Chats : activeStreams'[d] = IF to[d] = 0 THEN activeStreams[d] ELSE to[d]
      /\ \A d \in Chats : streaming'[d] = IF to[d] = 0 THEN streaming[d] ELSE NoState
      /\ savedStreams' = savedStreams \/ savedStreams' = activeStreams'
  BY <1>2, <1>3, AttachIsOK
<1>5. NoState.tokens = 0
  BY DEF NoState
<1>6. \A d \in Chats : activeStreams'[d] # 0 =>
         Known(activeStreams'[d]) \/ \E r \in posts : r.at = "answered" /\ r.turn = activeStreams'[d]
  BY <1>1, <1>2, <1>4, StreamsAreKnown
<1> QED
  BY <1>2, <1>3, <1>4, <1>5, <1>6, UsageOfStreams

LEMMA NewChatUsage == UsageInv /\ NewChat => UsageStep
<1> SUFFICES ASSUME UsageInv, NewChat PROVE UsageStep
  OBVIOUS
<1>1. UNCHANGED <<history, lastDone, activeStreams, savedStreams, script, posts, sent>>
      /\ streaming' = Detached
  BY DEF NewChat, serverVars, askVars
<1>2. \A c \in Chats : Detached[c].tokens = streaming[c].tokens
  BY DetachedIsStreaming DEF UsageInv, CoreInv, StreamsOK
<1> QED
  BY <1>1, <1>2, StreamsAreKnown, UsageOfStreams

LEMMA DeleteUsage ==
  ASSUME UsageInv, NEW c \in Chats, DeleteChat(c)
  PROVE  UsageStep
<1>1. /\ UNCHANGED <<history, lastDone, script, posts, sent>>
      /\ activeStreams' = [activeStreams EXCEPT ![c] = 0]
      /\ streaming' = [Detached EXCEPT ![c] = NoState]
      /\ savedStreams' = savedStreams \/ savedStreams' = activeStreams'
  BY DEF DeleteChat, PersistActiveStreams, serverVars, askVars
<1>2. Detached \in [Chats -> Streaming] /\ \A d \in Chats : Detached[d].tokens = streaming[d].tokens
  BY DetachedIsStreaming DEF UsageInv, CoreInv, StreamsOK
<1>3. NoState.tokens = 0 /\ activeStreams \in [Chats -> {0} \cup Turns]
  BY DEF NoState, UsageInv, CoreInv, StreamsOK
<1>4. /\ \A d \in Chats : activeStreams'[d] = IF d = c THEN 0 ELSE activeStreams[d]
      /\ \A d \in Chats : streaming'[d] = IF d = c THEN NoState ELSE Detached[d]
  BY <1>1, <1>2, <1>3
<1> QED
  BY <1>1, <1>2, <1>3, <1>4, StreamsAreKnown, UsageOfStreams

LEMMA MarkingUsage ==
  ASSUME AssistantAssumption, UsageInv, NEW q \in posts, NEW w \in {"answered", "failed"}, Marking(q, w)
  PROVE  UsageStep
<1>1. UNCHANGED <<history, lastDone, sent, activeStreams, savedStreams, streaming>> /\ At(q, w)
  BY DEF Marking, chatVars, streamVars
<1>2. PostsOK /\ q \in Post /\ q.turn \in Turns
  BY DEF UsageInv, CoreInv, PostsOK, Post
<1>3. CASE w = "failed"
  <2>1. script' = script
    BY <1>3 DEF Marking
  <2>2. \A r \in posts' : /\ r.turn <= sent
                          /\ r.at = "sent" => ~Known(r.turn)
                          /\ r.at = "answered" => Known(r.turn)
    <3> TAKE r \in posts'
    <3>1. PICK s \in posts : s.turn = r.turn /\ ((r = s /\ s # q) \/ (s = q /\ r.at = w))
      BY <1>1, <1>2, MarkedPosts
    <3> QED
      BY <1>3, <3>1 DEF UsageInv, TurnsOK, KnownFirst
  <2> QED
    BY <1>1, <2>1, <2>2, StreamsAreKnown DEF UsageStep, UsageInv, TurnsOK, KnownFirst, Known, Old
<1>4. CASE w = "answered"
  <2>1. PICK s \in Scripts : script' = [script EXCEPT ![q.turn] = s]
    BY <1>4 DEF Marking
  <2>2. s # <<>> /\ ~Known(q.turn) /\ q.turn <= sent /\ script'[q.turn] = s
    BY <1>2, <1>4, <2>1 DEF AssistantAssumption, IsScript, Marking, UsageInv, KnownFirst, TurnsOK, PostsOK
  <2>3. \A n \in Turns : n # q.turn => script'[n] = script[n]
    BY <2>1 DEF UsageInv, CoreInv, PostsOK
  <2>4. \A r \in posts' : /\ r.turn <= sent
                          /\ r.at = "sent" => script'[r.turn] = <<>>
                          /\ r.at = "answered" => script'[r.turn] # <<>>
    <3> TAKE r \in posts'
    <3>1. PICK p \in posts : p.turn = r.turn /\ ((r = p /\ p # q) \/ (p = q /\ r.at = w))
      BY <1>1, <1>2, MarkedPosts
    <3>2. CASE p = q
      BY <1>4, <2>2, <3>1, <3>2
    <3>3. CASE p # q
      <4>1. p.turn # q.turn /\ p.turn \in Turns
        BY <1>2, <3>3 DEF PostsOK, Post
      <4> QED
        BY <2>3, <3>1, <3>3, <4>1 DEF UsageInv, TurnsOK, KnownFirst, Known
    <3> QED
      BY <3>2, <3>3
  <2>5. \A n \in Turns : n > sent => script'[n] = <<>>
    <3> SUFFICES ASSUME NEW n \in Turns, n > sent PROVE script'[n] = <<>>
      OBVIOUS
    <3>1. n # q.turn
      BY <1>2, <2>2 DEF Turns, UsageInv, CoreInv, PostsOK
    <3> QED
      BY <2>3, <3>1 DEF UsageInv, KnownFirst, Known
  <2>6. \A n \in Turns : Known(n) => script'[n] = script[n]
    BY <2>2, <2>3
  <2> QED
    BY <1>1, <2>4, <2>5, <2>6, StreamsAreKnown DEF UsageStep, UsageInv, TurnsOK, Old
<1> QED
  BY <1>3, <1>4

LEMMA SettlingUsage ==
  ASSUME UsageInv, NEW c \in Chats, NEW m \in Message, Settling(c, m)
  PROVE  UsageStep
<1> USE DEF UsageInv
<1>1. CoreInv /\ ChatsOK /\ StreamsOK
  BY DEF CoreInv
<1>2. /\ activeStreams[c] \in Turns
      /\ activeStreams' = [activeStreams EXCEPT ![c] = 0] /\ savedStreams' = activeStreams'
      /\ streaming' = [streaming EXCEPT ![c] = NoState]
      /\ UNCHANGED <<script, posts, sent>>
  BY <1>1, Settled_
<1>3. Known(activeStreams[c]) /\ activeStreams[c] <= sent
  BY <1>2, StreamsAreKnown DEF Turns
<1>4. NoState.tokens = 0
  BY DEF NoState
<1>5. /\ \A d \in Chats : activeStreams'[d] = IF d = c THEN 0 ELSE activeStreams[d]
      /\ \A d \in Chats : streaming'[d] = IF d = c THEN NoState ELSE streaming[d]
  BY <1>1, <1>2 DEF StreamsOK
<1>6. m.turn = activeStreams[c] /\ (m.role = "assistant" => m.tokens = Total(script[m.turn]))
  BY DEF Settling
<1>7. /\ \A d \in Chats : lastDone'[d] <= sent
      /\ \A d \in Chats : \A i \in DOMAIN history'[d] :
            Old(d, i) \/ (d = c /\ history'[d][i] = m)
  <2>1. CASE UNCHANGED <<history, lastDone>>
    BY <2>1 DEF TurnsOK, Old
  <2>2. CASE lastDone' = [lastDone EXCEPT ![c] = activeStreams[c]]
             /\ history' = [history EXCEPT ![c] = Append(@, m)]
    <3>1. \A d \in Chats : lastDone'[d] = IF d = c THEN activeStreams[c] ELSE lastDone[d]
      BY <1>1, <2>2 DEF ChatsOK
    <3>2. /\ \A d \in Chats : d # c => history'[d] = history[d]
          /\ history'[c] = Append(history[c], m) /\ history[c] \in Seq(Message)
      BY <1>1, <2>2, AppendingTo
    <3>3. \A i \in DOMAIN history'[c] : Old(c, i) \/ history'[c][i] = m
      BY <3>2 DEF Old
    <3> QED
      BY <1>3, <3>1, <3>2, <3>3 DEF TurnsOK, Old
  <2> QED
    BY <1>1, <2>1, <2>2, Settled_
<1>8. \A n \in Turns : n > sent => script[n] = <<>>
  BY DEF KnownFirst, Known
<1>9. \A q \in posts : /\ q.turn <= sent
                       /\ q.at = "sent" => script[q.turn] = <<>>
                       /\ q.at = "answered" => script[q.turn] # <<>>
  BY DEF TurnsOK, KnownFirst, Known
<1> QED
  BY <1>2, <1>3, <1>4, <1>5, <1>6, <1>7, <1>8, <1>9, StreamsAreKnown DEF UsageStep

LEMMA PostFailedUsage ==
  ASSUME UsageInv, NEW q \in posts, PostFailed(q)
  PROVE  UsageStep
<1> DEFINE m == Failure(q.turn)
<1>1. q.chat \in Chats /\ q.turn \in Turns
  BY DEF UsageInv, CoreInv, PostsOK, Post
<1>2. UNCHANGED <<lastDone, activeStreams, savedStreams, streaming, script, sent>>
      /\ posts' = posts \ {q}
      /\ history' = [history EXCEPT ![q.chat] = Append(@, m)]
  BY DEF PostFailed, serverVars, streamVars
<1>3. m \in Message /\ m.role = "error"
  BY <1>1 DEF Failure, Message
<1> HIDE DEF m
<1>4. /\ \A d \in Chats : d # q.chat => history'[d] = history[d]
      /\ history'[q.chat] = Append(history[q.chat], m) /\ history[q.chat] \in Seq(Message)
  BY <1>1, <1>2, <1>3, AppendingTo DEF UsageInv, CoreInv
<1>5. \A d \in Chats : \A i \in DOMAIN history'[d] : Old(d, i) \/ history'[d][i] = m
  <2> DEFINE c == q.chat
  <2> HIDE DEF c
  <2>1. /\ \A d \in Chats : d # c => history'[d] = history[d]
        /\ history'[c] = Append(history[c], m) /\ history[c] \in Seq(Message)
    BY <1>4 DEF c
  <2>2. \A i \in DOMAIN history'[c] : Old(c, i) \/ history'[c][i] = m
    BY <2>1 DEF Old
  <2> QED
    BY <2>1, <2>2 DEF Old
<1> QED
  BY <1>2, <1>3, <1>5, StreamsAreKnown DEF UsageStep, UsageInv, TurnsOK, KnownFirst, Known

LEMMA SendUsage ==
  ASSUME AssistantAssumption, UsageInv, SendMessage
  PROVE  UsageStep
<1> DEFINE n == sent + 1
           q == [chat |-> activeChat, turn |-> n, at |-> "sent"]
<1>1. /\ sent < MaxTurns /\ sent' = n
      /\ history' = [history EXCEPT ![activeChat] = Append(@, User(n))]
      /\ posts' = posts \cup {q}
      /\ UNCHANGED <<lastDone, streamVars, script>>
  BY DEF SendMessage, serverVars
<1>2. n \in Turns /\ sent \in Nat /\ activeChat \in Chats
  BY <1>1 DEF UsageInv, CoreInv, PostsOK, ChatsOK, MadeOK, Turns, AssistantAssumption
<1>3. User(n) \in Message /\ User(n).role = "user"
  BY <1>2 DEF User, Message
<1>4. /\ \A d \in Chats : d # activeChat => history'[d] = history[d]
      /\ history'[activeChat] = Append(history[activeChat], User(n))
      /\ history[activeChat] \in Seq(Message)
  BY <1>1, <1>2, <1>3, AppendingTo DEF UsageInv, CoreInv
<1>5. \A d \in Chats : \A i \in DOMAIN history'[d] : Old(d, i) \/ history'[d][i] = User(n)
  BY <1>4 DEF Old
<1>6. q.turn = n /\ q.at = "sent" /\ script[n] = <<>>
  BY <1>2 DEF UsageInv, KnownFirst, Known
<1>7. \A r \in posts : r.turn <= sent /\ r.turn \in Nat
  BY DEF UsageInv, TurnsOK, CoreInv, PostsOK, Post, Turns
<1>8. \A d \in Chats : lastDone[d] <= sent /\ lastDone[d] \in Nat
  BY DEF UsageInv, TurnsOK, CoreInv, ChatsOK, Turns
<1>9. \A r \in posts' : /\ r.turn <= sent'
                        /\ r.at = "sent" => script'[r.turn] = <<>>
                        /\ r.at = "answered" => script'[r.turn] # <<>>
  <2> HIDE DEF q
  <2> QED
    BY <1>1, <1>2, <1>6, <1>7 DEF UsageInv, KnownFirst, Known
<1>10. \A d \in Chats : lastDone'[d] <= sent'
  BY <1>1, <1>2, <1>8
<1>11. \A t \in Turns : t > sent' => script'[t] = <<>>
  BY <1>1, <1>2 DEF UsageInv, KnownFirst, Known, Turns
<1> QED
  BY <1>1, <1>3, <1>5, <1>9, <1>10, <1>11, StreamsAreKnown DEF UsageStep, streamVars

LEMMA BootingUsage ==
  ASSUME UsageInv, NEW to, NEW on, Booting(to, on)
  PROVE  UsageStep
<1>1. CoreInv
  BY DEF UsageInv
<1>2. /\ UNCHANGED <<lastDone, script, sent>> /\ posts' = {} /\ activeStreams' = to
      /\ history' = [c \in Chats |-> IF c \in Listed(chats) THEN history[c] ELSE <<>>]
      /\ \A c \in Chats : to[c] # 0 => to[c] = savedStreams[c]
      /\ savedStreams' = savedStreams \/ savedStreams' = activeStreams'
      /\ streaming' = [c \in Chats |-> NoState]
  BY <1>1, Booted
<1>3. \A c \in Chats : \A i \in DOMAIN history'[c] : Old(c, i)
  BY <1>2 DEF Old
<1>4. \A c \in Chats : streaming'[c].tokens = 0
  BY <1>2 DEF NoState
<1> QED
  BY <1>2, <1>3, <1>4, StreamsAreKnown DEF UsageStep, UsageInv, TurnsOK, KnownFirst, Known

LEMMA UsageStart == Init => UsageInv
<1> SUFFICES ASSUME Init PROVE UsageInv
  OBVIOUS
<1>1. CoreInv
  BY AssistantAssumption, CoreStart
<1>2. TurnsOK /\ KnownFirst /\ CountsWhatIsThere
  BY DEF Init, Nowhere, NoState, TurnsOK, KnownFirst, Known, CountsWhatIsThere
<1>3. UsageCountedOnce
  BY DEF Init, UsageCountedOnce
<1> QED
  BY <1>1, <1>2, <1>3 DEF UsageInv

LEMMA CoreAndUsage ==
  ASSUME UsageInv, Steps
  PROVE  CoreInv' /\ UsageStep
<1>1. CoreInv /\ TurnsOK /\ AssistantAssumption
  BY AssistantAssumption DEF UsageInv
<1>2. CASE Quiet
  BY <1>1, <1>2, QuietCore, QuietUsage
<1>3. CASE NewChat
  BY <1>1, <1>3, NewChatCore, NewChatUsage
<1>4. CASE SendMessage
  BY <1>1, <1>4, SendCore, SendUsage
<1>5. CASE \E c \in Chats : SelectChat(c)
  BY <1>1, <1>5, SelectCore, SelectUsage
<1>6. CASE \E c \in Chats : DeleteChat(c)
  BY <1>1, <1>6, DeleteCore, DeleteUsage
<1>7. CASE \E q \in posts : PostAnswered(q)
  BY <1>1, <1>7, PostAnsweredCore, PostAnsweredUsage
<1>8. CASE \E q \in posts : PostFailed(q)
  BY <1>1, <1>8, PostFailedCore, PostFailedUsage
<1>9. CASE \E q \in posts, w \in {"answered", "failed"} : Marking(q, w)
  BY <1>1, <1>9, MarkingCore, MarkingUsage
<1>10. CASE \E c \in Chats, m \in Message : Settling(c, m)
  BY <1>1, <1>10, SettlingCore, SettlingUsage
<1>11. CASE \E on \in BOOLEAN : Reconnected(on)
  BY <1>1, <1>11, ReconnectedCore, ReconnectedUsage
<1>12. CASE \E to \in [Chats -> {0} \cup Turns], on \in BOOLEAN : Booting(to, on)
  BY <1>1, <1>12, BootingCore, BootingUsage
<1> QED
  BY <1>2, <1>3, <1>4, <1>5, <1>6, <1>7, <1>8, <1>9, <1>10, <1>11, <1>12 DEF Steps

LEMMA EveryStep ==
  ASSUME UsageInv, [Next]_vars
  PROVE  Steps
<1>1. CoreInv /\ CountsWhatIsThere
  BY DEF UsageInv
<1>2. CASE Next
  BY <1>1, <1>2, AssistantAssumption, StepKinds
<1>3. CASE UNCHANGED vars
  BY <1>1, <1>3, StutterIsQuiet DEF Steps
<1> QED
  BY <1>2, <1>3

LEMMA UsageInvariance == Spec => []UsageInv
<1>1. Init => UsageInv
  BY UsageStart
<1>2. UsageInv /\ [Next]_vars => UsageInv'
  BY EveryStep, CoreAndUsage, UsageKept
<1> QED
  BY <1>1, <1>2, PTL DEF Spec

(* An answer costs what the server says, whatever was replayed, dropped or   *)
(* begun again (assistant.js:1006, 1042).                                    *)
THEOREM AnswersCostWhatTheyCost == Spec => []UsageCountedOnce
<1>1. UsageInv => UsageCountedOnce
  BY DEF UsageInv
<1> QED
  BY <1>1, UsageInvariance, PTL

-------------------------------------------------------------------------------
LEMMA NewChatIsListed ==
  ASSUME CoreInv, NewChat
  PROVE  Fresh \in Chats \ made /\ Listed(chats') = Listed(chats) \cup {Fresh}
<1>1. Fresh \in Chats \ made /\ Fresh \notin Listed(chats) /\ chats' = <<Fresh>> \o chats
  BY FreshIsNew DEF NewChat, CoreInv, MadeOK
<1>2. chats \in Seq(Chats) /\ \A j, k \in DOMAIN chats : chats[j] = chats[k] => j = k
  BY DEF CoreInv, ChatsOK
<1>3. Listed(<<Fresh>> \o chats) = Listed(chats) \cup {Fresh}
  BY <1>1, <1>2, AddingFirst
<1> QED
  BY <1>1, <1>3

(* The streams that localStorage has.                                        *)
LEMMA MemoryStep ==
  ASSUME UsageInv, MemoryInv, Steps
  PROVE  MemoryInv'
<1>1. CoreInv /\ CoreInv' /\ Listed(chats) \subseteq Chats /\ Listed(chats') \subseteq Chats
  <2>1. CoreInv' /\ CoreInv
    BY CoreAndUsage DEF MemoryInv
  <2> QED
    BY <2>1 DEF CoreInv, MadeOK
<1>2. ASSUME savedStreams' = activeStreams' PROVE MemoryInv'
  BY <1>1, <1>2 DEF Together, StreamsRemembered, MemoryInv
<1>3. ASSUME UNCHANGED <<savedStreams, activeStreams, connected>>, posts = {} => posts' = {} \/ connected,
             \A c \in Listed(chats') : c \in Listed(chats) \/ c \notin made
      PROVE  MemoryInv'
  <2>1. \A c \in Chats \ made : savedStreams[c] = 0 /\ activeStreams[c] = 0
    BY <1>1 DEF CoreInv, MadeOK
  <2>2. StreamsRemembered'
    BY <1>1, <1>3, <2>1 DEF MemoryInv, StreamsRemembered
  <2>3. CASE Together
    <3>1. Together'
      BY <1>1, <1>3, <2>1, <2>3 DEF Together
    <3> QED
      BY <1>1, <2>2, <3>1 DEF MemoryInv
  <2>4. CASE Idle
    <3>1. Idle'
      BY <1>3, <2>4 DEF Idle
    <3> QED
      BY <1>1, <2>2, <3>1 DEF MemoryInv
  <2> QED
    BY <2>3, <2>4 DEF MemoryInv
<1>4. CASE Quiet
  BY <1>3, <1>4 DEF Quiet, chatVars
<1>5. CASE NewChat
  <2>1. Fresh \in Chats \ made /\ Listed(chats') = Listed(chats) \cup {Fresh}
    BY <1>1, <1>5, NewChatIsListed
  <2>2. UNCHANGED <<savedStreams, activeStreams, connected, posts>>
    BY <1>5 DEF NewChat, askVars
  <2> QED
    BY <1>3, <2>1, <2>2
<1>6. CASE SendMessage
  <2>1. UNCHANGED <<savedStreams, activeStreams, connected, chats>> /\ connected
    BY <1>6 DEF SendMessage, streamVars
  <2> QED
    BY <1>3, <2>1
<1>7. ASSUME NEW c \in Chats, SelectChat(c) PROVE MemoryInv'
  <2> DEFINE to == Only(c, activeStreams[c])
  <2>1. CASE activeStreams[c] = 0
    <3>1. to = Nowhere
      BY <2>1 DEF Only, Nowhere
    <3>2. UNCHANGED <<savedStreams, activeStreams, connected, chats, posts>>
      <4>1. Attach(Nowhere, Detached) /\ UNCHANGED <<connected, chats, posts>>
        BY <1>7, <3>1 DEF SelectChat, askVars
      <4> QED
        BY <1>1, <4>1, NobodyIsOK DEF Attach, CoreInv, StreamsOK
    <3> QED
      BY <1>3, <3>2
  <2>2. CASE activeStreams[c] # 0
    <3>1. Attach(to, Detached)
      BY <1>7 DEF SelectChat
    <3>2. to[c] # 0
      BY <2>2 DEF Only, Nowhere
    <3> HIDE DEF to
    <3>3. savedStreams' = activeStreams'
      BY <3>1, <3>2 DEF Attach, PersistActiveStreams
    <3> QED
      BY <1>2, <3>3
  <2> QED
    BY <2>1, <2>2
<1>8. ASSUME NEW c \in Chats, DeleteChat(c) PROVE MemoryInv'
  <2>1. CASE activeStreams[c] # 0
    <3>1. savedStreams' = activeStreams'
      BY <1>8, <2>1 DEF DeleteChat, PersistActiveStreams
    <3> QED
      BY <1>2, <3>1
  <2>2. CASE activeStreams[c] = 0
    <3>1. UNCHANGED <<savedStreams, activeStreams, connected, posts>>
      BY <1>1, <1>8, <2>2 DEF DeleteChat, askVars, CoreInv, StreamsOK
    <3> QED
      BY <1>1, <1>3, <1>8, <3>1, Deleting
  <2> QED
    BY <2>1, <2>2
<1>9. ASSUME NEW q \in posts, PostAnswered(q) PROVE MemoryInv'
  <2>1. q.chat \in Chats /\ q.turn # 0
    BY <1>1 DEF CoreInv, PostsOK, Post, Turns
  <2>2. Attach(Only(q.chat, q.turn), streaming) /\ Only(q.chat, q.turn)[q.chat] # 0
    BY <1>9, <2>1 DEF PostAnswered, Only, Nowhere
  <2>3. savedStreams' = activeStreams'
    BY <2>1, <2>2 DEF Attach, PersistActiveStreams
  <2> QED
    BY <1>2, <2>3
<1>10. ASSUME NEW q \in posts, PostFailed(q) PROVE MemoryInv'
  <2>1. UNCHANGED <<savedStreams, activeStreams, connected, chats>> /\ posts # {}
    BY <1>10 DEF PostFailed, streamVars
  <2> QED
    BY <1>3, <2>1
<1>11. ASSUME NEW q \in posts, NEW w \in {"answered", "failed"}, Marking(q, w) PROVE MemoryInv'
  <2>1. UNCHANGED <<savedStreams, activeStreams, connected, chats>> /\ posts # {}
    BY <1>11 DEF Marking, streamVars, chatVars
  <2> QED
    BY <1>3, <2>1
<1>12. ASSUME NEW c \in Chats, NEW m \in Message, Settling(c, m) PROVE MemoryInv'
  BY <1>1, <1>2, <1>12, Settled_
<1>13. ASSUME NEW on \in BOOLEAN, Reconnected(on) PROVE MemoryInv'
  <2> DEFINE to == IF on THEN Stored(chats) ELSE Nowhere
  <2>1. to \in [Chats -> {0} \cup Turns] /\ StreamsOK /\ streaming \in [Chats -> Streaming]
    BY <1>1, NobodyIsOK DEF Stored, CoreInv, StreamsOK
  <2>2. Attach(to, streaming) /\ UNCHANGED <<chats, posts>> /\ connected' = on
    BY <1>13 DEF Reconnected, chatVars
  <2>3. on => \A c \in Listed(chats) : to[c] = savedStreams[c]
    BY <1>1 DEF Stored
  <2> HIDE DEF to
  <2>4. /\ \A c \in Chats : activeStreams'[c] = IF to[c] = 0 THEN activeStreams[c] ELSE to[c]
        /\ IF to = Nowhere THEN savedStreams' = savedStreams ELSE savedStreams' = activeStreams'
    BY <2>1, <2>2, AttachIsOK
  <2>5. CASE to # Nowhere
    BY <1>2, <2>4, <2>5
  <2>6. CASE to = Nowhere
    <3>1. savedStreams' = savedStreams /\ \A c \in Chats : activeStreams'[c] = activeStreams[c]
      BY <2>4, <2>6, NobodyIsOK
    <3>2. activeStreams' = activeStreams
      BY <1>1, <3>1 DEF CoreInv, StreamsOK
    <3>3. on => Together
      BY <1>1, <2>3, <2>6, NobodyIsOK DEF Together, MemoryInv, StreamsRemembered
    <3>4. on => Together' /\ StreamsRemembered'
      BY <2>2, <3>1, <3>2, <3>3 DEF Together, StreamsRemembered
    <3>5. ~on => StreamsRemembered' /\ (Together' \/ Idle')
      BY <2>2, <3>1, <3>2 DEF MemoryInv, Together, Idle, StreamsRemembered
    <3> QED
      BY <1>1, <3>4, <3>5 DEF MemoryInv
  <2> QED
    BY <2>5, <2>6
<1>14. ASSUME NEW to, NEW on, Booting(to, on) PROVE MemoryInv'
  <2>1. /\ UNCHANGED chats /\ posts' = {} /\ connected' = on /\ on \in BOOLEAN /\ activeStreams' = to
        /\ on => \A c \in Listed(chats) : to[c] = savedStreams[c]
        /\ to = Nowhere \/ \A c \in Listed(chats) : to[c] = savedStreams[c]
        /\ IF to = Nowhere THEN savedStreams' = savedStreams ELSE savedStreams' = activeStreams'
    BY <1>1, <1>14, Booted
  <2>2. CASE to # Nowhere
    BY <1>2, <2>1, <2>2
  <2>3. CASE to = Nowhere
    <3>1. StreamsRemembered'
      BY <1>1, <2>1, <2>3, NobodyIsOK DEF StreamsRemembered
    <3>2. on => Together'
      BY <2>1, <2>3 DEF Together
    <3>3. ~on => Idle'
      BY <2>1, <2>3 DEF Idle, Nowhere
    <3> QED
      BY <1>1, <2>1, <3>1, <3>2, <3>3 DEF MemoryInv
  <2> QED
    BY <2>2, <2>3
<1> QED
  BY <1>4, <1>5, <1>6, <1>7, <1>8, <1>9, <1>10, <1>11, <1>12, <1>13, <1>14 DEF Steps

LEMMA MemoryInvariance == Spec => []MemoryInv
<1>1. Init => MemoryInv
  <2>1. Init => CoreInv
    BY AssistantAssumption, CoreStart
  <2>2. Init => StreamsRemembered /\ Together
    BY DEF Init, StreamsRemembered, Together, Nowhere
  <2> QED
    BY <2>1, <2>2 DEF MemoryInv
<1>2. UsageInv /\ MemoryInv /\ [Next]_vars => MemoryInv'
  BY EveryStep, MemoryStep
<1> QED
  BY <1>1, <1>2, UsageInvariance, PTL DEF Spec

(* A page that is connected follows exactly the streams that localStorage    *)
(* has for its chats, and one that is not follows none that it has not       *)
(* (assistant.js:914, 1106).                                                 *)
THEOREM StreamsAreRemembered == Spec => []StreamsRemembered
<1>1. MemoryInv => StreamsRemembered
  BY DEF MemoryInv
<1> QED
  BY <1>1, MemoryInvariance, PTL

-------------------------------------------------------------------------------
(* Alternation.  A step that leaves the messages of the listed chats and what *)
(* is in flight for them as they were.                                       *)
LEMMA NothingBegins ==
  ASSUME AlternationInv, MemoryInv', TurnsOK',
         \A c \in Listed(chats') : c \in Listed(chats) \/ history'[c] = <<>>,
         \A c \in Listed(chats') \cap Listed(chats) :
            history'[c] = history[c] /\ lastDone'[c] = lastDone[c],
         lost \subseteq lost',
         \A c \in Listed(chats') \ Listed(chats), n \in Turns :
            ~InPost(c, n)' /\ activeStreams'[c] = 0 /\ savedStreams'[c] = 0,
         \A c \in Listed(chats') \cap Listed(chats), n \in Turns :
            /\ InPost(c, n)' => InPost(c, n) /\ activeStreams'[c] = 0 /\ savedStreams'[c] = 0
            /\ savedStreams'[c] = n => InPost(c, n) \/ savedStreams[c] = n
            /\ InPost(c, n) => n \in lost' \/ InPost(c, n)' \/ savedStreams'[c] = n
            /\ savedStreams[c] = n => savedStreams'[c] = n
  PROVE  AlternationInv'
<1>1. OneInFlight'
  BY DEF OneInFlight
<1>2. \A c \in Listed(chats') \cap Listed(chats), n \in Turns : Waiting(c, n)' <=> Waiting(c, n)
  BY DEF Waiting
<1>3. InFlightWaits'
  <2> SUFFICES ASSUME NEW c \in Listed(chats'), NEW n \in Turns, InPost(c, n)' \/ savedStreams'[c] = n
               PROVE  Waiting(c, n)' /\ lastDone'[c] # n
    BY DEF InFlightWaits, InPost
  <2>1. c \in Listed(chats)
    BY DEF Turns
  <2>2. InPost(c, n) \/ savedStreams[c] = n
    BY <2>1
  <2> QED
    BY <1>2, <2>1, <2>2 DEF AlternationInv, InFlightWaits
<1>4. WaitsForSomething'
  <2> SUFFICES ASSUME NEW c \in Listed(chats'), NEW n \in Turns, Waiting(c, n)'
               PROVE  n \in lost' \/ InPost(c, n)' \/ savedStreams'[c] = n
    BY DEF WaitsForSomething, InPost, Waiting
  <2>1. c \in Listed(chats)
    BY DEF Waiting
  <2>2. n \in lost \/ InPost(c, n) \/ savedStreams[c] = n
    BY <1>2, <2>1 DEF AlternationInv, WaitsForSomething
  <2> QED
    BY <2>1, <2>2
<1>5. TurnsAlternate'
  <2> SUFFICES ASSUME NEW c \in Listed(chats'), NEW i \in 1..Len(history'[c])
               PROVE  LET h == history'[c] IN
                      IF h[i].role = "user"
                      THEN i > 1 /\ h[i - 1].role = "user" => h[i - 1].turn \in lost'
                      ELSE OwnQuestion(h, i)
    BY DEF TurnsAlternate, OwnQuestion
  <2>1. c \in Listed(chats) /\ history'[c] = history[c]
    OBVIOUS
  <2> QED
    BY <2>1 DEF AlternationInv, TurnsAlternate
<1>6. UsersAreUsers'
  <2> SUFFICES ASSUME NEW c \in Listed(chats'), NEW i \in 1..Len(history'[c]), history'[c][i].role = "user"
               PROVE  history'[c][i] = User(history'[c][i].turn)
    BY DEF UsersAreUsers, User
  <2>1. c \in Listed(chats) /\ history'[c] = history[c]
    OBVIOUS
  <2> QED
    BY <2>1 DEF AlternationInv, UsersAreUsers
<1> QED
  BY <1>1, <1>3, <1>4, <1>5, <1>6 DEF AlternationInv

(* A message added to a chat that waits for nothing in flight any more, or   *)
(* the end of what its last message waits for.                               *)
LEMMA OneMoreMessage ==
  ASSUME AlternationInv, NEW c \in Listed(chats), NEW m \in Message, Listed(chats) \subseteq Chats,
         history \in [Chats -> Seq(Message)],
         history' = [history EXCEPT ![c] = Append(@, m)], UNCHANGED <<chats, lost>>,
         IF m.role = "user"
         THEN m = User(m.turn) /\ \A n \in Turns : Waiting(c, n) => n \in lost
         ELSE Waiting(c, m.turn)
  PROVE  TurnsAlternate' /\ UsersAreUsers'
<1> DEFINE h == history[c]
           g == Append(h, m)
<1>1. /\ h \in Seq(Message) /\ history'[c] = g
      /\ \A d \in Listed(chats) : d # c => history'[d] = history[d]
  OBVIOUS
<1>2. /\ Len(g) = Len(h) + 1 /\ Len(h) \in Nat /\ g[Len(h) + 1] = m
      /\ \A i \in 1..Len(h) : g[i] = h[i]
  BY <1>1
<1> HIDE DEF g
<1>3. ASSUME NEW i \in 1..Len(g)
      PROVE  IF g[i].role = "user"
             THEN i > 1 /\ g[i - 1].role = "user" => g[i - 1].turn \in lost
             ELSE OwnQuestion(g, i)
  <2>1. CASE i \in 1..Len(h)
    <3>1. g[i] = h[i] /\ (i > 1 => g[i - 1] = h[i - 1])
      <4>1. i > 1 => i - 1 \in 1..Len(h)
        BY <1>2, <2>1
      <4>2. g[i] = h[i]
        BY <1>2, <2>1
      <4>3. i > 1 => g[i - 1] = h[i - 1]
        BY <1>2, <4>1
      <4> QED
        BY <4>2, <4>3
    <3>2. IF h[i].role = "user"
          THEN i > 1 /\ h[i - 1].role = "user" => h[i - 1].turn \in lost
          ELSE OwnQuestion(h, i)
      BY <2>1 DEF AlternationInv, TurnsAlternate
    <3> QED
      BY <3>1, <3>2 DEF OwnQuestion
  <2>2. CASE i = Len(h) + 1 /\ m.role = "user"
    <3> SUFFICES ASSUME i > 1, g[i - 1].role = "user" PROVE g[i - 1].turn \in lost
      BY <1>2, <2>2
    <3>1. g[i - 1] = h[Len(h)] /\ h # <<>> /\ h[Len(h)] \in Message
      BY <1>1, <1>2, <2>2
    <3>2. h[Len(h)].turn \in Turns
      BY <3>1 DEF Message
    <3>3. h[Len(h)] = User(h[Len(h)].turn)
      <4>1. Len(h) \in 1..Len(h) /\ h[Len(h)].role = "user"
        BY <1>1, <1>2, <2>2, <3>1
      <4> QED
        BY <4>1 DEF UsersAreUsers, AlternationInv
    <3> QED
      BY <2>2, <3>1, <3>2, <3>3 DEF Waiting
  <2>3. CASE i = Len(h) + 1 /\ m.role # "user"
    <3>1. h # <<>> /\ h[Len(h)] = User(m.turn)
      BY <2>3 DEF Waiting
    <3>2. i > 1 /\ g[i - 1] = h[Len(h)]
      BY <1>1, <1>2, <2>3, <3>1
    <3> QED
      BY <1>2, <2>3, <3>1, <3>2 DEF OwnQuestion
  <2> QED
    BY <1>2, <2>1, <2>2, <2>3
<1>4. ASSUME NEW i \in 1..Len(g), g[i].role = "user" PROVE g[i] = User(g[i].turn)
  <2>1. CASE i \in 1..Len(h)
    BY <1>2, <1>4, <2>1 DEF AlternationInv, UsersAreUsers
  <2>2. CASE i = Len(h) + 1
    BY <1>2, <1>4, <2>2
  <2> QED
    BY <1>2, <2>1, <2>2
<1>5. TurnsAlternate'
  <2>1. ASSUME NEW d \in Listed(chats), NEW i \in 1..Len(history'[d])
        PROVE  IF history'[d][i].role = "user"
               THEN i > 1 /\ history'[d][i - 1].role = "user" => history'[d][i - 1].turn \in lost
               ELSE OwnQuestion(history'[d], i)
    <3>1. CASE d = c
      BY <1>1, <1>3, <3>1
    <3>2. CASE d # c
      <4>1. history'[d] = history[d]
        BY <1>1, <3>2
      <4> QED
        BY <4>1 DEF AlternationInv, TurnsAlternate
    <3> QED
      BY <3>1, <3>2
  <2> QED
    BY <2>1 DEF TurnsAlternate, OwnQuestion
<1>6. UsersAreUsers'
  BY <1>1, <1>4 DEF UsersAreUsers, AlternationInv, User
<1> QED
  BY <1>5, <1>6

(* What is in flight for chat c is in flight after the step, and the other   *)
(* way round, but for a post that becomes a stream or is cut off.            *)
GoesOn(c, n) ==
    /\ InPost(c, n)' => InPost(c, n) /\ activeStreams'[c] = 0 /\ savedStreams'[c] = 0
    /\ savedStreams'[c] = n => InPost(c, n) \/ savedStreams[c] = n
    /\ InPost(c, n) => n \in lost' \/ InPost(c, n)' \/ savedStreams'[c] = n
    /\ savedStreams[c] = n => savedStreams'[c] = n

LEMMA SameGoesOn ==
  ASSUME AlternationInv, NEW c \in Listed(chats), NEW n \in Turns,
         savedStreams'[c] = savedStreams[c],
         activeStreams'[c] \in {0, activeStreams[c], savedStreams[c]},
         InPost(c, n)' <=> InPost(c, n)
  PROVE  GoesOn(c, n)
BY DEF GoesOn, AlternationInv, OneInFlight

LEMMA MessageEnds ==
  ASSUME AlternationInv, MemoryInv', TurnsOK', NEW c \in Listed(chats), NEW m \in Message,
         m.role # "user", Waiting(c, m.turn),
         history' = [history EXCEPT ![c] = Append(@, m)], UNCHANGED <<chats, lost>>,
         \A n \in Turns : ~InPost(c, n)', savedStreams'[c] = 0,
         \A d \in Listed(chats) \ {c}, n \in Turns : GoesOn(d, n) /\ lastDone'[d] = lastDone[d]
  PROVE  AlternationInv'
<1>1. /\ Listed(chats) \subseteq Chats /\ history \in [Chats -> Seq(Message)]
  BY DEF AlternationInv, MemoryInv, CoreInv, ChatsOK, MadeOK
<1>2. TurnsAlternate' /\ UsersAreUsers'
  BY <1>1, OneMoreMessage
<1>3. \A n \in Turns : ~Waiting(c, n)'
  <2>1. history[c] \in Seq(Message) /\ history'[c] = Append(history[c], m)
    BY <1>1
  <2>2. Len(history'[c]) = Len(history[c]) + 1 /\ history'[c][Len(history[c]) + 1] = m
    BY <2>1
  <2>3. history'[c][Len(history'[c])].role # "user"
    BY <2>2
  <2> QED
    BY <2>3 DEF Waiting, User
<1>4. \A d \in Listed(chats) \ {c}, n \in Turns : Waiting(d, n)' <=> Waiting(d, n)
  <2>1. \A d \in Listed(chats) \ {c} : history'[d] = history[d]
    BY <1>1
  <2> QED
    BY <2>1 DEF Waiting
<1>5. OneInFlight'
  BY DEF OneInFlight, GoesOn, InPost
<1>6. InFlightWaits'
  <2> SUFFICES ASSUME NEW d \in Listed(chats), NEW n \in Turns, InPost(d, n)' \/ savedStreams'[d] = n
               PROVE  Waiting(d, n)' /\ lastDone'[d] # n
    BY DEF InFlightWaits, InPost
  <2>1. d # c
    BY DEF Turns
  <2>2. InPost(d, n) \/ savedStreams[d] = n
    BY <2>1 DEF GoesOn
  <2> QED
    BY <1>4, <2>1, <2>2 DEF AlternationInv, InFlightWaits
<1>7. WaitsForSomething'
  <2> SUFFICES ASSUME NEW d \in Listed(chats), NEW n \in Turns, Waiting(d, n)'
               PROVE  n \in lost' \/ InPost(d, n)' \/ savedStreams'[d] = n
    BY DEF WaitsForSomething, InPost, Waiting
  <2>1. d # c
    BY <1>3
  <2>2. n \in lost \/ InPost(d, n) \/ savedStreams[d] = n
    BY <1>4, <2>1 DEF AlternationInv, WaitsForSomething
  <2> QED
    BY <2>1, <2>2 DEF GoesOn
<1> QED
  BY <1>2, <1>5, <1>6, <1>7 DEF AlternationInv

(* As NothingBegins, in terms of GoesOn.                                     *)
LEMMA AllGoOn ==
  ASSUME AlternationInv, MemoryInv', TurnsOK', lost \subseteq lost',
         \A c \in Listed(chats') \cap Listed(chats) :
            history'[c] = history[c] /\ lastDone'[c] = lastDone[c],
         \A c \in Listed(chats') \ Listed(chats) :
            c \notin made /\ c \in Chats /\ history'[c] = history[c]
            /\ activeStreams'[c] \in {0, activeStreams[c]} /\ savedStreams'[c] \in {0, savedStreams[c], activeStreams[c]},
         \A q \in posts' : \E r \in posts : q.chat = r.chat,
         \A c \in Listed(chats') \cap Listed(chats), n \in Turns : GoesOn(c, n)
  PROVE  AlternationInv'
<1>1. MadeOK
  BY DEF AlternationInv, MemoryInv, CoreInv
<1>2. ASSUME NEW c \in Listed(chats') \ Listed(chats)
      PROVE  /\ history'[c] = <<>>
             /\ \A n \in Turns : ~InPost(c, n)' /\ activeStreams'[c] = 0 /\ savedStreams'[c] = 0
  <2>1. c \in Chats \ made /\ \A q \in posts : q.chat # c
    BY <1>1, <1>2 DEF MadeOK
  <2> QED
    BY <1>1, <1>2, <2>1 DEF MadeOK, InPost
<1> QED
  BY <1>2, NothingBegins DEF GoesOn

LEMMA QuietAlternation ==
  ASSUME AlternationInv, MemoryInv', TurnsOK', Quiet
  PROVE  AlternationInv'
<1>1. UNCHANGED <<chats, history, lastDone, activeStreams, savedStreams, posts, lost>>
  BY DEF Quiet, chatVars
<1>2. \A c \in Listed(chats), n \in Turns : GoesOn(c, n)
  BY <1>1, SameGoesOn DEF InPost
<1> QED
  BY <1>1, <1>2, AllGoOn

LEMMA SelectAlternation ==
  ASSUME AlternationInv, MemoryInv', TurnsOK', NEW c \in Chats, SelectChat(c)
  PROVE  AlternationInv'
<1>1. UNCHANGED <<chats, history, lastDone, posts, lost>> /\ Attach(Only(c, activeStreams[c]), Detached)
  BY DEF SelectChat, askVars
<1>2. /\ activeStreams \in [Chats -> {0} \cup Turns] /\ Listed(chats) \subseteq Chats
      /\ Together \/ activeStreams = Nowhere
  BY DEF AlternationInv, MemoryInv, CoreInv, StreamsOK, MadeOK, Idle
<1>3. activeStreams' = activeStreams /\ \A d \in Listed(chats) : savedStreams'[d] = savedStreams[d]
  <2>1. activeStreams' = activeStreams
    BY <1>1, <1>2 DEF Attach, Only, Nowhere
  <2>2. savedStreams' = savedStreams \/ (activeStreams[c] # 0 /\ savedStreams' = activeStreams')
    BY <1>1 DEF Attach, PersistActiveStreams, Only, Nowhere
  <2> QED
    BY <1>2, <2>1, <2>2 DEF Together, Nowhere
<1>4. \A d \in Listed(chats), n \in Turns : GoesOn(d, n)
  BY <1>1, <1>3, SameGoesOn DEF InPost
<1> QED
  BY <1>1, <1>4, AllGoOn

LEMMA NewChatAlternation ==
  ASSUME AlternationInv, MemoryInv', TurnsOK', NewChat
  PROVE  AlternationInv'
<1>1. UNCHANGED <<history, lastDone, posts, lost, activeStreams, savedStreams>>
  BY DEF NewChat, askVars
<1>2. Fresh \in Chats \ made /\ Listed(chats') = Listed(chats) \cup {Fresh}
  BY NewChatIsListed DEF AlternationInv, MemoryInv
<1>3. \A d \in Listed(chats), n \in Turns : GoesOn(d, n)
  BY <1>1, SameGoesOn DEF InPost
<1> QED
  BY <1>1, <1>2, <1>3, AllGoOn

LEMMA DeleteAlternation ==
  ASSUME AlternationInv, MemoryInv', TurnsOK', NEW c \in Chats, DeleteChat(c)
  PROVE  AlternationInv'
<1>1. CoreInv /\ Listed(chats) \subseteq Chats /\ activeStreams \in [Chats -> {0} \cup Turns]
      /\ (Together \/ activeStreams = Nowhere)
  BY DEF AlternationInv, MemoryInv, CoreInv, MadeOK, StreamsOK, Idle
<1>2. /\ UNCHANGED <<history, lastDone, posts, lost>>
      /\ activeStreams' = [activeStreams EXCEPT ![c] = 0]
      /\ IF activeStreams[c] # 0 THEN savedStreams' = activeStreams' ELSE savedStreams' = savedStreams
  BY DEF DeleteChat, PersistActiveStreams, askVars
<1>3. /\ c \notin Listed(chats')
      /\ \A d \in Listed(chats') \ Listed(chats) : d \notin made /\ d \in Chats
  BY <1>1, Deleting
<1>4. /\ \A d \in Chats : d # c => activeStreams'[d] = activeStreams[d]
      /\ \A d \in Listed(chats) : d # c => savedStreams'[d] = savedStreams[d]
  BY <1>1, <1>2 DEF Together, Nowhere
<1>5. \A d \in Listed(chats') \cap Listed(chats), n \in Turns : GoesOn(d, n)
  BY <1>1, <1>2, <1>3, <1>4, SameGoesOn DEF InPost
<1>6. \A d \in Listed(chats') \ Listed(chats) :
         activeStreams'[d] \in {0, activeStreams[d]} /\ savedStreams'[d] \in {0, savedStreams[d], activeStreams[d]}
  BY <1>1, <1>2, <1>3, <1>4
<1> QED
  BY <1>2, <1>3, <1>5, <1>6, AllGoOn

LEMMA ReconnectedAlternation ==
  ASSUME AlternationInv, MemoryInv', TurnsOK', NEW on \in BOOLEAN, Reconnected(on)
  PROVE  AlternationInv'
<1> DEFINE to == IF on THEN Stored(chats) ELSE Nowhere
<1>1. to \in [Chats -> {0} \cup Turns] /\ StreamsOK /\ streaming \in [Chats -> Streaming]
      /\ Listed(chats) \subseteq Chats
  BY NobodyIsOK DEF Stored, AlternationInv, MemoryInv, CoreInv, StreamsOK, MadeOK
<1>2. \A c \in Chats : to[c] \in {0, savedStreams[c]}
  BY NobodyIsOK DEF Stored
<1>3. to # Nowhere => \A c \in Listed(chats) : to[c] = savedStreams[c]
  BY <1>1 DEF Stored
<1>4. Attach(to, streaming) /\ UNCHANGED <<chats, history, lastDone, posts, lost>>
  BY DEF Reconnected, chatVars
<1> HIDE DEF to
<1>5. /\ \A c \in Chats : activeStreams'[c] = IF to[c] = 0 THEN activeStreams[c] ELSE to[c]
      /\ IF to = Nowhere THEN savedStreams' = savedStreams ELSE savedStreams' = activeStreams'
  BY <1>1, <1>4, AttachIsOK
<1>6. \A c \in Listed(chats) : savedStreams'[c] = savedStreams[c]
                               /\ activeStreams'[c] \in {0, activeStreams[c], savedStreams[c]}
  BY <1>1, <1>2, <1>3, <1>5 DEF AlternationInv, MemoryInv, StreamsRemembered
<1>7. \A c \in Listed(chats), n \in Turns : GoesOn(c, n)
  BY <1>4, <1>6, SameGoesOn DEF InPost
<1> QED
  BY <1>4, <1>7, AllGoOn

LEMMA MarkingAlternation ==
  ASSUME AlternationInv, MemoryInv', TurnsOK', NEW q \in posts, NEW w \in {"answered", "failed"},
         Marking(q, w)
  PROVE  AlternationInv'
<1>1. UNCHANGED <<chats, history, lastDone, activeStreams, savedStreams, lost>> /\ At(q, w)
  BY DEF Marking, chatVars, streamVars
<1>2. PostsOK
  BY DEF AlternationInv, MemoryInv, CoreInv
<1>3. /\ \A r \in posts' : \E s \in posts : s.chat = r.chat /\ s.turn = r.turn
      /\ \A s \in posts : \E r \in posts' : s.chat = r.chat /\ s.turn = r.turn
  BY <1>1, <1>2, MarkedPosts
<1>4. \A c \in Listed(chats), n \in Turns : InPost(c, n)' <=> InPost(c, n)
  BY <1>3 DEF InPost
<1>5. \A c \in Listed(chats), n \in Turns : GoesOn(c, n)
  BY <1>1, <1>4, SameGoesOn
<1> QED
  BY <1>1, <1>3, <1>5, AllGoOn

LEMMA PostAnsweredAlternation ==
  ASSUME AlternationInv, MemoryInv', TurnsOK', NEW q \in posts, PostAnswered(q)
  PROVE  AlternationInv'
<1> DEFINE c == q.chat
           n == q.turn
<1>1. /\ c \in Chats /\ n \in Turns /\ n # 0 /\ StreamsOK /\ Listed(chats) \subseteq Chats
      /\ Together /\ \A r \in posts : r.chat = c => r = q
  BY DEF AlternationInv, MemoryInv, CoreInv, PostsOK, Post, Turns, MadeOK, Idle
<1>2. /\ Attach(Only(c, n), streaming) /\ posts' = posts \ {q}
      /\ UNCHANGED <<chats, history, lastDone, lost>>
  BY DEF PostAnswered, chatVars
<1>3. InPost(c, n)
  BY DEF InPost
<1> HIDE DEF c, n
<1>4. /\ \A d \in Chats : activeStreams'[d] = IF d = c THEN n ELSE activeStreams[d]
      /\ savedStreams' = activeStreams'
  BY <1>1, <1>2 DEF Attach, PersistActiveStreams, Only, Nowhere, StreamsOK
<1>5. ASSUME NEW d \in Listed(chats), NEW k \in Turns PROVE GoesOn(d, k)
  <2>1. CASE d # c
    <3>1. savedStreams'[d] = savedStreams[d] /\ activeStreams'[d] = activeStreams[d]
      BY <1>1, <1>4, <2>1 DEF Together
    <3>2. InPost(d, k)' <=> InPost(d, k)
      BY <1>1, <1>2, <2>1 DEF InPost, c
    <3> QED
      BY <3>1, <3>2, SameGoesOn
  <2>2. CASE d = c
    <3>1. ~InPost(d, k)' /\ (InPost(d, k) => k = n)
      BY <1>1, <1>2, <2>2 DEF InPost, n
    <3>2. savedStreams'[d] = n /\ savedStreams[d] = 0
      BY <1>1, <1>3, <1>4, <2>2 DEF AlternationInv, OneInFlight
    <3> QED
      BY <1>3, <2>2, <3>1, <3>2 DEF GoesOn, Turns
  <2> QED
    BY <2>1, <2>2
<1> QED
  BY <1>2, <1>5, AllGoOn

LEMMA BootingAlternation ==
  ASSUME AlternationInv, MemoryInv', TurnsOK', NEW to, NEW on, Booting(to, on)
  PROVE  AlternationInv'
<1>1. CoreInv /\ Listed(chats) \subseteq Chats
  BY DEF AlternationInv, MemoryInv, CoreInv, MadeOK
<1>2. /\ UNCHANGED <<chats, lastDone>> /\ posts' = {} /\ lost' = lost \cup {q.turn : q \in posts}
      /\ history' = [c \in Chats |-> IF c \in Listed(chats) THEN history[c] ELSE <<>>]
      /\ to = Nowhere \/ \A c \in Listed(chats) : to[c] = savedStreams[c]
      /\ activeStreams' = to
      /\ IF to = Nowhere THEN savedStreams' = savedStreams ELSE savedStreams' = activeStreams'
  BY <1>1, Booted
<1>3. \A c \in Listed(chats) : history'[c] = history[c] /\ savedStreams'[c] = savedStreams[c]
  BY <1>1, <1>2
<1>4. \A c \in Listed(chats), n \in Turns : GoesOn(c, n)
  BY <1>2, <1>3 DEF GoesOn, InPost
<1> QED
  BY <1>2, <1>3, <1>4, AllGoOn

LEMMA SendAlternation ==
  ASSUME AlternationInv, MemoryInv', TurnsOK', SendMessage,
         NEW c, c = activeChat, NEW n, n = sent + 1
  PROVE  AlternationInv'
<1> DEFINE q == [chat |-> c, turn |-> n, at |-> "sent"]
<1>1. CoreInv /\ TurnsOK /\ StreamsRemembered /\ StreamsOK /\ PostsOK
  BY DEF AlternationInv, MemoryInv, CoreInv
<1>2. c \in Listed(chats) /\ Listed(chats) \subseteq Chats /\ history \in [Chats -> Seq(Message)]
  BY <1>1 DEF CoreInv, ChatsOK, MadeOK
<1>3. /\ sent < MaxTurns /\ ~busy /\ connected
      /\ history' = [history EXCEPT ![c] = Append(@, User(n))]
      /\ posts' = posts \cup {q}
      /\ UNCHANGED <<chats, lastDone, activeStreams, savedStreams, lost>>
  BY DEF SendMessage, streamVars
<1>4. n \in Turns /\ sent < n
  BY <1>1, <1>3, AssistantAssumption DEF PostsOK, Turns, AssistantAssumption
<1>5. User(n) \in Message /\ User(n).turn = n /\ User(n).role = "user"
  BY <1>4 DEF User, Message
<1>6. activeStreams[c] = 0 /\ savedStreams[c] = 0 /\ \A k \in Turns : ~InPost(c, k)
  <2>1. activeStreams[c] = 0 /\ c \notin pendingPosts
    BY <1>1, <1>3 DEF CoreInv, BusyOK
  <2> QED
    BY <1>1, <1>2, <1>3, <2>1 DEF StreamsRemembered, PostsOK, InPost
<1>7. q.chat = c /\ q.turn = n
  OBVIOUS
<1> HIDE DEF q
<1>8. TurnsAlternate' /\ UsersAreUsers'
  <2>1. \A k \in Turns : Waiting(c, k) => k \in lost
    <3>1. \A k \in Turns : savedStreams[c] # k
      BY <1>6 DEF Turns
    <3> QED
      BY <1>2, <1>6, <3>1 DEF AlternationInv, WaitsForSomething
  <2> QED
    BY <1>2, <1>3, <1>5, <2>1, OneMoreMessage
<1>9. \A k \in Turns : InPost(c, k)' <=> k = n
  BY <1>3, <1>6, <1>7 DEF InPost
<1>10. ASSUME NEW d \in Listed(chats), d # c, NEW k \in Turns
       PROVE  (InPost(d, k)' <=> InPost(d, k)) /\ (Waiting(d, k)' <=> Waiting(d, k))
  <2>1. history'[d] = history[d]
    BY <1>2, <1>3, <1>10
  <2> QED
    BY <1>3, <1>7, <1>10, <2>1 DEF InPost, Waiting
<1>11. \A k \in Turns : Waiting(c, k)' <=> k = n
  <2>1. history[c] \in Seq(Message) /\ history'[c] = Append(history[c], User(n))
    BY <1>2, <1>3
  <2>2. history'[c] # <<>> /\ history'[c][Len(history'[c])] = User(n)
    BY <1>5, <2>1
  <2> QED
    BY <1>4, <2>2 DEF Waiting, User
<1>12. OneInFlight'
  <2> SUFFICES ASSUME NEW d \in Listed(chats), NEW k \in Turns, InPost(d, k)'
               PROVE  activeStreams[d] = 0 /\ savedStreams[d] = 0
    BY <1>3 DEF OneInFlight, InPost
  <2> QED
    BY <1>6, <1>10 DEF AlternationInv, OneInFlight
<1>13. InFlightWaits'
  <2> SUFFICES ASSUME NEW d \in Listed(chats), NEW k \in Turns, InPost(d, k)' \/ savedStreams[d] = k
               PROVE  Waiting(d, k)' /\ lastDone[d] # k
    BY <1>3 DEF InFlightWaits, InPost, Waiting
  <2>1. CASE d = c
    <3>1. k = n
      BY <1>6, <1>9, <2>1 DEF Turns
    <3>2. lastDone[c] <= sent /\ lastDone[c] \in Int /\ sent \in Int /\ n \in Int
      BY <1>1, <1>2, <1>4 DEF TurnsOK, CoreInv, ChatsOK, PostsOK, Turns
    <3> QED
      BY <1>4, <1>11, <2>1, <3>1, <3>2
  <2>2. CASE d # c
    BY <1>10, <2>2 DEF AlternationInv, InFlightWaits
  <2> QED
    BY <2>1, <2>2
<1>14. WaitsForSomething'
  <2> SUFFICES ASSUME NEW d \in Listed(chats), NEW k \in Turns, Waiting(d, k)'
               PROVE  k \in lost \/ InPost(d, k)' \/ savedStreams[d] = k
    BY <1>3 DEF WaitsForSomething, InPost, Waiting
  <2>1. CASE d = c
    BY <1>9, <1>11, <2>1
  <2>2. CASE d # c
    BY <1>10, <2>2 DEF AlternationInv, WaitsForSomething
  <2> QED
    BY <2>1, <2>2
<1> QED
  BY <1>8, <1>12, <1>13, <1>14 DEF AlternationInv

LEMMA PostFailedAlternation ==
  ASSUME AlternationInv, MemoryInv', TurnsOK', NEW q \in posts, PostFailed(q)
  PROVE  AlternationInv'
<1> DEFINE c == q.chat
           n == q.turn
<1>1. /\ c \in Chats /\ n \in Turns /\ Listed(chats) \subseteq Chats
      /\ \A r \in posts : r.chat = c => r = q
      /\ history \in [Chats -> Seq(Message)]
  BY DEF AlternationInv, MemoryInv, CoreInv, ChatsOK, PostsOK, Post, MadeOK
<1>2. /\ posts' = posts \ {q} /\ history' = [history EXCEPT ![c] = Append(@, Failure(n))]
      /\ UNCHANGED <<chats, lastDone, activeStreams, savedStreams, lost>>
  BY DEF PostFailed, streamVars
<1>3. InPost(c, n)
  BY DEF InPost
<1>4. \A k \in Turns : ~InPost(c, k)'
  BY <1>1, <1>2 DEF InPost
<1>5. \A d \in Listed(chats) \ {c}, k \in Turns : InPost(d, k)' <=> InPost(d, k)
  BY <1>2 DEF InPost
<1> HIDE DEF c, n
<1>6. \A d \in Listed(chats) \ {c}, k \in Turns : GoesOn(d, k)
  BY <1>2, <1>5, SameGoesOn
<1>7. \A d \in Listed(chats) \ {c} : history'[d] = history[d]
  BY <1>1, <1>2
<1>8. CASE c \in Listed(chats)
  <2>1. Failure(n) \in Message /\ Failure(n).role # "user" /\ Failure(n).turn = n
    BY <1>1 DEF Failure, Message
  <2>2. Waiting(c, n) /\ savedStreams[c] = 0
    BY <1>1, <1>3, <1>8 DEF AlternationInv, InFlightWaits, OneInFlight
  <2> QED
    BY <1>2, <1>4, <1>6, <1>8, <2>1, <2>2, MessageEnds
<1>9. CASE c \notin Listed(chats)
  BY <1>2, <1>6, <1>7, <1>9, AllGoOn
<1> QED
  BY <1>8, <1>9

LEMMA SettlingAlternation ==
  ASSUME AlternationInv, MemoryInv', TurnsOK', NEW c \in Chats, NEW m \in Message, Settling(c, m)
  PROVE  AlternationInv'
<1> DEFINE n == activeStreams[c]
<1>1. /\ CoreInv /\ Together /\ Listed(chats) \subseteq Chats
      /\ history \in [Chats -> Seq(Message)] /\ lastDone \in [Chats -> {0} \cup Turns]
      /\ activeStreams \in [Chats -> {0} \cup Turns]
  <2>1. n # 0
    BY Settled_ DEF AlternationInv, MemoryInv, Turns
  <2> QED
    BY <2>1 DEF AlternationInv, MemoryInv, CoreInv, ChatsOK, StreamsOK, MadeOK, Idle, Nowhere
<1>2. /\ n \in Turns /\ n # 0
      /\ activeStreams' = [activeStreams EXCEPT ![c] = 0] /\ savedStreams' = activeStreams'
      /\ UNCHANGED <<chats, posts, lost>>
      /\ \/ lastDone[c] = n /\ UNCHANGED <<history, lastDone>>
         \/ /\ lastDone[c] # n /\ lastDone' = [lastDone EXCEPT ![c] = n]
            /\ history' = [history EXCEPT ![c] = Append(@, m)]
  BY <1>1, Settled_ DEF Turns
<1>3. m.turn = n /\ m.role # "user"
  BY DEF Settling
<1> HIDE DEF n
<1>4. \A d \in Listed(chats) \ {c}, k \in Turns : GoesOn(d, k)
  <2>1. \A d \in Listed(chats) \ {c} :
          savedStreams'[d] = savedStreams[d] /\ activeStreams'[d] = activeStreams[d]
    BY <1>1, <1>2 DEF Together
  <2> QED
    BY <1>2, <2>1, SameGoesOn DEF InPost
<1>5. \A d \in Listed(chats) \ {c} : lastDone'[d] = lastDone[d] /\ history'[d] = history[d]
  BY <1>1, <1>2
<1>6. CASE c \in Listed(chats)
  <2>1. savedStreams[c] = n
    BY <1>1, <1>6 DEF Together, n
  <2>2. Waiting(c, n) /\ lastDone[c] # n
    BY <1>2, <1>6, <2>1 DEF AlternationInv, InFlightWaits
  <2>3. \A k \in Turns : ~InPost(c, k)'
    BY <1>2, <1>6, <2>1 DEF AlternationInv, OneInFlight, InPost
  <2>4. savedStreams'[c] = 0
    BY <1>1, <1>2
  <2> QED
    BY <1>2, <1>3, <1>4, <1>5, <1>6, <2>2, <2>3, <2>4, MessageEnds
<1>7. CASE c \notin Listed(chats)
  BY <1>2, <1>4, <1>5, <1>7, AllGoOn
<1> QED
  BY <1>6, <1>7

LEMMA AlternationStep ==
  ASSUME AlternationInv, MemoryInv', TurnsOK', Steps
  PROVE  AlternationInv'
<1>1. CASE Quiet \/ NewChat \/ SendMessage
  BY <1>1, QuietAlternation, NewChatAlternation, SendAlternation
<1>2. CASE \E c \in Chats : SelectChat(c) \/ DeleteChat(c)
  BY <1>2, SelectAlternation, DeleteAlternation
<1>3. CASE \E q \in posts : PostAnswered(q) \/ PostFailed(q)
  BY <1>3, PostAnsweredAlternation, PostFailedAlternation
<1>4. CASE \E q \in posts, w \in {"answered", "failed"} : Marking(q, w)
  BY <1>4, MarkingAlternation
<1>5. CASE \E c \in Chats, m \in Message : Settling(c, m)
  BY <1>5, SettlingAlternation
<1>6. CASE \E on \in BOOLEAN : Reconnected(on)
  BY <1>6, ReconnectedAlternation
<1>7. CASE \E to \in [Chats -> {0} \cup Turns], on \in BOOLEAN : Booting(to, on)
  BY <1>7, BootingAlternation
<1> QED
  BY <1>1, <1>2, <1>3, <1>4, <1>5, <1>6, <1>7 DEF Steps

LEMMA AlternationStart == Init => AlternationInv
<1> SUFFICES ASSUME Init PROVE AlternationInv
  OBVIOUS
<1>1. MemoryInv /\ Listed(chats) \subseteq Chats
  <2>1. CoreInv
    BY AssistantAssumption, CoreStart
  <2>2. StreamsRemembered /\ Together
    BY DEF Init, StreamsRemembered, Together, Nowhere
  <2> QED
    BY <2>1, <2>2 DEF MemoryInv, CoreInv, MadeOK
<1>2. /\ posts = {} /\ \A c \in Listed(chats) : history[c] = <<>> /\ savedStreams[c] = 0
      /\ \A c \in Chats : lastDone[c] <= sent
  BY <1>1 DEF Init, Nowhere
<1>3. TurnsOK
  BY <1>2 DEF TurnsOK
<1>4. TurnsAlternate /\ UsersAreUsers
  BY <1>2 DEF TurnsAlternate, UsersAreUsers
<1>5. OneInFlight /\ InFlightWaits /\ WaitsForSomething
  BY <1>2 DEF OneInFlight, InFlightWaits, WaitsForSomething, InPost, Waiting, Turns
<1> QED
  BY <1>1, <1>3, <1>4, <1>5 DEF AlternationInv

LEMMA AlternationInvariance == Spec => []AlternationInv
<1>1. UsageInv /\ UsageInv' /\ MemoryInv' /\ AlternationInv /\ [Next]_vars => AlternationInv'
  BY EveryStep, AlternationStep DEF UsageInv
<1> QED
  BY <1>1, AlternationStart, UsageInvariance, MemoryInvariance, PTL DEF Spec

(* In a chat that is listed, an answer or an error comes right after the     *)
(* message it is for, and a message comes right after another one only if a  *)
(* page navigation cut the first one's POST off (assistant.js:1526, 1647,    *)
(* 1035).                                                                    *)
THEOREM ChatsAlternate == Spec => []TurnsAlternate
<1>1. AlternationInv => TurnsAlternate
  BY DEF AlternationInv
<1> QED
  BY <1>1, AlternationInvariance, PTL

-------------------------------------------------------------------------------
(* No step of the page takes a message from a chat that stays.               *)
LEMMA Growing ==
  ASSUME CoreInv, Steps
  PROVE  \A c \in Listed(chats) \cap Listed(chats') : Extends(history[c], history'[c])
<1>1. /\ ChatsOK /\ Listed(chats) \subseteq Chats /\ history \in [Chats -> Seq(Message)]
      /\ PostsOK
  BY DEF CoreInv, ChatsOK, MadeOK
<1>2. \A h \in Seq(Message) : Extends(h, h)
  <2> TAKE h \in Seq(Message)
  <2>1. Len(h) \in Nat /\ SubSeq(h, 1, Len(h)) = h
    OBVIOUS
  <2> QED
    BY <2>1 DEF Extends
<1>3. ASSUME \A c \in Listed(chats) : history'[c] = history[c]
      PROVE  \A c \in Listed(chats) \cap Listed(chats') : Extends(history[c], history'[c])
  BY <1>1, <1>2, <1>3
<1>4. ASSUME NEW d \in Chats, NEW m \in Message, history' = [history EXCEPT ![d] = Append(@, m)]
      PROVE  \A c \in Listed(chats) \cap Listed(chats') : Extends(history[c], history'[c])
  <2>1. history'[d] = Append(history[d], m) /\ history[d] \in Seq(Message)
        /\ \A c \in Chats : c # d => history'[c] = history[c]
    BY <1>1, <1>4, AppendingTo
  <2>2. Extends(history[d], history'[d])
    BY <2>1, Appending
  <2> QED
    BY <1>1, <1>2, <2>1, <2>2
<1>5. CASE Quiet \/ NewChat \/ \E c \in Chats : SelectChat(c) \/ DeleteChat(c)
  <2>1. UNCHANGED history
    BY <1>5 DEF Quiet, NewChat, SelectChat, DeleteChat, chatVars
  <2> QED
    BY <1>3, <2>1
<1>6. CASE SendMessage
  <2>1. history' = [history EXCEPT ![activeChat] = Append(@, User(sent + 1))] /\ sent < MaxTurns
    BY <1>6 DEF SendMessage
  <2>2. activeChat \in Chats
    BY <1>1 DEF ChatsOK
  <2>3. User(sent + 1) \in Message
    <3>1. sent + 1 \in Turns
      BY <1>1, <2>1, AssistantAssumption DEF PostsOK, Turns, AssistantAssumption
    <3> QED
      BY <3>1 DEF User, Message
  <2> QED
    BY <1>4, <2>1, <2>2, <2>3
<1>7. ASSUME NEW q \in posts, PostAnswered(q) \/ PostFailed(q)
      PROVE  \A c \in Listed(chats) \cap Listed(chats') : Extends(history[c], history'[c])
  <2>1. CASE PostAnswered(q)
    <3>1. UNCHANGED history
      BY <2>1 DEF PostAnswered, chatVars
    <3> QED
      BY <1>3, <3>1
  <2>2. CASE PostFailed(q)
    <3>1. history' = [history EXCEPT ![q.chat] = Append(@, Failure(q.turn))]
      BY <2>2 DEF PostFailed
    <3>2. q.chat \in Chats /\ Failure(q.turn) \in Message
      BY <1>1 DEF PostsOK, Post, Failure, Message
    <3> QED
      BY <1>4, <3>1, <3>2
  <2> QED
    BY <1>7, <2>1, <2>2
<1>8. CASE \E q \in posts, w \in {"answered", "failed"} : Marking(q, w)
  <2>1. UNCHANGED history
    BY <1>8 DEF Marking, chatVars
  <2> QED
    BY <1>3, <2>1
<1>9. ASSUME NEW c \in Chats, NEW m \in Message, Settling(c, m)
      PROVE  \A d \in Listed(chats) \cap Listed(chats') : Extends(history[d], history'[d])
  <2>1. UNCHANGED history \/ history' = [history EXCEPT ![c] = Append(@, m)]
    BY <1>9, Settled_
  <2> QED
    BY <1>3, <1>4, <2>1
<1>10. CASE \E on \in BOOLEAN : Reconnected(on)
  <2>1. UNCHANGED history
    BY <1>10 DEF Reconnected, chatVars
  <2> QED
    BY <1>3, <2>1
<1>11. ASSUME NEW to, NEW on, Booting(to, on)
       PROVE  \A c \in Listed(chats) \cap Listed(chats') : Extends(history[c], history'[c])
  <2>1. history' = [c \in Chats |-> IF c \in Listed(chats) THEN history[c] ELSE <<>>]
    BY <1>11, Booted
  <2> QED
    BY <1>1, <1>3, <2>1
<1> QED
  BY <1>5, <1>6, <1>7, <1>8, <1>9, <1>10, <1>11 DEF Steps

(* A chat that stays in the list loses no message: not to a new page, which  *)
(* starts from what was saved, not to an error and not to another chat       *)
(* (assistant.js:242, 1058).                                                 *)
THEOREM NoMessageIsLost == Spec => HistoryOnlyGrows
<1>1. UsageInv /\ [Next]_vars =>
        [\A c \in Listed(chats) \cap Listed(chats') : Extends(history[c], history'[c])]_vars
  BY EveryStep, Growing DEF UsageInv
<1> QED
  BY <1>1, UsageInvariance, PTL DEF Spec, HistoryOnlyGrows

-------------------------------------------------------------------------------
(* The messages of a chat are in the order their turns were sent in, and no  *)
(* two chats have messages of one turn.                                      *)
InOrder == \A c \in Listed(chats) : \A i, j \in 1..Len(history[c]) : i < j =>
    /\ history[c][i].turn <= history[c][j].turn
    /\ history[c][j].role = "user" => history[c][i].turn < history[c][j].turn

OneChatEach == \A c, d \in Listed(chats) :
    \A i \in 1..Len(history[c]), j \in 1..Len(history[d]) :
        history[c][i].turn = history[d][j].turn => c = d

SentBefore == \A c \in Listed(chats) : \A i \in 1..Len(history[c]) : history[c][i].turn <= sent

OrderInv == InOrder /\ OneChatEach /\ SentBefore

LEMMA TurnsAreNumbers ==
  /\ Turns \subseteq Nat \ {0}
  /\ \A m \in Message : m.turn \in Turns /\ m.turn \in Nat
  /\ \A h \in Seq(Message) : Len(h) \in Nat /\ \A i \in 1..Len(h) : h[i] \in Message
<1>1. Turns \subseteq Nat \ {0}
  BY DEF Turns
<1>2. \A m \in Message : m.turn \in Turns /\ m.turn \in Nat
  BY <1>1 DEF Message
<1> QED
  BY <1>1, <1>2

(* A step that adds no message keeps their order.                            *)
LEMMA SameOrder ==
  ASSUME OrderInv, CoreInv, sent <= sent', sent' \in Nat,
         \A c \in Listed(chats') : (c \in Listed(chats) /\ history'[c] = history[c]) \/ history'[c] = <<>>
  PROVE  OrderInv'
<1> DEFINE listed == Listed(chats')
<1>1. \A c \in Listed(chats) : \A i \in 1..Len(history[c]) : history[c][i].turn \in Nat
  <2>1. \A c \in Listed(chats) : history[c] \in Seq(Message)
    BY DEF CoreInv, ChatsOK, MadeOK
  <2> QED
    BY <2>1, TurnsAreNumbers
<1>2. \A c \in listed : Len(history'[c]) # 0 => c \in Listed(chats) /\ history'[c] = history[c]
  OBVIOUS
<1>3. \A c \in listed : \A i \in 1..Len(history'[c]) : c \in Listed(chats) /\ history'[c] = history[c]
  BY <1>2
<1>4. InOrder'
  BY <1>3 DEF InOrder, OrderInv
<1>5. OneChatEach'
  BY <1>3 DEF OneChatEach, OrderInv
<1>6. SentBefore'
  <2>1. sent \in Nat
    BY AssistantAssumption DEF CoreInv, PostsOK, AssistantAssumption
  <2> QED
    BY <1>1, <1>3, <2>1 DEF SentBefore, OrderInv
<1> QED
  BY <1>4, <1>5, <1>6 DEF OrderInv

(* A message of the turn of the last one, or of a new turn, is in order.     *)
LEMMA NextInOrder ==
  ASSUME OrderInv, CoreInv, NEW c \in Listed(chats), NEW m \in Message, sent <= sent', sent' \in Nat,
         UNCHANGED chats, history' = [history EXCEPT ![c] = Append(@, m)],
         \/ m.turn > sent /\ m.turn <= sent'
         \/ m.role # "user" /\ Waiting(c, m.turn)
  PROVE  OrderInv'
<1> DEFINE l == Listed(chats)
           h(d) == history[d]
<1>1. /\ l \subseteq Chats /\ \A d \in l : h(d) \in Seq(Message)
      /\ \A d \in l : d # c => history'[d] = h(d)
      /\ history'[c] = Append(h(c), m)
  BY AppendingTo DEF CoreInv, ChatsOK, MadeOK
<1>2. /\ \A d \in l : Len(h(d)) \in Nat /\ \A i \in 1..Len(h(d)) : h(d)[i] \in Message
      /\ \A x \in Message : x.turn \in Nat
      /\ sent \in Nat
  <2>1. sent \in Nat
    BY AssistantAssumption DEF AssistantAssumption, CoreInv, PostsOK
  <2> QED
    BY <1>1, <2>1, TurnsAreNumbers
<1>3. /\ Len(history'[c]) = Len(h(c)) + 1 /\ history'[c][Len(h(c)) + 1] = m
      /\ \A i \in 1..Len(h(c)) : history'[c][i] = h(c)[i]
  BY <1>1, Appending
<1>4. /\ \A i \in 1..Len(h(c)) : h(c)[i].turn <= m.turn /\ (m.role = "user" => h(c)[i].turn < m.turn)
      /\ \A d \in l : d # c => \A i \in 1..Len(h(d)) : h(d)[i].turn # m.turn
      /\ m.turn <= sent'
  <2>1. CASE m.turn > sent /\ m.turn <= sent'
    <3>1. \A d \in l : \A i \in 1..Len(h(d)) : h(d)[i].turn <= sent /\ h(d)[i].turn \in Nat
      BY <1>2 DEF OrderInv, SentBefore
    <3> QED
      BY <1>2, <2>1, <3>1
  <2>2. CASE m.role # "user" /\ Waiting(c, m.turn)
    <3> DEFINE n == Len(h(c))
    <3>1. n \in 1..n /\ h(c)[n].turn = m.turn
      BY <1>1, <2>2 DEF Waiting, User
    <3>2. \A i \in 1..n : h(c)[i].turn <= m.turn
      <4> TAKE i \in 1..n
      <4>1. CASE i = n
        BY <1>2, <3>1, <4>1
      <4>2. CASE i # n
        <5>1. i < n
          BY <1>2, <4>2
        <5> QED
          BY <3>1, <5>1 DEF OrderInv, InOrder
      <4> QED
        BY <4>1, <4>2
    <3>3. \A d \in l : d # c => \A i \in 1..Len(h(d)) : h(d)[i].turn # m.turn
      BY <3>1 DEF OrderInv, OneChatEach
    <3>4. m.turn <= sent'
      <4>1. m.turn <= sent
        BY <3>1 DEF OrderInv, SentBefore
      <4> QED
        BY <1>2, <4>1
    <3> QED
      BY <2>2, <3>2, <3>3, <3>4
  <2> QED
    BY <2>1, <2>2
<1>5. InOrder'
  <2> SUFFICES ASSUME NEW d \in l, NEW i \in 1..Len(history'[d]), NEW j \in 1..Len(history'[d]), i < j
               PROVE  /\ history'[d][i].turn <= history'[d][j].turn
                      /\ history'[d][j].role = "user" => history'[d][i].turn < history'[d][j].turn
    BY DEF InOrder
  <2>1. CASE d # c
    BY <1>1, <2>1 DEF OrderInv, InOrder
  <2>2. CASE d = c /\ j = Len(h(c)) + 1
    <3>1. i \in 1..Len(h(c))
      BY <1>2, <1>3, <2>2
    <3> QED
      BY <1>3, <1>4, <2>2, <3>1
  <2>3. CASE d = c /\ j # Len(h(c)) + 1
    <3>1. i \in 1..Len(h(c)) /\ j \in 1..Len(h(c))
      BY <1>2, <1>3, <2>3
    <3> QED
      BY <1>3, <2>3, <3>1 DEF OrderInv, InOrder
  <2> QED
    BY <2>1, <2>2, <2>3
<1>6. OneChatEach'
  <2>1. \A i \in 1..Len(history'[c]) : i \in 1..Len(h(c)) \/ history'[c][i] = m
    BY <1>2, <1>3
  <2> SUFFICES ASSUME NEW d \in l, NEW e \in l, NEW i \in 1..Len(history'[d]), NEW j \in 1..Len(history'[e]),
                      history'[d][i].turn = history'[e][j].turn, d # e
               PROVE  FALSE
    BY DEF OneChatEach
  <2>2. CASE d = c
    BY <1>1, <1>3, <1>4, <2>1, <2>2 DEF OrderInv, OneChatEach
  <2>3. CASE e = c
    BY <1>1, <1>3, <1>4, <2>1, <2>3 DEF OrderInv, OneChatEach
  <2>4. CASE d # c /\ e # c
    BY <1>1, <2>4 DEF OrderInv, OneChatEach
  <2> QED
    BY <2>2, <2>3, <2>4
<1>7. SentBefore'
  <2> SUFFICES ASSUME NEW d \in l, NEW i \in 1..Len(history'[d])
               PROVE  history'[d][i].turn <= sent'
    BY DEF SentBefore
  <2>1. CASE d # c
    BY <1>1, <1>2, <2>1 DEF OrderInv, SentBefore
  <2>2. CASE d = c /\ i = Len(h(c)) + 1
    BY <1>3, <1>4, <2>2
  <2>3. CASE d = c /\ i # Len(h(c)) + 1
    <3>1. i \in 1..Len(h(c)) /\ history'[d][i] = h(c)[i]
      BY <1>2, <1>3, <2>3
    <3>2. h(c)[i].turn <= sent /\ h(c)[i].turn \in Nat
      BY <1>2, <3>1 DEF OrderInv, SentBefore
    <3> QED
      BY <1>2, <3>1, <3>2
  <2> QED
    BY <2>1, <2>2, <2>3
<1> QED
  BY <1>5, <1>6, <1>7 DEF OrderInv

LEMMA OrderStep ==
  ASSUME OrderInv, AlternationInv, CoreInv, CoreInv', Steps
  PROVE  OrderInv'
<1>1. /\ sent \in Nat /\ sent' \in Nat /\ Listed(chats) \subseteq Chats
      /\ history \in [Chats -> Seq(Message)] /\ \A c \in Chats \ made : history[c] = <<>>
  BY AssistantAssumption DEF AssistantAssumption, CoreInv, PostsOK, ChatsOK, MadeOK
<1>2. CASE Quiet \/ (\E c \in Chats : SelectChat(c)) \/ (\E q \in posts : PostAnswered(q))
           \/ (\E q \in posts, w \in {"answered", "failed"} : Marking(q, w))
           \/ (\E on \in BOOLEAN : Reconnected(on))
  <2>1. UNCHANGED <<chats, history, sent>>
    BY <1>2 DEF Quiet, SelectChat, PostAnswered, Marking, Reconnected, chatVars, askVars
  <2> QED
    BY <1>1, <2>1, SameOrder
<1>3. CASE NewChat
  <2>1. UNCHANGED <<history, sent>> /\ Fresh \in Chats \ made /\ Listed(chats') = Listed(chats) \cup {Fresh}
    BY <1>3, NewChatIsListed DEF NewChat, askVars
  <2>2. \A c \in Listed(chats') : (c \in Listed(chats) /\ history'[c] = history[c]) \/ history'[c] = <<>>
    BY <1>1, <2>1
  <2> QED
    BY <1>1, <2>1, <2>2, SameOrder
<1>4. CASE \E c \in Chats : DeleteChat(c)
  <2> PICK c \in Chats : DeleteChat(c)
    BY <1>4
  <2>1. UNCHANGED <<history, sent>>
        /\ \/ Listed(chats') = Listed(chats) \ {c}
           \/ Fresh \in Chats \ made /\ Listed(chats') = {Fresh}
    <3>1. UNCHANGED <<history, sent>>
      BY DEF DeleteChat, askVars
    <3>2. \/ Listed(chats') = Listed(chats) \ {c}
          \/ Fresh \in Chats \ made /\ Listed(chats') = {Fresh}
      BY Deleting
    <3> QED
      BY <3>1, <3>2
  <2>2. \A d \in Listed(chats') : (d \in Listed(chats) /\ history'[d] = history[d]) \/ history'[d] = <<>>
    BY <1>1, <2>1
  <2> QED
    BY <1>1, <2>1, <2>2, SameOrder
<1>5. CASE \E to \in [Chats -> {0} \cup Turns], on \in BOOLEAN : Booting(to, on)
  <2>1. UNCHANGED <<chats, sent>> /\ history' = [c \in Chats |-> IF c \in Listed(chats) THEN history[c] ELSE <<>>]
    BY <1>5, Booted
  <2> QED
    BY <1>1, <2>1, SameOrder
<1>6. CASE SendMessage
  <2>1. /\ UNCHANGED chats /\ sent' = sent + 1 /\ sent < MaxTurns
        /\ history' = [history EXCEPT ![activeChat] = Append(@, User(sent + 1))]
    BY <1>6 DEF SendMessage
  <2>2. User(sent + 1) \in Message /\ User(sent + 1).turn = sent + 1
    <3>1. sent + 1 \in Turns
      BY <1>1, <2>1, AssistantAssumption DEF Turns, AssistantAssumption
    <3> QED
      BY <3>1 DEF User, Message
  <2>3. activeChat \in Listed(chats)
    BY DEF CoreInv, ChatsOK
  <2>4. sent <= sent' /\ User(sent + 1).turn > sent /\ User(sent + 1).turn <= sent'
    BY <1>1, <2>1, <2>2
  <2> QED
    BY <1>1, <2>1, <2>2, <2>3, <2>4, NextInOrder
<1>7. CASE \E q \in posts : PostFailed(q)
  <2> PICK q \in posts : PostFailed(q)
    BY <1>7
  <2>1. /\ UNCHANGED <<chats, sent>>
        /\ history' = [history EXCEPT ![q.chat] = Append(@, Failure(q.turn))]
    BY DEF PostFailed
  <2>2. /\ q.chat \in Chats /\ q.turn \in Turns
        /\ Failure(q.turn) \in Message /\ Failure(q.turn).turn = q.turn /\ Failure(q.turn).role # "user"
    BY DEF CoreInv, PostsOK, Post, Failure, Message
  <2>3. CASE q.chat \in Listed(chats)
    <3>1. Waiting(q.chat, q.turn)
      BY <2>2, <2>3 DEF AlternationInv, InFlightWaits, InPost
    <3> DEFINE m == Failure(q.turn)
    <3>2. m \in Message /\ m.role # "user" /\ Waiting(q.chat, m.turn)
      BY <2>2, <3>1
    <3>3. history' = [history EXCEPT ![q.chat] = Append(@, m)] /\ sent <= sent'
      BY <1>1, <2>1
    <3> HIDE DEF m
    <3> QED
      BY <1>1, <2>1, <2>3, <3>2, <3>3, NextInOrder
  <2>4. CASE q.chat \notin Listed(chats)
    <3>1. \A c \in Listed(chats) : history'[c] = history[c]
      BY <1>1, <2>1, <2>4
    <3> QED
      BY <1>1, <2>1, <3>1, SameOrder
  <2> QED
    BY <2>3, <2>4
<1>8. CASE \E c \in Chats, m \in Message : Settling(c, m)
  <2> PICK c \in Chats, m \in Message : Settling(c, m)
    BY <1>8
  <2>1. /\ UNCHANGED <<chats, sent>> /\ activeStreams[c] \in Turns
        /\ UNCHANGED history \/ history' = [history EXCEPT ![c] = Append(@, m)]
    BY Settled_
  <2>2. m.turn = activeStreams[c] /\ m.role # "user"
    BY DEF Settling
  <2>3. CASE UNCHANGED history \/ c \notin Listed(chats)
    <3>1. \A d \in Listed(chats) : history'[d] = history[d]
      BY <1>1, <2>1, <2>3
    <3> QED
      BY <1>1, <2>1, <3>1, SameOrder
  <2>4. CASE ~UNCHANGED history /\ c \in Listed(chats)
    <3>1. savedStreams[c] = activeStreams[c]
      BY <2>1, <2>4 DEF AlternationInv, MemoryInv, StreamsRemembered, Turns
    <3>2. Waiting(c, m.turn)
      BY <2>1, <2>2, <2>4, <3>1 DEF AlternationInv, InFlightWaits
    <3> QED
      BY <1>1, <2>1, <2>2, <2>4, <3>2, NextInOrder
  <2> QED
    BY <2>3, <2>4
<1> QED
  BY <1>2, <1>3, <1>4, <1>5, <1>6, <1>7, <1>8 DEF Steps
-------------------------------------------------------------------------------
(* The panel, the turn in flight of the chat it shows, how many of its       *)
(* events have come and where they go to.                                    *)
Flight == activeStreams[activeChat]
Came   == source[activeChat].at
Follow == source[activeChat].state = "open"
Goes   == streaming[activeChat]

IsCall(n, k) == k \in 1..Len(script[n]) /\ script[n][k] = "tool_call"

Panel == [shown : [Turns -> [Places -> Nat]], running : [Turns -> Nat],
          replayed : BOOLEAN, wiped : BOOLEAN]

ShownOnce == ~panel.replayed => \A n \in Turns, k \in Places : panel.shown[n][k] <= 1

NotAhead == ~panel.replayed /\ Flight # 0 /\ Follow =>
    \A k \in Places : k > Came => panel.shown[Flight][k] = 0

NotDetached == ~panel.wiped /\ Flight # 0 =>
    Goes.bubble # "detached" /\ Goes.thinking # "detached"

ArrivedIsShown == ~panel.wiped /\ Flight # 0 => \A k \in 1..Len(script[Flight]) :
    k <= Came /\ script[Flight][k] \in {"delta", "tool_call"} => panel.shown[Flight][k] > 0

AnswersAreShown == ~panel.wiped => \A a \in Answered(history[activeChat]) :
    /\ \A k \in KeptByRender(script[a]) : panel.shown[a][k] > 0
    /\ panel.replayed \/ panel.running[a] = 0

(* Only the call that has come last is running.                              *)
RunningIsShown == \A n \in Turns : panel.running[n] # 0 => IsShown(n)

LastIsRunning ==
    Flight # 0 /\ IsCall(Flight, Came) /\ Came \in Goes.items /\ Goes.thinking = "shown"
    => panel.running[Flight] > 0

OnlyTheLast == ~panel.wiped /\ ~panel.replayed /\ Flight # 0 /\ Follow =>
    IF IsCall(Flight, Came)
    THEN Goes.thinking = "shown" /\ Came \in Goes.items /\ panel.running[Flight] = 1
    ELSE panel.running[Flight] = 0

PanelInv ==
    /\ panel \in Panel
    /\ ShownOnce /\ NotAhead /\ NotDetached /\ ArrivedIsShown /\ AnswersAreShown
    /\ RunningIsShown /\ LastIsRunning /\ OnlyTheLast

LEMMA NotYetAnswered ==
  ASSUME OrderInv, AlternationInv, NEW c \in Listed(chats), activeStreams[c] # 0, NEW d \in Listed(chats)
  PROVE  activeStreams[c] \notin Answered(history[d])
<1> DEFINE n == activeStreams[c]
           h == history[c]
<1>1. c \in Chats /\ d \in Chats /\ n \in Turns /\ h \in Seq(Message) /\ history[d] \in Seq(Message)
  <2>1. CoreInv
    BY DEF AlternationInv, MemoryInv
  <2>2. c \in Chats /\ d \in Chats /\ h \in Seq(Message) /\ history[d] \in Seq(Message)
    BY <2>1 DEF CoreInv, MadeOK, ChatsOK
  <2>3. n \in Turns
    BY <2>1, <2>2 DEF CoreInv, StreamsOK
  <2> QED
    BY <2>2, <2>3
<1>2. savedStreams[c] = n
  BY DEF AlternationInv, MemoryInv, StreamsRemembered
<1>3. Waiting(c, n)
  BY <1>1, <1>2 DEF AlternationInv, InFlightWaits
<1>4. Len(h) \in 1..Len(h) /\ h[Len(h)].turn = n /\ h[Len(h)].role = "user"
  BY <1>1, <1>3 DEF Waiting, User
<1> SUFFICES ASSUME NEW i \in 1..Len(history[d]), history[d][i].role = "assistant", history[d][i].turn = n
             PROVE  FALSE
  BY DEF Answered
<1>5. d = c
  BY <1>4 DEF OrderInv, OneChatEach
<1>6. i # Len(h) /\ i \in Nat /\ Len(h) \in Nat
  BY <1>1, <1>4, <1>5
<1>7. i < Len(h)
  BY <1>5, <1>6
<1>8. h[i].turn < n
  BY <1>4, <1>5, <1>7 DEF OrderInv, InOrder
<1> QED
  BY <1>1, <1>5, <1>8, TurnsAreNumbers

LEMMA AnswersAreTurns ==
  ASSUME NEW h \in Seq(Message), NEW a \in Answered(h)
  PROVE  a \in Turns /\ \E i \in 1..Len(h) : h[i].turn = a /\ h[i].role = "assistant"
BY TurnsAreNumbers DEF Answered

LEMMA PlacesAreThere ==
  ASSUME script \in [Turns -> Scripts \cup {<<>>}], NEW n \in Turns
  PROVE  /\ Len(script[n]) \in Nat /\ 1..Len(script[n]) \subseteq Places
         /\ KeptByRender(script[n]) \subseteq 1..Len(script[n])
         /\ \A k \in KeptByRender(script[n]) : script[n][k] \in {"delta", "tool_call"}
         /\ Known(n) => script[n] \in Scripts /\ IsScript(script[n])
         /\ Places \subseteq Nat
<1>1. script[n] \in Scripts \cup {<<>>} /\ Scripts \subseteq Seq(Kinds) /\ \A s \in Scripts : IsScript(s)
  BY AssistantAssumption DEF AssistantAssumption
<1>2. Len(script[n]) \in Nat /\ (script[n] = <<>> => Len(script[n]) = 0)
  <2>1. <<>> \in Seq(Kinds) /\ Len(<<>>) = 0
    OBVIOUS
  <2>2. script[n] \in Seq(Kinds)
    BY <1>1, <2>1
  <2> QED
    BY <2>1, <2>2
<1>3. 1..Len(script[n]) \subseteq Places
  <2>1. CASE script[n] \in Scripts
    BY <2>1 DEF Places
  <2>2. CASE script[n] = <<>>
    BY <1>2, <2>2
  <2> QED
    BY <1>1, <2>1, <2>2
<1>4. /\ KeptByRender(script[n]) \subseteq 1..Len(script[n])
      /\ \A k \in KeptByRender(script[n]) : script[n][k] \in {"delta", "tool_call"}
  BY DEF KeptByRender
<1>5. Places \subseteq Nat
  <2> SUFFICES ASSUME NEW s \in Scripts, NEW k \in 1..Len(s) PROVE k \in Nat
    BY DEF Places
  <2>1. s \in Seq(Kinds)
    BY <1>1
  <2> QED
    BY <2>1
<1> QED
  BY <1>1, <1>2, <1>3, <1>4, <1>5 DEF Known

-------------------------------------------------------------------------------
(* What a step does to the panel: it renders the panel anew, leaves it as it *)
(* is, connects the stream it follows, brings the next event or its end.     *)
Rendering ==
    /\ \E w \in BOOLEAN : panel' = [RenderHistory(history'[activeChat']) EXCEPT !.wiped = w]
    /\ UNCHANGED script
    /\ Flight' # 0 => Goes'.thinking # "shown" /\ (panel'.wiped \/ (Came' = 0 /\ Goes' = NoState))

Standing ==
    /\ UNCHANGED <<panel, activeChat>>
    /\ Answered(history'[activeChat]) = Answered(history[activeChat])
    /\ \A n \in Turns : Known(n) => script'[n] = script[n]
    /\ \/ Flight' = 0
       \/ Came' = 0 /\ ~Follow' /\ Goes' = NoState
       \/ Flight' = Flight /\ Came' = Came /\ Goes' = Goes /\ (Follow' => Follow)

Connecting ==
    /\ UNCHANGED <<activeChat, history, script>>
    /\ panel' = [panel EXCEPT !.replayed = @ \/ IsShown(Flight)]
    /\ Flight # 0 /\ Flight' = Flight /\ Goes' = Goes /\ Came' = 0

Coming ==
    /\ UNCHANGED <<activeChat, history, script>>
    /\ Flight # 0 /\ Flight' = Flight /\ Follow
    /\ Came' = Came + 1 /\ Came' \in 1..Len(script[Flight])
    /\ Delta(activeChat) \/ MessageEnd(activeChat) \/ ToolCall(activeChat)
       \/ ToolResult(activeChat) \/ Usage(activeChat)

Ending ==
    /\ UNCHANGED <<panel, activeChat, script>>
    /\ Flight # 0 /\ Flight' = 0 /\ Follow
    /\ Came + 1 \in 1..Len(script[Flight]) /\ script[Flight][Came + 1] = "done"
    /\ Answered(history'[activeChat]) = Answered(history[activeChat]) \cup {Flight}

PanelSteps == Rendering \/ Standing \/ Connecting \/ Coming \/ Ending

(* What the invariants say of the turn in flight and of the answers.         *)
PanelContext ==
    /\ script \in [Turns -> Scripts \cup {<<>>}]
    /\ Flight \in {0} \cup Turns /\ Came \in Nat /\ Goes \in Streaming
    /\ Flight # 0 => Known(Flight) /\ Flight \notin Answered(history[activeChat])
    /\ Answered(history[activeChat]) \subseteq Turns
    /\ \A a \in Answered(history[activeChat]) : Known(a)

LEMMA ContextOfPanel == OrderInv /\ AlternationInv /\ UsageInv => PanelContext
<1> SUFFICES ASSUME OrderInv, AlternationInv, UsageInv PROVE PanelContext
  OBVIOUS
<1>1. CoreInv /\ KnownFirst
  BY DEF UsageInv
<1>2. activeChat \in Listed(chats) /\ activeChat \in Chats /\ history[activeChat] \in Seq(Message)
  BY <1>1 DEF CoreInv, ChatsOK, MadeOK
<1>3. /\ script \in [Turns -> Scripts \cup {<<>>}]
      /\ Flight \in {0} \cup Turns /\ Came \in Nat /\ Goes \in Streaming
  BY <1>1, <1>2 DEF CoreInv, PostsOK, StreamsOK, Source, Flight, Came, Goes
<1>4. Flight # 0 => Known(Flight) /\ Flight \notin Answered(history[activeChat])
  BY <1>1, <1>2, NotYetAnswered DEF KnownFirst, Flight
<1>5. \A a \in Answered(history[activeChat]) : a \in Turns /\ Known(a)
  BY <1>1, <1>2, AnswersAreTurns DEF KnownFirst
<1> QED
  BY <1>3, <1>4, <1>5 DEF PanelContext

LEMMA RenderedPanel ==
  ASSUME PanelContext', Rendering
  PROVE  PanelInv'
<1> DEFINE A == Answered(history'[activeChat'])
<1>1. PICK w \in BOOLEAN : panel' = [RenderHistory(history'[activeChat']) EXCEPT !.wiped = w]
  BY DEF Rendering
<1>2. panel' = [shown |-> [n \in Turns |-> [k \in Places |-> IF n \in A /\ k \in KeptByRender(script[n]) THEN 1 ELSE 0]],
                running |-> Nobody, replayed |-> FALSE, wiped |-> w]
  BY <1>1 DEF RenderHistory
<1>3. /\ \A n \in Turns, k \in Places : panel'.shown[n][k] = IF n \in A /\ k \in KeptByRender(script[n]) THEN 1 ELSE 0
      /\ panel'.running = Nobody /\ ~panel'.replayed
  BY <1>2
<1>4. panel' \in Panel /\ \A n \in Turns : panel'.running[n] = 0
  <2>1. Nobody \in [Turns -> Nat] /\ \A n \in Turns : Nobody[n] = 0
    BY DEF Nobody
  <2>2. [n \in Turns |-> [k \in Places |-> IF n \in A /\ k \in KeptByRender(script[n]) THEN 1 ELSE 0]]
        \in [Turns -> [Places -> Nat]]
    OBVIOUS
  <2> QED
    BY <1>2, <1>3, <2>1, <2>2 DEF Panel
<1>5. /\ script' = script /\ script \in [Turns -> Scripts \cup {<<>>}]
      /\ Flight' # 0 => Flight' \notin A /\ Flight' \in Turns
      /\ A \subseteq Turns
      /\ Flight' # 0 => Goes'.thinking # "shown" /\ (panel'.wiped \/ (Came' = 0 /\ Goes' = NoState))
  BY DEF Rendering, PanelContext
<1>6. \A n \in Turns, k \in Places : panel'.shown[n][k] \in {0, 1} /\ (n \notin A => panel'.shown[n][k] = 0)
  BY <1>3
<1>7. ShownOnce' /\ NotAhead'
  BY <1>5, <1>6 DEF ShownOnce, NotAhead
<1>8. NotDetached' /\ ArrivedIsShown'
  <2>1. NoState.bubble # "detached" /\ NoState.thinking # "detached"
    BY DEF NoState
  <2>2. \A n \in Turns : \A k \in 1..Len(script[n]) : ~(k <= 0)
    BY <1>5, PlacesAreThere
  <2> QED
    BY <1>5, <2>1, <2>2 DEF NotDetached, ArrivedIsShown
<1>9. AnswersAreShown'
  <2>1. ASSUME NEW a \in A, NEW k \in KeptByRender(script[a]) PROVE panel'.shown[a][k] > 0
    <3>1. a \in Turns /\ k \in Places
      BY <1>5, PlacesAreThere
    <3> QED
      BY <1>3, <3>1
  <2>2. \A a \in A : panel'.running[a] = 0
    BY <1>4, <1>5
  <2> QED
    BY <1>5, <2>1, <2>2 DEF AnswersAreShown
<1>10. RunningIsShown' /\ LastIsRunning'
  BY <1>4, <1>5 DEF RunningIsShown, LastIsRunning
<1>11. OnlyTheLast'
  <2>1. Flight' # 0 /\ ~panel'.wiped => ~IsCall(Flight, Came)'
    BY <1>5, PlacesAreThere DEF IsCall
  <2> QED
    BY <1>4, <1>5, <2>1 DEF OnlyTheLast
<1> QED
  BY <1>4, <1>7, <1>8, <1>9, <1>10, <1>11 DEF PanelInv

LEMMA StandingPanel ==
  ASSUME PanelContext, PanelContext', PanelInv, Standing
  PROVE  PanelInv'
<1> DEFINE A == Answered(history[activeChat])
<1>1. /\ panel' = panel /\ activeChat' = activeChat /\ Answered(history[activeChat])' = A
      /\ \A n \in Turns : Known(n) => script'[n] = script[n]
      /\ Flight \in {0} \cup Turns /\ Flight' \in {0} \cup Turns
      /\ Flight # 0 => Known(Flight)
      /\ A \subseteq Turns /\ \A a \in A : Known(a)
      /\ script' \in [Turns -> Scripts \cup {<<>>}]
  BY DEF Standing, PanelContext
<1>2. panel' \in Panel /\ ShownOnce' /\ RunningIsShown'
  BY <1>1 DEF PanelInv, ShownOnce, RunningIsShown, IsShown
<1>3. AnswersAreShown'
  BY <1>1 DEF PanelInv, AnswersAreShown
<1>4. CASE Flight' = 0
  BY <1>2, <1>3, <1>4 DEF PanelInv, NotAhead, NotDetached, ArrivedIsShown, LastIsRunning, OnlyTheLast
<1>5. CASE Flight' # 0 /\ Came' = 0 /\ ~Follow' /\ Goes' = NoState
  <2>1. NotAhead' /\ OnlyTheLast'
    BY <1>5 DEF NotAhead, OnlyTheLast
  <2>2. NotDetached' /\ LastIsRunning'
    BY <1>5 DEF NotDetached, LastIsRunning, NoState
  <2>3. Len(script'[Flight']) \in Nat
    BY <1>1, <1>5, PlacesAreThere
  <2>4. ArrivedIsShown'
    BY <1>5, <2>3 DEF ArrivedIsShown
  <2> QED
    BY <1>2, <1>3, <2>1, <2>2, <2>4 DEF PanelInv
<1>6. CASE Flight' # 0 /\ Flight' = Flight /\ Came' = Came /\ Goes' = Goes /\ (Follow' => Follow)
  <2>1. script'[Flight'] = script[Flight]
    BY <1>1, <1>6
  <2>2. NotAhead' /\ NotDetached'
    BY <1>1, <1>6 DEF PanelInv, NotAhead, NotDetached
  <2>3. ArrivedIsShown'
    BY <1>1, <1>6, <2>1 DEF PanelInv, ArrivedIsShown
  <2>4. LastIsRunning' /\ OnlyTheLast'
    BY <1>1, <1>6, <2>1 DEF PanelInv, LastIsRunning, OnlyTheLast, IsCall
  <2> QED
    BY <1>2, <1>3, <2>2, <2>3, <2>4 DEF PanelInv
<1> QED
  BY <1>4, <1>5, <1>6 DEF Standing

LEMMA ConnectingPanel ==
  ASSUME PanelContext, PanelContext', PanelInv, Connecting
  PROVE  PanelInv'
<1>1. /\ activeChat' = activeChat /\ history' = history /\ script' = script
      /\ Flight' = Flight /\ Goes' = Goes /\ Came' = 0 /\ Flight \in Turns
      /\ \A a \in Answered(history[activeChat]) : a \in Turns
  BY DEF Connecting, PanelContext
<1>2. /\ panel' \in Panel /\ panel'.shown = panel.shown /\ panel'.running = panel.running
      /\ panel'.wiped = panel.wiped /\ panel'.replayed = (panel.replayed \/ IsShown(Flight))
  <2>1. panel' = [panel EXCEPT !.replayed = @ \/ IsShown(Flight)] /\ panel \in Panel
    BY DEF Connecting, PanelInv
  <2>2. IsShown(Flight) \in BOOLEAN
    BY DEF IsShown
  <2> HIDE DEF IsShown
  <2> QED
    BY <2>1, <2>2 DEF Panel
<1>3. ~panel'.replayed => ~panel.replayed /\ \A k \in Places : panel.shown[Flight][k] = 0
  BY <1>1, <1>2 DEF IsShown, PanelInv, Panel
<1>4. ~IsCall(Flight, 0) /\ \A k \in 1..Len(script[Flight]) : ~(k <= 0)
  BY <1>1, PlacesAreThere DEF IsCall, PanelContext
<1>5. ShownOnce' /\ NotAhead' /\ RunningIsShown'
  BY <1>1, <1>2, <1>3 DEF PanelInv, ShownOnce, NotAhead, RunningIsShown, IsShown
<1>6. NotDetached' /\ ArrivedIsShown'
  BY <1>1, <1>2, <1>4 DEF PanelInv, NotDetached, ArrivedIsShown
<1>7. AnswersAreShown'
  BY <1>1, <1>2, <1>3 DEF PanelInv, AnswersAreShown
<1>8. LastIsRunning'
  <2>1. ~IsCall(Flight, Came)'
    BY <1>1, <1>4 DEF IsCall
  <2> QED
    BY <2>1 DEF LastIsRunning
<1>9. OnlyTheLast'
  <2>1. ~IsCall(Flight, Came)'
    BY <1>1, <1>4 DEF IsCall
  <2>2. ~panel'.replayed => panel.running[Flight] = 0
    <3>1. panel.running[Flight] # 0 => IsShown(Flight)
      BY <1>1 DEF PanelInv, RunningIsShown
    <3> QED
      BY <1>2, <3>1
  <2> QED
    BY <1>1, <1>2, <2>1, <2>2 DEF OnlyTheLast
<1> QED
  BY <1>2, <1>5, <1>6, <1>7, <1>8, <1>9 DEF PanelInv

LEMMA EndingPanel ==
  ASSUME PanelContext, PanelContext', PanelInv, Ending
  PROVE  PanelInv'
<1> DEFINE n == Flight
           A == Answered(history[activeChat])
           s == script[n]
<1>1. /\ panel' = panel /\ activeChat' = activeChat /\ script' = script /\ Flight' = 0
      /\ n \in Turns /\ Known(n) /\ Came \in Nat /\ Follow
      /\ Came + 1 \in 1..Len(s) /\ s[Came + 1] = "done"
      /\ Answered(history[activeChat])' = A \cup {n}
  BY DEF Ending, PanelContext
<1>2. /\ Len(s) \in Nat /\ IsScript(s) /\ KeptByRender(s) \subseteq 1..Len(s)
      /\ \A k \in KeptByRender(s) : s[k] \in {"delta", "tool_call"}
  BY <1>1, PlacesAreThere DEF PanelContext
<1>3. Came + 1 = Len(s)
  BY <1>1, <1>2 DEF IsScript
<1>4. ~IsCall(n, Came)
  <2>1. SUFFICES ASSUME Came \in 1..Len(s) - 1, s[Came] = "tool_call" PROVE FALSE
    BY <1>1, <1>3 DEF IsCall
  <2>2. s[Came + 1] = "tool_result"
    BY <1>2, <2>1 DEF IsScript
  <2> QED
    BY <1>1, <2>2
<1>5. panel' \in Panel /\ ShownOnce' /\ RunningIsShown'
  BY <1>1 DEF PanelInv, ShownOnce, RunningIsShown, IsShown
<1>6. NotAhead' /\ NotDetached' /\ ArrivedIsShown' /\ LastIsRunning' /\ OnlyTheLast'
  BY <1>1 DEF NotAhead, NotDetached, ArrivedIsShown, LastIsRunning, OnlyTheLast
<1>7. AnswersAreShown'
  <2>1. ASSUME ~panel.wiped, NEW k \in KeptByRender(s) PROVE panel.shown[n][k] > 0
    <3>1. k \in 1..Len(s) /\ s[k] \in {"delta", "tool_call"} /\ k # Len(s)
      BY <1>1, <1>2, <1>3
    <3>2. k <= Came
      BY <1>1, <1>2, <1>3, <3>1
    <3> QED
      BY <1>1, <2>1, <3>1, <3>2 DEF PanelInv, ArrivedIsShown, Turns
  <2>2. ~panel.wiped => panel.replayed \/ panel.running[n] = 0
    BY <1>1, <1>4 DEF PanelInv, OnlyTheLast, Turns
  <2>3. ~panel.wiped => \A a \in A : /\ \A k \in KeptByRender(script[a]) : panel.shown[a][k] > 0
                                     /\ panel.replayed \/ panel.running[a] = 0
    BY DEF PanelInv, AnswersAreShown
  <2> QED
    BY <1>1, <2>1, <2>2, <2>3 DEF AnswersAreShown
<1> QED
  BY <1>5, <1>6, <1>7 DEF PanelInv

(* One event touches one place of its turn, and what runs of it.             *)
Touched(n, k, x, y) ==
    /\ panel' \in [shown : [Turns -> [Places -> Nat]], running : [Turns -> Int],
                   replayed : BOOLEAN, wiped : BOOLEAN]
    /\ panel'.replayed = panel.replayed /\ panel'.wiped = panel.wiped
    /\ panel'.shown[n][k] = x /\ panel'.running[n] = y
    /\ \A m \in Turns : m # n => panel'.running[m] = panel.running[m]
    /\ \A m \in Turns, j \in Places : m # n \/ j # k => panel'.shown[m][j] = panel.shown[m][j]

LEMMA Touching ==
  ASSUME panel \in Panel, NEW n \in Turns, NEW k \in Places, NEW x \in Nat, NEW y \in Int,
         \/ panel' = [panel EXCEPT !.shown[n][k] = x, !.running[n] = y]
         \/ panel' = [panel EXCEPT !.shown[n][k] = x] /\ y = panel.running[n]
         \/ panel' = [panel EXCEPT !.running[n] = y] /\ x = panel.shown[n][k]
         \/ panel' = panel /\ x = panel.shown[n][k] /\ y = panel.running[n]
  PROVE  Touched(n, k, x, y)
<1> DEFINE sh == [panel.shown EXCEPT ![n] = [panel.shown[n] EXCEPT ![k] = x]]
           ru == [panel.running EXCEPT ![n] = y]
<1>1. /\ panel.shown \in [Turns -> [Places -> Nat]] /\ panel.running \in [Turns -> Nat]
      /\ panel.replayed \in BOOLEAN /\ panel.wiped \in BOOLEAN
      /\ panel = [shown |-> panel.shown, running |-> panel.running,
                  replayed |-> panel.replayed, wiped |-> panel.wiped]
  BY DEF Panel
<1>2. panel.shown[n] \in [Places -> Nat]
  BY <1>1
<1>3. /\ sh \in [Turns -> [Places -> Nat]] /\ sh[n][k] = x
      /\ \A m \in Turns, j \in Places : m # n \/ j # k => sh[m][j] = panel.shown[m][j]
      /\ x = panel.shown[n][k] => sh = panel.shown
  BY <1>1, <1>2
<1>4. /\ ru \in [Turns -> Int] /\ ru[n] = y /\ \A m \in Turns : m # n => ru[m] = panel.running[m]
      /\ y = panel.running[n] => ru = panel.running
  BY <1>1
<1>5. panel' = [shown |-> sh, running |-> ru, replayed |-> panel.replayed, wiped |-> panel.wiped]
  <2>1. CASE panel' = [panel EXCEPT !.shown[n][k] = x, !.running[n] = y]
    <3>1. panel' = [panel EXCEPT !.shown = sh, !.running = ru]
      BY <2>1
    <3> HIDE DEF sh, ru
    <3> QED
      BY <1>1, <3>1
  <2>2. CASE panel' = [panel EXCEPT !.shown[n][k] = x] /\ y = panel.running[n]
    <3>1. panel' = [panel EXCEPT !.shown = sh] /\ ru = panel.running
      BY <1>4, <2>2
    <3> HIDE DEF sh, ru
    <3> QED
      BY <1>1, <3>1
  <2>3. CASE panel' = [panel EXCEPT !.running[n] = y] /\ x = panel.shown[n][k]
    <3>1. panel' = [panel EXCEPT !.running = ru] /\ sh = panel.shown
      BY <1>3, <2>3
    <3> HIDE DEF sh, ru
    <3> QED
      BY <1>1, <3>1
  <2>4. CASE panel' = panel /\ x = panel.shown[n][k] /\ y = panel.running[n]
    <3>1. sh = panel.shown /\ ru = panel.running
      BY <1>3, <1>4, <2>4
    <3> HIDE DEF sh, ru
    <3> QED
      BY <1>1, <2>4, <3>1
  <2> QED
    BY <2>1, <2>2, <2>3, <2>4
<1> HIDE DEF sh, ru
<1> QED
  BY <1>1, <1>3, <1>4, <1>5 DEF Touched

(* What the events do to the panel: what is shown and where the next one     *)
(* goes, for an event of some kind.                                          *)
Brings(n, k, kind, x, y) ==
    /\ Touched(n, k, x, y)
    /\ x \in {panel.shown[n][k], panel.shown[n][k] + 1}
    /\ Goes.bubble # "detached" /\ Goes.thinking # "detached" =>
         /\ Goes'.bubble # "detached" /\ Goes'.thinking # "detached"
         /\ kind \in {"delta", "tool_call"} => x = panel.shown[n][k] + 1
    /\ kind = "tool_call" =>
         /\ k \in Goes'.items /\ Goes'.thinking # "none"
         /\ IF Goes'.thinking = "shown"
            THEN x = panel.shown[n][k] + 1 /\ y = panel.running[n] + 1
            ELSE y = panel.running[n]
    /\ kind = "tool_result" =>
         y = IF k - 1 \in Goes.items /\ Goes.thinking = "shown"
             THEN panel.running[n] - 1 ELSE panel.running[n]
    /\ kind \notin {"tool_call", "tool_result"} => y = panel.running[n]

LEMMA EventsOnThePanel ==
  ASSUME CoreInv, PanelContext, panel \in Panel, Coming,
         NEW n, n = Flight, NEW k, k = Came + 1
  PROVE  \E x \in Nat, y \in Int : Brings(n, k, script[n][k], x, y)
<1> DEFINE now == panel.shown[n][k]
           runs == panel.running[n]
<1>1. /\ n \in Turns /\ k \in 1..Len(script[n]) /\ k \in Places
      /\ k - 1 = Came /\ Came = source[activeChat].at /\ n = activeStreams[activeChat]
  <2>1. n \in Turns /\ k \in 1..Len(script[n]) /\ k - 1 = Came
    BY DEF Coming, PanelContext
  <2> QED
    BY <2>1, PlacesAreThere DEF PanelContext, Came, Flight
<1>2. now \in Nat /\ runs \in Nat /\ runs \in Int /\ now + 1 \in Nat /\ runs + 1 \in Int /\ runs - 1 \in Int
  <2>1. panel.shown \in [Turns -> [Places -> Nat]] /\ panel.running \in [Turns -> Nat]
    BY DEF Panel
  <2>2. now \in Nat /\ runs \in Nat
    BY <1>1, <2>1
  <2> HIDE DEF now, runs
  <2> QED
    BY <2>2
<1> SUFFICES ASSUME NEW c \in Chats, c = activeChat
             PROVE  \E x \in Nat, y \in Int : Brings(n, k, script[n][k], x, y)
  BY DEF CoreInv, ChatsOK, MadeOK
<1>3. /\ streaming \in [Chats -> Streaming] /\ Goes = streaming[c] /\ streaming[c] \in Streaming
      /\ activeChat' = c /\ Goes' = streaming'[c]
  BY DEF CoreInv, StreamsOK, Goes, Coming
<1>4. Stream(c) = n /\ source[c].at + 1 = k /\ source[c].at = k - 1
  BY <1>1 DEF Stream
<1>5. CASE Delta(c)
  <2> DEFINE e == Opens(streaming[c].bubble)
             x == IF e = "shown" THEN now + 1 ELSE now
  <2>1. /\ script[n][k] = "delta" /\ streaming' = [streaming EXCEPT ![c].bubble = e]
        /\ panel' = [panel EXCEPT !.shown[n][k] = IF e = "shown" THEN @ + 1 ELSE @]
    BY <1>1, <1>4, <1>5 DEF Delta, Event, ShowIn
  <2>2. panel' = [panel EXCEPT !.shown[n][k] = x] /\ x \in Nat
    BY <1>2, <2>1
  <2>3. Touched(n, k, x, runs)
    <3> HIDE DEF x
    <3> QED
      BY <1>1, <1>2, <2>2, Touching
  <2>4. Goes'.bubble = e /\ Goes'.thinking = Goes.thinking
    BY <1>3, <2>1 DEF Streaming
  <2>5. Goes.bubble # "detached" => e = "shown"
    BY <1>3 DEF Opens, Streaming, Element
  <2>6. Brings(n, k, script[n][k], x, runs)
    BY <2>1, <2>3, <2>4, <2>5 DEF Brings
  <2> QED
    BY <1>2, <2>2, <2>6
<1>6. CASE MessageEnd(c)
  <2>1. script[n][k] = "message_end" /\ streaming' = [streaming EXCEPT ![c].bubble = "none"] /\ panel' = panel
    BY <1>1, <1>4, <1>6 DEF MessageEnd, Event
  <2>2. Touched(n, k, now, runs)
    BY <1>1, <1>2, <2>1, Touching
  <2>3. Goes'.bubble = "none" /\ Goes'.thinking = Goes.thinking
    BY <1>3, <2>1 DEF Streaming
  <2>4. Brings(n, k, script[n][k], now, runs)
    BY <2>1, <2>2, <2>3 DEF Brings
  <2> QED
    BY <1>2, <2>4
<1>7. CASE ToolCall(c)
  <2> DEFINE e == Opens(streaming[c].thinking)
             b == IF streaming[c].thinking = "none" THEN "none" ELSE streaming[c].bubble
             x == IF e = "shown" THEN now + 1 ELSE now
             y == IF e = "shown" THEN runs + 1 ELSE runs
  <2>1. /\ script[n][k] = "tool_call"
        /\ streaming' = [streaming EXCEPT ![c].thinking = e, ![c].items = @ \cup {k}, ![c].bubble = b]
        /\ panel' = [panel EXCEPT !.shown[n][k] = IF e = "shown" THEN @ + 1 ELSE @,
                                  !.running[n] = IF e = "shown" THEN @ + 1 ELSE @]
    BY <1>1, <1>4, <1>7 DEF ToolCall, Event
  <2>2. panel' = [panel EXCEPT !.shown[n][k] = x, !.running[n] = y] /\ x \in Nat /\ y \in Int
    BY <1>2, <2>1
  <2>3. Touched(n, k, x, y)
    <3> HIDE DEF x, y
    <3> QED
      BY <1>1, <1>2, <2>2, Touching
  <2>4. Goes'.bubble = b /\ Goes'.thinking = e /\ k \in Goes'.items
    <3> HIDE DEF b, e
    <3> QED
      BY <1>3, <2>1 DEF Streaming
  <2>5. (Goes.thinking # "detached" => e = "shown") /\ e # "none"
    BY <1>3 DEF Opens, Streaming, Element
  <2>6. Brings(n, k, script[n][k], x, y)
    <3>1. (Goes.bubble # "detached" => b # "detached") /\ (e = "shown" => x = now + 1 /\ y = runs + 1)
          /\ (e # "shown" => y = runs) /\ x \in {now, now + 1}
      BY <1>3
    <3> HIDE DEF b, e, x, y
    <3> QED
      BY <2>1, <2>3, <2>4, <2>5, <3>1 DEF Brings
  <2> QED
    BY <2>2, <2>6
<1>8. CASE ToolResult(c)
  <2> DEFINE y == IF k - 1 \in streaming[c].items /\ streaming[c].thinking = "shown"
                  THEN runs - 1 ELSE runs
  <2>1. /\ script[n][k] = "tool_result" /\ streaming' = streaming
        /\ panel' = [panel EXCEPT !.running[n] =
             IF c = activeChat /\ k - 1 \in streaming[c].items /\ streaming[c].thinking = "shown"
             THEN @ - 1 ELSE @]
    BY <1>1, <1>4, <1>8 DEF ToolResult, Event
  <2>2. panel' = [panel EXCEPT !.running[n] = y] /\ y \in Int
    BY <1>2, <2>1
  <2>3. Touched(n, k, now, y)
    <3> HIDE DEF y
    <3> QED
      BY <1>1, <1>2, <2>2, Touching
  <2>4. Brings(n, k, script[n][k], now, y)
    BY <1>3, <2>1, <2>3 DEF Brings
  <2> QED
    BY <1>2, <2>2, <2>4
<1>9. CASE Usage(c)
  <2>1. script[n][k] = "usage" /\ streaming' = [streaming EXCEPT ![c].tokens = @ + 1] /\ panel' = panel
    BY <1>1, <1>4, <1>9 DEF Usage, Event
  <2>2. Touched(n, k, now, runs)
    BY <1>1, <1>2, <2>1, Touching
  <2>3. Goes'.bubble = Goes.bubble /\ Goes'.thinking = Goes.thinking
    BY <1>3, <2>1 DEF Streaming
  <2>4. Brings(n, k, script[n][k], now, runs)
    BY <2>1, <2>2, <2>3 DEF Brings
  <2> QED
    BY <1>2, <2>4
<1> QED
  BY <1>5, <1>6, <1>7, <1>8, <1>9 DEF Coming

LEMMA ComingPanel ==
  ASSUME CoreInv, PanelContext, PanelContext', PanelInv, Coming
  PROVE  PanelInv'
<1> SUFFICES ASSUME NEW n, n = Flight, NEW k, k = Came + 1 PROVE PanelInv'
  OBVIOUS
<1> DEFINE A == Answered(history[activeChat])
           s == script[n]
           kind == script[n][k]
<1>1. PICK x \in Nat, y \in Int : Brings(n, k, kind, x, y)
  BY EventsOnThePanel DEF PanelInv
<1>2. /\ activeChat' = activeChat /\ history' = history /\ script' = script
      /\ n \in Turns /\ n # 0 /\ Flight' = n /\ Came' = k /\ Came = k - 1 /\ Follow
      /\ Came \in Nat /\ k \in 1..Len(s) /\ A \subseteq Turns /\ n \notin A
  BY TurnsAreNumbers DEF Coming, PanelContext
<1>3. /\ Len(s) \in Nat /\ IsScript(s) /\ k \in Places /\ Places \subseteq Nat
      /\ \A a \in A : KeptByRender(script[a]) \subseteq Places
  BY <1>2, PlacesAreThere DEF PanelContext
<1>4. /\ Touched(n, k, x, y) /\ x \in {panel.shown[n][k], panel.shown[n][k] + 1}
      /\ panel.shown \in [Turns -> [Places -> Nat]] /\ panel.running \in [Turns -> Nat]
  BY <1>1 DEF Brings, PanelInv, Panel
<1>5. kind = "tool_result" <=> IsCall(n, Came)
  <2>1. CASE k = 1
    <3>1. ~IsCall(n, Came)
      BY <1>2, <1>3, <2>1 DEF IsCall
    <3> QED
      BY <1>3, <2>1, <3>1 DEF IsScript
  <2>2. CASE k # 1
    <3>1. Came \in 1..Len(s) - 1 /\ Came + 1 = k
      BY <1>2, <1>3, <2>2
    <3>2. s[Came] = "tool_call" <=> s[Came + 1] = "tool_result"
      BY <1>3, <3>1 DEF IsScript
    <3> QED
      BY <1>2, <1>3, <3>1, <3>2 DEF IsCall
  <2> QED
    BY <2>1, <2>2
<1>6. IsCall(Flight, Came)' <=> kind = "tool_call"
  BY <1>2 DEF IsCall
<1>7. panel' \in Panel
  <2>1. y \in Nat
    <3>1. CASE kind = "tool_result"
      <4>1. IsCall(n, Came)
        BY <1>5, <3>1
      <4>2. Came \in Goes.items /\ Goes.thinking = "shown" => panel.running[n] > 0
        BY <1>2, <4>1 DEF PanelInv, LastIsRunning
      <4> QED
        BY <1>1, <1>2, <1>4, <3>1, <4>2 DEF Brings
    <3>2. CASE kind = "tool_call"
      BY <1>1, <1>2, <1>4, <3>2 DEF Brings
    <3>3. CASE kind \notin {"tool_call", "tool_result"}
      BY <1>1, <1>2, <1>4, <3>3 DEF Brings
    <3> QED
      BY <3>1, <3>2, <3>3
  <2>2. \A m \in Turns : panel'.running[m] \in Nat
    BY <1>4, <2>1 DEF Touched
  <2> QED
    BY <1>4, <2>2 DEF Touched, Panel
<1>8. /\ \A m \in Turns, j \in Places : panel'.shown[m][j] >= panel.shown[m][j]
      /\ panel'.replayed = panel.replayed /\ panel'.wiped = panel.wiped
  BY <1>4 DEF Touched
<1>9. ShownOnce' /\ NotAhead'
  <2>1. CASE panel.replayed
    BY <1>8, <2>1 DEF ShownOnce, NotAhead
  <2>2. CASE ~panel.replayed
    <3>1. panel.shown[n][k] = 0 /\ \A j \in Places : j > k => panel.shown[n][j] = 0
      <4>1. \A j \in Places : j > Came => panel.shown[n][j] = 0
        BY <1>2, <2>2 DEF PanelInv, NotAhead
      <4>2. k > Came /\ \A j \in Places : j > k => j > Came
        BY <1>2, <1>3
      <4> QED
        BY <1>3, <4>1, <4>2
    <3>2. x <= 1
      BY <1>4, <3>1
    <3>3. ShownOnce'
      BY <1>4, <2>2, <3>2 DEF PanelInv, ShownOnce, Touched
    <3>4. NotAhead'
      <4>1. \A j \in Places : j > k => j # k /\ panel'.shown[n][j] = 0
        BY <1>2, <1>3, <1>4, <3>1 DEF Touched
      <4> QED
        BY <1>2, <4>1 DEF NotAhead
    <3> QED
      BY <3>3, <3>4
  <2> QED
    BY <2>1, <2>2
<1>10. NotDetached'
  BY <1>1, <1>2, <1>8 DEF PanelInv, NotDetached, Brings
<1>11. ArrivedIsShown'
  <2> SUFFICES ASSUME ~panel.wiped, NEW j \in 1..Len(s), j <= k, s[j] \in {"delta", "tool_call"}
               PROVE  panel'.shown[n][j] > 0
    BY <1>2, <1>8 DEF ArrivedIsShown
  <2>1. CASE j = k
    <3>1. x = panel.shown[n][k] + 1
      BY <1>1, <1>2, <2>1 DEF PanelInv, NotDetached, Brings
    <3> QED
      BY <1>2, <1>3, <1>4, <2>1, <3>1 DEF Touched
  <2>2. CASE j # k
    <3>1. j <= Came
      BY <1>2, <1>3, <2>2
    <3>2. panel.shown[n][j] > 0 /\ j \in Places
      BY <1>2, <3>1, PlacesAreThere DEF PanelInv, ArrivedIsShown, PanelContext
    <3> QED
      BY <1>2, <1>4, <2>2, <3>2 DEF Touched
  <2> QED
    BY <2>1, <2>2
<1>12. AnswersAreShown'
  <2> SUFFICES ASSUME ~panel.wiped, NEW a \in A
               PROVE  /\ \A j \in KeptByRender(script[a]) : panel'.shown[a][j] > 0
                      /\ panel.replayed \/ panel'.running[a] = 0
    BY <1>2, <1>8 DEF AnswersAreShown
  <2>1. a \in Turns /\ a # n
    BY <1>2
  <2>2. /\ \A j \in KeptByRender(script[a]) : panel.shown[a][j] > 0
        /\ panel.replayed \/ panel.running[a] = 0
    BY DEF PanelInv, AnswersAreShown
  <2> QED
    BY <1>3, <1>4, <2>1, <2>2 DEF Touched
<1>13. RunningIsShown'
  <2> SUFFICES ASSUME NEW m \in Turns, panel'.running[m] # 0
               PROVE  \E j \in Places : panel'.shown[m][j] > 0
    BY DEF RunningIsShown, IsShown
  <2>1. CASE panel.running[m] # 0
    <3>1. PICK j \in Places : panel.shown[m][j] > 0
      BY <2>1 DEF PanelInv, RunningIsShown, IsShown
    <3>2. panel'.shown[m][j] \in Nat /\ panel.shown[m][j] \in Nat
      BY <1>4 DEF Touched
    <3>3. panel'.shown[m][j] > 0
      BY <1>8, <3>1, <3>2
    <3> QED
      BY <3>3
  <2>2. CASE panel.running[m] = 0
    <3>1. m = n /\ y # 0 /\ panel.running[n] = 0
      BY <1>4, <2>2 DEF Touched
    <3>2. kind # "tool_result"
      <4>1. SUFFICES ASSUME kind = "tool_result" PROVE y = 0
        BY <3>1
      <4>2. Came \in Goes.items /\ Goes.thinking = "shown" => panel.running[n] > 0
        BY <1>2, <1>5, <4>1 DEF PanelInv, LastIsRunning
      <4> QED
        BY <1>1, <1>2, <3>1, <4>1, <4>2 DEF Brings
    <3>3. kind = "tool_call" /\ x = panel.shown[n][k] + 1
      BY <1>1, <3>1, <3>2 DEF Brings
    <3>4. panel'.shown[n][k] > 0
      BY <1>2, <1>3, <1>4, <3>3 DEF Touched
    <3> QED
      BY <1>3, <3>1, <3>4
  <2> QED
    BY <2>1, <2>2
<1>14. LastIsRunning'
  <2> SUFFICES ASSUME kind = "tool_call", Goes'.thinking = "shown" PROVE panel'.running[n] > 0
    BY <1>2, <1>6 DEF LastIsRunning
  <2>1. y = panel.running[n] + 1 /\ panel.running[n] \in Nat
    BY <1>1, <1>2, <1>4 DEF Brings
  <2> QED
    BY <1>4, <2>1 DEF Touched
<1>15. OnlyTheLast'
  <2> SUFFICES ASSUME ~panel.wiped, ~panel.replayed
               PROVE  IF kind = "tool_call"
                      THEN Goes'.thinking = "shown" /\ k \in Goes'.items /\ y = 1
                      ELSE y = 0
    BY <1>2, <1>4, <1>6, <1>8 DEF OnlyTheLast, Touched
  <2>1. IF IsCall(n, Came)
        THEN Goes.thinking = "shown" /\ Came \in Goes.items /\ panel.running[n] = 1
        ELSE panel.running[n] = 0
    BY <1>2 DEF PanelInv, OnlyTheLast
  <2>2. CASE kind = "tool_call"
    <3>1. panel.running[n] = 0
      BY <1>5, <2>1, <2>2
    <3>2. Goes'.thinking \in {"none", "shown", "detached"}
      BY DEF PanelContext, Streaming, Element
    <3>3. Goes'.thinking = "shown"
      BY <1>1, <1>2, <2>2, <3>2 DEF PanelInv, NotDetached, Brings
    <3> QED
      BY <1>1, <2>2, <3>1, <3>3 DEF Brings
  <2>3. CASE kind = "tool_result"
    BY <1>1, <1>2, <1>5, <2>1, <2>3 DEF Brings
  <2>4. CASE kind \notin {"tool_call", "tool_result"}
    BY <1>1, <1>5, <2>1, <2>4 DEF Brings
  <2> QED
    BY <2>2, <2>3, <2>4
<1> QED
  BY <1>7, <1>9, <1>10, <1>11, <1>12, <1>13, <1>14, <1>15 DEF PanelInv

-------------------------------------------------------------------------------
LEMMA RenderedAsIs ==
  \A h : RenderHistory(h) = [RenderHistory(h) EXCEPT !.wiped = FALSE]
<1> TAKE h
<1> DEFINE s == [n \in Turns |-> [k \in Places |->
                    IF n \in Answered(h) /\ k \in KeptByRender(script[n]) THEN 1 ELSE 0]]
           r == [shown |-> s, running |-> Nobody, replayed |-> FALSE, wiped |-> FALSE]
<1>1. RenderHistory(h) = r
  BY DEF RenderHistory
<1> HIDE DEF s
<1>2. ASSUME NEW p, p = r PROVE p = [p EXCEPT !.wiped = FALSE]
  <2>1. p = [shown |-> s, running |-> Nobody, replayed |-> FALSE, wiped |-> FALSE]
    BY <1>2
  <2>2. DOMAIN p = {"shown", "running", "replayed", "wiped"} /\ p.wiped = FALSE
        /\ p = [x \in DOMAIN p |-> p[x]]
    BY <2>1
  <2> QED
    BY <2>2
<1> HIDE DEF r
<1> QED
  BY <1>1, <1>2

LEMMA SamePanel ==
  ASSUME panel \in Panel
  PROVE  /\ panel = [panel EXCEPT !.replayed = panel.replayed]
         /\ \A n \in Turns : panel = [panel EXCEPT !.running[n] = panel.running[n]]
BY DEF Panel

(* A message that is not an answer adds none.                                *)
LEMMA NoAnswerAdded ==
  ASSUME NEW h \in Seq(Message), NEW m \in Message
  PROVE  Answered(Append(h, m)) = Answered(h) \cup (IF m.role = "assistant" THEN {m.turn} ELSE {})
<1> DEFINE g == Append(h, m)
<1>1. /\ Len(h) \in Nat /\ Len(g) = Len(h) + 1 /\ g[Len(h) + 1] = m
      /\ \A i \in 1..Len(h) : g[i] = h[i]
  BY Appending
<1>2. \A i \in 1..Len(g) : i \in 1..Len(h) \/ i = Len(h) + 1
  BY <1>1
<1>3. 1..Len(h) \subseteq 1..Len(g) /\ Len(h) + 1 \in 1..Len(g)
  BY <1>1
<1>4. Answered(g) \subseteq Answered(h) \cup (IF m.role = "assistant" THEN {m.turn} ELSE {})
  <2> SUFFICES ASSUME NEW i \in 1..Len(g), g[i].role = "assistant"
               PROVE  g[i].turn \in Answered(h) \cup (IF m.role = "assistant" THEN {m.turn} ELSE {})
    BY DEF Answered
  <2>1. CASE i \in 1..Len(h)
    BY <1>1, <2>1 DEF Answered
  <2>2. CASE i = Len(h) + 1
    BY <1>1, <2>2
  <2> QED
    BY <1>2, <2>1, <2>2
<1>5. Answered(h) \subseteq Answered(g)
  BY <1>1, <1>3 DEF Answered
<1>6. m.role = "assistant" => m.turn \in Answered(g)
  BY <1>1, <1>3 DEF Answered
<1>7. CASE m.role = "assistant"
  BY <1>4, <1>5, <1>6, <1>7
<1>8. CASE m.role # "assistant"
  BY <1>4, <1>5, <1>8
<1> QED
  BY <1>7, <1>8

LEMMA StreamsAndPanel ==
  ASSUME CoreInv
  PROVE  /\ activeChat \in Chats /\ activeChat \in Listed(chats) /\ history[activeChat] \in Seq(Message)
         /\ Flight = activeStreams[activeChat] /\ Came = source[activeChat].at
         /\ (Follow <=> source[activeChat].state = "open") /\ Goes = streaming[activeChat]
         /\ (Flight = 0 <=> source[activeChat].state = "closed")
         /\ source \in [Chats -> Source] /\ streaming \in [Chats -> Streaming]
BY DEF CoreInv, ChatsOK, MadeOK, StreamsOK, Flight, Came, Follow, Goes

(* The panel is rendered anew.                                               *)
LEMMA RenderingSteps ==
  ASSUME CoreInv, CoreInv',
         KeepEmptyChat \/ NewChat \/ Reload \/ Login \/ (\E c \in Chats : SelectChat(c) \/ DeleteChat(c))
  PROVE  Rendering
<1>1. /\ Flight' = activeStreams'[activeChat'] /\ Came' = source'[activeChat'].at
      /\ Goes' = streaming'[activeChat'] /\ activeChat' \in Chats
      /\ activeChat \in Chats /\ streaming \in [Chats -> Streaming]
      /\ activeStreams \in [Chats -> {0} \cup Turns] /\ savedStreams \in [Chats -> {0} \cup Turns]
  BY DEF CoreInv, StreamsOK, ChatsOK, MadeOK, Flight, Came, Goes
<1>2. ASSUME panel' = RenderHistory(history'[activeChat'])
      PROVE  \E w \in BOOLEAN : panel' = [RenderHistory(history'[activeChat']) EXCEPT !.wiped = w]
  BY <1>2, RenderedAsIs
<1>3. NoState.thinking # "shown" /\ Opened.at = 0
  BY DEF NoState, Opened
<1>4. CASE KeepEmptyChat
  <2>1. /\ panel' = RenderHistory(history'[activeChat']) /\ UNCHANGED script
        /\ activeChat' = activeChat /\ activeStreams' = activeStreams /\ activeStreams[activeChat] = 0
    BY <1>4 DEF KeepEmptyChat, chatVars, serverVars
  <2> QED
    BY <1>1, <1>2, <2>1 DEF Rendering
<1>5. CASE NewChat
  <2>1. Fresh \in Chats \ made
    BY <1>5, NewChatIsListed
  <2>2. /\ activeChat' = Fresh /\ panel' = RenderHistory(<<>>) /\ UNCHANGED <<script, history, activeStreams>>
    BY <1>5 DEF NewChat, serverVars
  <2>3. history[Fresh] = <<>> /\ activeStreams[Fresh] = 0
    BY <2>1 DEF CoreInv, MadeOK
  <2>4. panel' = RenderHistory(history'[activeChat']) /\ Flight' = 0
    BY <1>1, <2>2, <2>3
  <2> QED
    BY <1>2, <2>2, <2>4 DEF Rendering
<1>6. ASSUME NEW to \in [Chats -> {0} \cup Turns], NEW on, Boot(to, on), UNCHANGED script PROVE Rendering
  <2>1. /\ panel' = RenderHistory(history'[activeChat']) /\ activeStreams' = to
        /\ source' = [c \in Chats |-> IF to[c] = 0 THEN Closed ELSE Opened]
        /\ streaming' = [c \in Chats |-> NoState]
    BY <1>6 DEF Boot
  <2>2. Goes' = NoState /\ (Flight' # 0 => Came' = 0)
    BY <1>1, <1>3, <2>1
  <2> QED
    BY <1>2, <1>3, <1>6, <2>1, <2>2 DEF Rendering
<1>7. CASE Reload
  <2>1. Boot(Nowhere, FALSE) /\ UNCHANGED script
    BY <1>7 DEF Reload, serverVars
  <2> QED
    BY <1>6, <2>1, NobodyIsOK
<1>8. CASE Login
  <2>1. Boot(Stored(saved.chats), TRUE) /\ UNCHANGED script
    BY <1>8 DEF Login
  <2>2. Stored(saved.chats) \in [Chats -> {0} \cup Turns]
    BY <1>1 DEF Stored
  <2> QED
    BY <1>6, <2>1, <2>2
<1>9. ASSUME NEW c \in Chats, SelectChat(c) PROVE Rendering
  <2>1. /\ activeChat' = c /\ panel' = RenderHistory(history[c]) /\ UNCHANGED <<history, script>>
        /\ Attach(Only(c, activeStreams[c]), Detached)
    BY <1>9 DEF SelectChat, serverVars
  <2>2. Only(c, activeStreams[c])[c] = activeStreams[c]
    BY <1>1, NobodyIsOK
  <2>3. /\ activeStreams'[c] = activeStreams[c]
        /\ activeStreams[c] # 0 => source'[c] = Opened /\ streaming'[c] = NoState
    BY <2>1, <2>2 DEF Attach
  <2> QED
    BY <1>1, <1>2, <1>3, <2>1, <2>3 DEF Rendering
<1>10. ASSUME NEW c \in Chats, DeleteChat(c) PROVE Rendering
  <2> DEFINE w == activeStreams'[activeChat'] # 0
  <2>1. /\ panel' = [RenderHistory(history[activeChat']) EXCEPT !.wiped = w]
        /\ UNCHANGED <<history, script>> /\ streaming' = [Detached EXCEPT ![c] = NoState]
    BY <1>10 DEF DeleteChat, serverVars
  <2>2. \A d \in Chats : Detached[d].thinking # "shown"
    BY <1>1 DEF Detached, Wiped, Streaming
  <2>3. Goes'.thinking # "shown"
    <3>1. Detached \in [Chats -> Streaming]
      BY <1>1, DetachedIsStreaming
    <3> QED
      BY <1>1, <1>3, <2>1, <2>2, <3>1
  <2>4. panel'.wiped = w
    BY <2>1 DEF RenderHistory
  <2>5. w \in BOOLEAN /\ panel' = [RenderHistory(history'[activeChat']) EXCEPT !.wiped = w]
    BY <2>1
  <2> HIDE DEF w
  <2>6. \E x \in BOOLEAN : panel' = [RenderHistory(history'[activeChat']) EXCEPT !.wiped = x]
    BY <2>5
  <2>7. Flight' # 0 => w
    BY <1>1 DEF w
  <2> QED
    BY <2>1, <2>3, <2>4, <2>6, <2>7 DEF Rendering
<1> QED
  BY <1>4, <1>5, <1>7, <1>8, <1>9, <1>10

(* What is about other chats, or about none, leaves the panel alone.         *)
LEMMA AloneIsStanding ==
  ASSUME CoreInv, CoreInv', UNCHANGED <<panel, activeChat>>,
         \A n \in Turns : Known(n) => script'[n] = script[n],
         Answered(history'[activeChat]) = Answered(history[activeChat]),
         \/ /\ activeStreams'[activeChat] = activeStreams[activeChat]
            /\ source'[activeChat] = source[activeChat]
            /\ streaming'[activeChat] = streaming[activeChat]
         \/ activeStreams'[activeChat] = 0
         \/ source'[activeChat] = Opened /\ streaming'[activeChat] = NoState
  PROVE  Standing
<1>1. /\ Flight = activeStreams[activeChat] /\ Came = source[activeChat].at
      /\ (Follow <=> source[activeChat].state = "open") /\ Goes = streaming[activeChat]
      /\ Flight' = activeStreams'[activeChat] /\ Came' = source'[activeChat].at
      /\ (Follow' <=> source'[activeChat].state = "open") /\ Goes' = streaming'[activeChat]
  BY DEF Flight, Came, Follow, Goes
<1>2. Opened.at = 0 /\ Opened.state # "open"
  BY DEF Opened
<1> QED
  BY <1>1, <1>2 DEF Standing

LEMMA AttachingStands ==
  ASSUME CoreInv, CoreInv', NEW to \in [Chats -> {0} \cup Turns], Attach(to, streaming),
         UNCHANGED <<chatVars, panel, script>>
  PROVE  Standing
<1>1. /\ activeChat \in Chats
      /\ activeStreams' = [c \in Chats |-> IF to[c] = 0 THEN activeStreams[c] ELSE to[c]]
      /\ source' = [c \in Chats |-> IF to[c] = 0 THEN source[c] ELSE Opened]
      /\ streaming' = [c \in Chats |-> IF to[c] = 0 THEN streaming[c] ELSE NoState]
  BY StreamsAndPanel DEF Attach
<1>2. UNCHANGED <<panel, activeChat, history, script>>
  BY DEF chatVars
<1> QED
  BY <1>1, <1>2, AloneIsStanding

(* The end of a stream.                                                      *)
LEMMA SettlingStands ==
  ASSUME CoreInv, CoreInv', NEW c \in Chats, NEW m \in Message, Settling(c, m), UNCHANGED panel,
         m.role = "assistant" => Done(c)
  PROVE  Standing \/ Ending
<1> DEFINE a == activeChat
<1>1. /\ a \in Chats /\ history[a] \in Seq(Message) /\ c \in Chats
      /\ activeStreams \in [Chats -> {0} \cup Turns]
      /\ source \in [Chats -> Source] /\ streaming \in [Chats -> Streaming]
  BY StreamsAndPanel DEF CoreInv, StreamsOK
<1>2. /\ activeStreams' = [activeStreams EXCEPT ![c] = 0] /\ source' = [source EXCEPT ![c] = Closed]
      /\ streaming' = [streaming EXCEPT ![c] = NoState] /\ UNCHANGED <<panel, activeChat, script>>
      /\ \/ UNCHANGED history
         \/ history' = [history EXCEPT ![c] = Append(@, m)]
      /\ m.turn = activeStreams[c] /\ activeStreams[c] # 0
  <2>1. activeStreams[c] \in Turns
    BY Settled_
  <2> QED
    BY <2>1, Settled_, TurnsAreNumbers DEF Settling
<1>3. \/ activeStreams'[a] = activeStreams[a] /\ source'[a] = source[a] /\ streaming'[a] = streaming[a]
      \/ activeStreams'[a] = 0
  BY <1>1, <1>2
<1>4. CASE Answered(history'[a]) = Answered(history[a])
  BY <1>2, <1>3, <1>4, AloneIsStanding
<1>5. CASE Answered(history'[a]) # Answered(history[a])
  <2>1. c = a /\ history'[a] = Append(history[a], m)
    <3>1. ~UNCHANGED history
      BY <1>5
    <3>2. history' = [history EXCEPT ![c] = Append(@, m)]
      BY <1>2, <3>1
    <3>3. history'[c] = Append(history[c], m) /\ \A d \in Chats : d # c => history'[d] = history[d]
      BY <3>2, AppendingTo DEF CoreInv
    <3> QED
      BY <1>1, <1>5, <3>3
  <2>2. m.role = "assistant" /\ Answered(history'[a]) = Answered(history[a]) \cup {m.turn}
    BY <1>1, <1>5, <2>1, NoAnswerAdded
  <2>3. Done(c)
    BY <2>2
  <2>4. /\ source[c].state = "open" /\ source[c].at < Len(script[activeStreams[c]])
        /\ script[activeStreams[c]][source[c].at + 1] = "done"
    BY <2>3 DEF Done, Event, Stream
  <2>5. /\ Flight = activeStreams[c] /\ Came = source[c].at /\ Follow /\ Flight' = 0
    BY <1>1, <1>2, <2>1, <2>4 DEF Flight, Came, Follow
  <2>6. Came \in Nat /\ Len(script[Flight]) \in Nat
    <3>1. Came \in Nat
      BY <1>1, <2>5 DEF Source
    <3>2. script \in [Turns -> Scripts \cup {<<>>}] /\ Flight \in Turns
      BY <1>1, <1>2, <2>5 DEF CoreInv, PostsOK
    <3> QED
      BY <3>1, <3>2, PlacesAreThere
  <2>7. Came + 1 \in 1..Len(script[Flight]) /\ script[Flight][Came + 1] = "done"
    BY <2>4, <2>5, <2>6
  <2> QED
    BY <1>2, <2>2, <2>5, <2>7 DEF Ending
<1> QED
  BY <1>4, <1>5

LEMMA PanelStepKinds ==
  ASSUME UsageInv, UsageInv', panel \in Panel, Next
  PROVE  PanelSteps
<1> DEFINE a == activeChat
           h == history[activeChat]
<1>1. CoreInv /\ CoreInv' /\ CountsWhatIsThere /\ KnownFirst /\ AssistantAssumption
  BY AssistantAssumption DEF UsageInv
<1>2. /\ a \in Chats /\ h \in Seq(Message) /\ history \in [Chats -> Seq(Message)] /\ ChatsOK
      /\ source \in [Chats -> Source] /\ streaming \in [Chats -> Streaming]
      /\ posts \subseteq Post
  BY <1>1, StreamsAndPanel DEF CoreInv, ChatsOK, PostsOK
<1>3. ASSUME UNCHANGED <<chatVars, streamVars, script, panel>> PROVE Standing
  BY <1>1, <1>3, AloneIsStanding DEF chatVars, streamVars
<1>4. CASE KeepEmptyChat \/ NewChat \/ Reload \/ Login \/ \E c \in Chats : SelectChat(c) \/ DeleteChat(c)
  BY <1>1, <1>4, RenderingSteps DEF PanelSteps
<1>5. CASE OpenPanel \/ Logout \/ HandleAuthStatus \/ HandleLogout \/ \E n \in Turns : Expire(n)
  <2>1. UNCHANGED <<chatVars, streamVars, script, panel>>
    BY <1>5 DEF OpenPanel, Logout, HandleAuthStatus, HandleLogout, Expire, serverVars
  <2> QED
    BY <1>3, <2>1 DEF PanelSteps
<1>6. CASE SendMessage
  <2>1. /\ UNCHANGED <<activeChat, activeStreams, source, streaming, script, panel>>
        /\ history' = [history EXCEPT ![a] = Append(@, User(sent + 1))] /\ sent < MaxTurns
    BY <1>6 DEF SendMessage, streamVars, serverVars
  <2>2. User(sent + 1) \in Message /\ User(sent + 1).role # "assistant"
    <3>1. sent + 1 \in Turns
      BY <1>1, <2>1 DEF Turns, AssistantAssumption, CoreInv, PostsOK
    <3> QED
      BY <3>1 DEF User, Message
  <2>3. history'[a] = Append(h, User(sent + 1))
    BY <1>2, <2>1
  <2>4. Answered(history'[a]) = Answered(h)
    BY <1>2, <2>2, <2>3, NoAnswerAdded
  <2> QED
    BY <1>1, <2>1, <2>4, AloneIsStanding DEF PanelSteps
<1>7. ASSUME NEW q \in posts, PostFailed(q) PROVE Standing
  <2>1. /\ UNCHANGED <<activeChat, activeStreams, source, streaming, script, panel>>
        /\ history' = [history EXCEPT ![q.chat] = Append(@, Failure(q.turn))]
    BY <1>7 DEF PostFailed, streamVars, serverVars
  <2>2. q.chat \in Chats /\ Failure(q.turn) \in Message /\ Failure(q.turn).role # "assistant"
    BY <1>2 DEF Post, Failure, Message
  <2>3. history'[a] = h \/ history'[a] = Append(h, Failure(q.turn))
    BY <1>2, <2>1, <2>2
  <2>4. Answered(history'[a]) = Answered(h)
    BY <1>2, <2>2, <2>3, NoAnswerAdded
  <2> QED
    BY <1>1, <2>1, <2>4, AloneIsStanding
<1>8. ASSUME NEW q \in posts, HandleChat(q) \/ LosePost(q) PROVE Standing
  <2>1. /\ UNCHANGED <<activeChat, history, activeStreams, source, streaming, panel>>
        /\ \/ UNCHANGED script
           \/ q.at = "sent" /\ \E s \in Scripts : script' = [script EXCEPT ![q.turn] = s]
    BY <1>8 DEF HandleChat, LosePost, chatVars, streamVars, serverVars
  <2>2. \A n \in Turns : Known(n) => script'[n] = script[n]
    <3>1. q.at = "sent" => ~Known(q.turn)
      BY <1>1 DEF KnownFirst
    <3>2. script \in [Turns -> Scripts \cup {<<>>}]
      BY <1>1 DEF CoreInv, PostsOK
    <3> QED
      BY <2>1, <3>1, <3>2
  <2> QED
    BY <1>1, <2>1, <2>2, AloneIsStanding
<1>9. ASSUME NEW q \in posts, PostAnswered(q) PROVE Standing
  <2>1. Attach(Only(q.chat, q.turn), streaming) /\ UNCHANGED <<chatVars, panel, script>>
    BY <1>9 DEF PostAnswered, serverVars
  <2>2. q.chat \in Chats /\ q.turn \in Turns
    BY <1>2 DEF Post
  <2>3. Only(q.chat, q.turn) \in [Chats -> {0} \cup Turns]
    BY <2>2, NobodyIsOK
  <2> QED
    BY <1>1, <2>1, <2>3, AttachingStands
<1>10. CASE AuthStatusFails \/ AuthStatus \/ LoggedOut \/ LogoutFails
  <2>1. PICK on \in BOOLEAN : SetConnected(on)
    BY <1>10 DEF AuthStatusFails, AuthStatus, LoggedOut, LogoutFails
  <2>2. UNCHANGED script
    BY <1>10 DEF AuthStatusFails, AuthStatus, LoggedOut, LogoutFails, serverVars
  <2> DEFINE to == IF on THEN Stored(chats) ELSE Nowhere
  <2>3. to \in [Chats -> {0} \cup Turns]
    BY <1>1, NobodyIsOK DEF Stored, CoreInv, StreamsOK
  <2>4. Attach(to, streaming) /\ UNCHANGED <<chatVars, panel, script>>
    BY <2>1, <2>2 DEF SetConnected
  <2> HIDE DEF to
  <2> QED
    BY <1>1, <2>3, <2>4, AttachingStands DEF PanelSteps
<1>11. CASE Restart
  <2>1. /\ UNCHANGED <<panel, activeChat, history, activeStreams, streaming, script>>
        /\ source' = [c \in Chats |-> IF source[c].state = "open"
                          THEN [source[c] EXCEPT !.state = "connecting"] ELSE source[c]]
    BY <1>11 DEF Restart, chatVars
  <2>2. source'[a].at = source[a].at /\ source'[a].state # "open"
    BY <1>2, <2>1 DEF Source
  <2> QED
    BY <1>2, <2>1, <2>2 DEF Standing, PanelSteps, Flight, Came, Goes, Follow
<1>12. ASSUME NEW c \in Chats, Drop(c) PROVE Standing
  <2>1. /\ UNCHANGED <<panel, activeChat, history, activeStreams, streaming, script>>
        /\ source' = [source EXCEPT ![c].state = "connecting"] /\ source[c].state = "open"
    BY <1>12 DEF Drop, chatVars, serverVars
  <2>2. source'[a].at = source[a].at /\ (source'[a].state = "open" => source[a].state = "open")
    BY <1>2, <2>1 DEF Source
  <2> QED
    BY <1>2, <2>1, <2>2 DEF Standing, Flight, Came, Goes, Follow
<1>13. ASSUME NEW c \in Chats, Connect(c) PROVE Standing \/ Connecting
  <2>1. /\ source[c].state = "connecting"
        /\ UNCHANGED <<activeChat, history, activeStreams, streaming, script>>
        /\ source' = [source EXCEPT ![c] = [state |-> "open", at |-> 0]]
        /\ panel' = [panel EXCEPT !.replayed = @ \/ (c = a /\ IsShown(activeStreams[c]))]
    BY <1>13 DEF Connect, chatVars, serverVars, Stream
  <2>2. CASE c = a
    <3>1. Flight # 0
      BY <1>1, <2>1, <2>2, StreamsAndPanel
    <3>2. Flight = activeStreams[c]
      BY <2>2 DEF Flight
    <3>3. Came' = 0 /\ Flight' = Flight /\ Goes' = Goes
      BY <1>2, <2>1, <2>2 DEF Came, Flight, Goes
    <3> QED
      BY <2>1, <2>2, <3>1, <3>2, <3>3 DEF Connecting
  <2>3. CASE c # a
    <3>1. panel' = panel
      <4>1. panel.replayed = (panel.replayed \/ (c = a /\ IsShown(activeStreams[c])))
        BY <2>3 DEF Panel
      <4>2. panel' = [panel EXCEPT !.replayed = panel.replayed]
        BY <2>1, <4>1
      <4> QED
        BY <4>2, SamePanel
    <3> QED
      BY <1>1, <1>2, <2>1, <2>3, <3>1, AloneIsStanding
  <2> QED
    BY <2>2, <2>3
<1>14. ASSUME NEW c \in Chats, StreamGone(c) \/ Done(c) \/ Error(c) PROVE Standing \/ Ending
  <2>1. UNCHANGED panel
    BY <1>14 DEF StreamGone, Done, Error
  <2>2. CASE Done(c)
    <3>1. \E m \in Message : Settling(c, m)
      BY <1>1, <2>2, EndingSettles
    <3> QED
      BY <1>1, <2>1, <2>2, <3>1, SettlingStands
  <2>3. CASE StreamGone(c) \/ Error(c)
    <3> DEFINE n == activeStreams[c]
               m == Failure(n)
    <3>1. source[c].state # "closed" /\ Settle(c, m)
          /\ UNCHANGED <<script, posts, sent, lost, pendingPosts, connected>>
      BY <2>3 DEF StreamGone, Error, Event, Stream, serverVars, askVars
    <3>2. n \in Turns
      BY <1>1, <3>1 DEF CoreInv, StreamsOK
    <3>3. m \in Message /\ m.role = "error" /\ m.turn = n
      BY <3>2 DEF Failure, Message
    <3>4. Settling(c, m)
      BY <3>1, <3>3 DEF Settling
    <3> QED
      BY <1>1, <2>1, <3>3, <3>4, SettlingStands
  <2> QED
    BY <1>14, <2>2, <2>3
<1>15. ASSUME NEW c \in Chats, Delta(c) \/ MessageEnd(c) \/ ToolCall(c) \/ ToolResult(c) \/ Usage(c)
       PROVE  Standing \/ Coming
  <2>1. /\ source[c].state = "open" /\ source[c].at < Len(script[activeStreams[c]])
        /\ source' = [source EXCEPT ![c].at = @ + 1]
        /\ UNCHANGED <<activeChat, history, activeStreams, script>>
    BY <1>15 DEF Delta, MessageEnd, ToolCall, ToolResult, Usage, Event, Delivered, Stream,
                 chatVars, serverVars
  <2>2. CASE c = a
    <3>1. Flight = activeStreams[c] /\ Flight # 0 /\ Flight \in Turns
      BY <1>1, <2>1, <2>2 DEF CoreInv, StreamsOK, Flight
    <3>2. Flight' = Flight /\ Follow /\ Came = source[c].at /\ Came' = Came + 1 /\ Came \in Nat
      BY <1>2, <2>1, <2>2 DEF Flight, Follow, Came, Source
    <3>3. Len(script[Flight]) \in Nat
      BY <1>1, <3>1, PlacesAreThere DEF CoreInv, PostsOK
    <3>4. Came' \in 1..Len(script[Flight])
      BY <2>1, <3>1, <3>2, <3>3
    <3>5. Delta(activeChat) \/ MessageEnd(activeChat) \/ ToolCall(activeChat)
          \/ ToolResult(activeChat) \/ Usage(activeChat)
      BY <1>15, <2>2
    <3> QED
      BY <2>1, <3>1, <3>2, <3>4, <3>5 DEF Coming
  <2>3. CASE c # a
    <3>1. streaming' = streaming \/ streaming' = [streaming EXCEPT ![c].bubble = "none"]
          \/ \E t : streaming' = [streaming EXCEPT ![c].tokens = t]
      BY <1>15, <2>3 DEF Delta, MessageEnd, ToolCall, ToolResult, Usage
    <3>2. streaming'[a] = streaming[a] /\ source'[a] = source[a]
      BY <1>2, <2>1, <2>3, <3>1
    <3>3. panel' = panel
      <4>1. CASE Delta(c) \/ MessageEnd(c) \/ ToolCall(c) \/ Usage(c)
        BY <2>3, <4>1 DEF Delta, MessageEnd, ToolCall, Usage
      <4>2. CASE ToolResult(c)
        <5>1. activeStreams[c] \in Turns
          BY <1>1, <2>1 DEF CoreInv, StreamsOK
        <5>2. panel' = [panel EXCEPT !.running[activeStreams[c]] = panel.running[activeStreams[c]]]
          BY <2>3, <4>2 DEF ToolResult, Stream
        <5> QED
          BY <5>1, <5>2, SamePanel
      <4> QED
        BY <1>15, <4>1, <4>2
    <3> QED
      BY <1>1, <1>2, <2>1, <2>3, <3>2, <3>3, AloneIsStanding
  <2> QED
    BY <2>2, <2>3
<1>16. CASE \E q \in posts : HandleChat(q) \/ LosePost(q) \/ PostAnswered(q) \/ PostFailed(q)
  BY <1>7, <1>8, <1>9, <1>16 DEF PanelSteps
<1>17. CASE \E c \in Chats : Drop(c) \/ Connect(c) \/ StreamGone(c) \/ Deliver(c)
  BY <1>12, <1>13, <1>14, <1>15, <1>17 DEF Deliver, PanelSteps
<1> QED
  BY <1>4, <1>5, <1>6, <1>10, <1>11, <1>16, <1>17 DEF Next, User_, Trouble, System

LEMMA PanelStart == Init => OrderInv /\ PanelInv
<1> SUFFICES ASSUME Init PROVE OrderInv /\ PanelInv
  OBVIOUS
<1>1. CoreInv
  BY AssistantAssumption, CoreStart
<1>2. /\ \A c \in Listed(chats) : Len(history[c]) = 0
      /\ activeStreams = Nowhere /\ history[activeChat] = <<>> /\ panel = EmptyPanel /\ sent = 0
      /\ activeChat \in Chats
  BY <1>1, StreamsAndPanel DEF Init, CoreInv, MadeOK
<1>3. OrderInv
  <2>1. \A c \in Listed(chats) : \A i \in 1..Len(history[c]) : FALSE
    BY <1>2
  <2> QED
    BY <2>1 DEF OrderInv, InOrder, OneChatEach, SentBefore
<1>4. Flight = 0 /\ Answered(history[activeChat]) = {}
  <2>1. Flight = 0
    BY <1>2 DEF Flight, Nowhere
  <2>2. Answered(<<>>) = {}
    BY DEF Answered
  <2> QED
    BY <1>2, <2>1, <2>2
<1>5. /\ panel \in Panel /\ \A n \in Turns : panel.running[n] = 0
      /\ \A n \in Turns, k \in Places : panel.shown[n][k] = 0
  BY <1>2 DEF EmptyPanel, Nobody, Panel
<1>6. ShownOnce /\ NotAhead /\ NotDetached /\ ArrivedIsShown /\ AnswersAreShown
  BY <1>4, <1>5 DEF ShownOnce, NotAhead, NotDetached, ArrivedIsShown, AnswersAreShown
<1>7. RunningIsShown /\ LastIsRunning /\ OnlyTheLast
  BY <1>4, <1>5 DEF RunningIsShown, LastIsRunning, OnlyTheLast
<1> QED
  BY <1>3, <1>5, <1>6, <1>7 DEF PanelInv

LEMMA PanelInvariance == Spec => []PanelInv
<1>1. OrderInv /\ AlternationInv /\ UsageInv /\ AlternationInv' /\ UsageInv' /\ PanelInv /\ [Next]_vars
        => OrderInv' /\ PanelInv'
  <2> SUFFICES ASSUME OrderInv, AlternationInv, UsageInv, AlternationInv', UsageInv', PanelInv, [Next]_vars
               PROVE  OrderInv' /\ PanelInv'
    OBVIOUS
  <2>1. CoreInv /\ CoreInv' /\ panel \in Panel
    BY DEF UsageInv, PanelInv
  <2>2. OrderInv'
    BY <2>1, EveryStep, OrderStep
  <2>3. PanelContext /\ PanelContext'
    <3>1. PanelContext
      BY ContextOfPanel
    <3>2. OrderInv /\ AlternationInv /\ UsageInv => PanelContext
      BY ContextOfPanel
    <3>3. (OrderInv /\ AlternationInv /\ UsageInv => PanelContext)'
      BY ContextOfPanel, PTL
    <3> QED
      BY <2>2, <3>1, <3>3
  <2>4. CASE Next
    <3>1. PanelSteps
      BY <2>1, <2>4, PanelStepKinds
    <3> QED
      BY <2>1, <2>2, <2>3, <3>1, RenderedPanel, StandingPanel, ConnectingPanel, ComingPanel, EndingPanel
         DEF PanelSteps
  <2>5. CASE UNCHANGED vars
    <3>1. Standing
      BY <2>1, <2>5, AloneIsStanding DEF vars, chatVars, streamVars, serverVars
    <3> QED
      BY <2>2, <2>3, <3>1, StandingPanel
  <2> QED
    BY <2>4, <2>5
<1> QED
  BY <1>1, PanelStart, AlternationInvariance, UsageInvariance, PTL DEF Spec

(* Whatever the panel shows it shows once, as long as no stream was          *)
(* connected again into a panel that had shown a part of it                  *)
(* (assistant.js:929).                                                       *)
THEOREM PanelShowsNothingTwice == Spec => []NothingTwice
<1>1. PanelInv => NothingTwice
  BY DEF PanelInv, ShownOnce, NothingTwice
<1> QED
  BY <1>1, PanelInvariance, PTL

(* As long as no chat was deleted during the turn, the panel has every part  *)
(* of the turn in flight that has arrived, what the messages of its answers  *)
(* stand for, and no call that an answer has left running (assistant.js:319, *)
(* 843).                                                                     *)
THEOREM PanelHasEverything == Spec => []PanelIsWhole
<1>1. PanelInv => PanelIsWhole
  BY DEF PanelInv, ArrivedIsShown, AnswersAreShown, PanelIsWhole, Flight, Came
<1> QED
  BY <1>1, PanelInvariance, PTL

LEMMA CookieIsThereOrNot == Spec => [](cookie \in BOOLEAN)
<1>1. cookie \in BOOLEAN /\ [Next]_vars => (cookie \in BOOLEAN)'
  BY DEF Next, User_, Trouble, System, SendMessage, KeepEmptyChat, NewChat, OpenPanel, Logout, Login,
         Reload, SelectChat, DeleteChat, LosePost, Drop, Expire, Restart, AuthStatusFails, LogoutFails,
         HandleChat, PostAnswered, PostFailed, HandleAuthStatus, AuthStatus, HandleLogout, LoggedOut,
         Connect, StreamGone, Deliver, Delta, MessageEnd, ToolCall, ToolResult, Usage, Done, Error,
         Event, vars, serverVars
<1>2. Init => cookie \in BOOLEAN
  BY DEF Init
<1> QED
  BY <1>1, <1>2, PTL DEF Spec

(* The page's state has the types it is declared with; so no call's mark is  *)
(* taken off more often than it was put on, which the page makes sure of     *)
(* with a Math.max (assistant.js:885).                                       *)
THEOREM AssistantTypes == Spec => []TypeOK
<1>1. UsageInv /\ PanelInv /\ cookie \in BOOLEAN => TypeOK
  <2> SUFFICES ASSUME CoreInv, PanelInv, cookie \in BOOLEAN PROVE TypeOK
    BY DEF UsageInv
  <2>1. panel \in Panel /\ posts \subseteq Post /\ busy \in BOOLEAN /\ connected \in BOOLEAN
    BY DEF PanelInv, CoreInv, PostsOK, BusyOK
  <2>2. pendingPosts \subseteq Chats
    BY <2>1 DEF CoreInv, PostsOK, Post
  <2> QED
    BY <2>1, <2>2 DEF TypeOK, CoreInv, ChatsOK, StreamsOK, Panel
<1> QED
  BY <1>1, UsageInvariance, PanelInvariance, CookieIsThereOrNot, PTL
===============================================================================
