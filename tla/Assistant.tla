------------------------------- MODULE Assistant -------------------------------
(***************************************************************************)
(* The assistant's page (internal/editor/assistant.js): the chats it keeps  *)
(* in localStorage, the turn each chat may have in flight, the EventSource  *)
(* that replays the turn's events from the first one on every connection,   *)
(* and the panel they are shown on.  A handler runs to its end before the   *)
(* next one starts, so each is one action; requests, their answers, events  *)
(* and the user come in any order.  The server is what ChatStream promises: *)
(* a connection gets the events of its turn in order, as long as the        *)
(* session is known and the cookie is there.  Turn n is the n-th message    *)
(* sent, and also names its stream.                                         *)
(***************************************************************************)
EXTENDS Integers, Sequences, FiniteSets, TurnScript

CONSTANTS
    Chats,      \* chat ids
    First,      \* the id of the first chat
    MaxTurns,   \* bound on the messages sent
    Scripts,    \* the events a turn can have, the terminal one last
    MaxMoves    \* bound on switches, reloads, failures, log-outs, ...

Turns == 1..MaxTurns
Kinds == {"delta", "message_end", "tool_call", "tool_result", "usage", "done", "error"}

ASSUME AssistantAssumption ==
    /\ First \in Chats
    /\ MaxTurns \in Nat \ {0} /\ MaxMoves \in Nat
    /\ Scripts \subseteq Seq(Kinds)
    /\ \A s \in Scripts : IsScript(s)

VARIABLES
    chats,          \* the list of chats, the newest first
    activeChat,     \* activeChatId
    history,        \* chat.history, by id; that of a deleted chat lives on in closures
    lastDone,       \* chat.lastDoneStreamId, 0 for none
    activeStreams,  \* activeStreams: the stream of each chat, 0 for none
    source,         \* its EventSource: readyState and the events it has delivered
    streaming,      \* its streaming state
    pendingPosts,   \* pendingPosts
    busy, connected,
    panel,          \* what the message panel shows
    saved,          \* localStorage: the chats, as saveChats wrote them
    savedStreams,   \* localStorage: the active streams
    posts,          \* POST /api/chat under way
    auth,           \* GET /api/auth/status under way: not answered, yes, no
    logout,         \* POST /api/auth/logout under way
    cookie,         \* the browser has the key's cookie
    script,         \* the events of each turn, empty before the server has it
    gone,           \* the turns whose session the server has no longer
    made,           \* the chat ids that have been used
    sent,           \* the messages sent
    lost,           \* the turns whose POST a page navigation has cut off
    moves           \* the moves made, see MaxMoves

chatVars   == <<chats, activeChat, history, lastDone, saved, made>>
streamVars == <<activeStreams, source, streaming, savedStreams>>
serverVars == <<cookie, script, gone>>
askVars    == <<posts, auth, logout, sent, lost>>
vars == <<chatVars, streamVars, serverVars, askVars, pendingPosts, busy, connected, panel, moves>>

User(n)      == [role |-> "user", turn |-> n, tokens |-> 0]
Answer(n, k) == [role |-> "assistant", turn |-> n, tokens |-> k]
Failure(n)   == [role |-> "error", turn |-> n, tokens |-> 0]
Message == [role : {"user", "assistant", "error"}, turn : Turns, tokens : Nat]

Closed == [state |-> "closed", at |-> 0]
Opened == [state |-> "connecting", at |-> 0]
Source == [state : {"closed", "connecting", "open"}, at : Nat]

(* An element of the page is not there, on the panel, or was wiped from the *)
(* panel while the state still writes to it.                                *)
Element == {"none", "shown", "detached"}
NoState == [bubble |-> "none", thinking |-> "none", items |-> {}, tokens |-> 0]
Streaming == [bubble : Element, thinking : Element, items : SUBSET Nat, tokens : Nat]

Places == UNION {1..Len(s) : s \in Scripts}

Listed(l) == {l[i] : i \in 1..Len(l)}
Fresh == CHOOSE c \in Chats \ made : TRUE

TypeOK ==
    /\ chats \in Seq(Chats) /\ activeChat \in Listed(chats)
    /\ history \in [Chats -> Seq(Message)]
    /\ lastDone \in [Chats -> {0} \cup Turns]
    /\ activeStreams \in [Chats -> {0} \cup Turns]
    /\ source \in [Chats -> Source]
    /\ streaming \in [Chats -> Streaming]
    /\ pendingPosts \subseteq Chats
    /\ busy \in BOOLEAN /\ connected \in BOOLEAN /\ cookie \in BOOLEAN
    /\ panel.shown \in [Turns -> [Places -> Nat]] /\ panel.running \in [Turns -> Nat]
    /\ panel.replayed \in BOOLEAN /\ panel.wiped \in BOOLEAN


-------------------------------------------------------------------------------
(* The page's own helpers.  Each reads and writes the state the handlers    *)
(* that call it leave behind.                                               *)

(* saveChats: a chat that is no longer listed is not written.  Here and in  *)
(* persistActiveStreams the write succeeds: one that throws (a full or      *)
(* denied localStorage), which the code passes over, is left out.           *)
SaveChats == saved' =
    [chats |-> chats', active |-> activeChat', last |-> lastDone',
     history |-> [c \in Chats |-> IF c \in Listed(chats') THEN history'[c] ELSE <<>>]]

PersistActiveStreams == savedStreams' = activeStreams'

(* Mutant: only the streams count.                                          *)
RefreshBusyByStream == busy' = (activeStreams'[activeChat'] # 0)

RefreshBusy ==
    busy' = (activeStreams'[activeChat'] # 0 \/ activeChat' \in pendingPosts')

(* The events of a turn that its messages in the history stand for:  of a   *)
(* message with tool calls only the calls are rendered, not its text.       *)
KeptByRender(s) == {k \in 1..Len(s) :
    \/ s[k] = "tool_call"
    \/ /\ s[k] = "delta"
       /\ ~\E j \in k..Len(s) : s[j] = "tool_call" /\
              \A i \in k..j : s[i] \in {"delta", "usage", "message_end", "tool_call"}}

Answered(h) == {h[i].turn : i \in {j \in 1..Len(h) : h[j].role = "assistant"}}

Nobody == [n \in Turns |-> 0]

EmptyPanel ==
    [shown |-> [n \in Turns |-> [k \in Places |-> 0]],
     running |-> Nobody, replayed |-> FALSE, wiped |-> FALSE]

(* Mutant: the panel is not emptied.                                        *)
RenderOnTop(h) ==
    [shown |-> [n \in Turns |-> [k \in Places |->
         panel.shown[n][k] +
         IF n \in Answered(h) /\ k \in KeptByRender(script[n]) THEN 1 ELSE 0]],
     running |-> Nobody, replayed |-> FALSE, wiped |-> FALSE]

(* renderHistory empties the panel and shows the messages of the chat.      *)
RenderHistory(h) ==
    [shown |-> [n \in Turns |-> [k \in Places |->
         IF n \in Answered(h) /\ k \in KeptByRender(script[n]) THEN 1 ELSE 0]],
     running |-> Nobody, replayed |-> FALSE, wiped |-> FALSE]

Wiped(e) == IF e = "shown" THEN "detached" ELSE e

(* What rendering does to the elements the streams still write to.          *)
Detached == [c \in Chats |-> [streaming[c] EXCEPT
    !.bubble = Wiped(@), !.thinking = Wiped(@)]]

(* attachStream for the chats that "to" gives a stream; the streaming       *)
(* states of the others are those of "rest".                                *)
Attach(to, rest) ==
    /\ activeStreams' = [c \in Chats |-> IF to[c] = 0 THEN activeStreams[c] ELSE to[c]]
    /\ source' = [c \in Chats |-> IF to[c] = 0 THEN source[c] ELSE Opened]
    /\ streaming' = [c \in Chats |-> IF to[c] = 0 THEN rest[c] ELSE NoState]
    /\ IF \E c \in Chats : to[c] # 0 THEN PersistActiveStreams ELSE UNCHANGED savedStreams

Nowhere == [c \in Chats |-> 0]
Only(c, n) == [Nowhere EXCEPT ![c] = n]

(* Mutant: the stream is not forgotten in localStorage.                     *)
CloseUnstored(c) ==
    /\ activeStreams' = [activeStreams EXCEPT ![c] = 0]
    /\ source' = [source EXCEPT ![c] = Closed]
    /\ streaming' = [streaming EXCEPT ![c] = NoState]
    /\ UNCHANGED savedStreams

(* closeStream                                                              *)
CloseStream(c) ==
    /\ activeStreams' = [activeStreams EXCEPT ![c] = 0]
    /\ source' = [source EXCEPT ![c] = Closed]
    /\ streaming' = [streaming EXCEPT ![c] = NoState]
    /\ PersistActiveStreams

Move == moves < MaxMoves /\ moves' = moves + 1

-------------------------------------------------------------------------------
(* Start of the page: loadChats finds nothing and makes a chat.             *)
Init ==
    /\ chats = <<First>> /\ activeChat = First /\ made = {First}
    /\ history = [c \in Chats |-> <<>>]
    /\ lastDone = Nowhere
    /\ activeStreams = Nowhere /\ savedStreams = Nowhere
    /\ source = [c \in Chats |-> Closed]
    /\ streaming = [c \in Chats |-> NoState]
    /\ saved = [chats |-> chats, active |-> activeChat, last |-> lastDone, history |-> history]
    /\ pendingPosts = {} /\ posts = {} /\ logout = "no"
    /\ auth = [asked |-> 1, yes |-> 0, no |-> 0]
    /\ busy = FALSE /\ connected = FALSE /\ cookie = TRUE
    /\ script = [n \in Turns |-> <<>>]
    /\ gone = {} /\ sent = 0 /\ lost = {} /\ moves = 0
    /\ panel = EmptyPanel

(* Mutant: boot resumes nothing.                                            *)
StoredNone(l) == Nowhere

(* What resumeActiveStreams attaches: what was stored, for chats that are   *)
(* still there.                                                             *)
Stored(l) == [c \in Chats |-> IF c \in Listed(l) THEN savedStreams[c] ELSE 0]

(* A new page: boot.  "to" is what resumeActiveStreams attaches at once.    *)
Boot(to, on) ==
    /\ chats' = saved.chats
    /\ activeChat' = IF saved.active \in Listed(chats') THEN saved.active ELSE chats'[1]
    /\ history' = saved.history /\ lastDone' = saved.last
    /\ activeStreams' = to
    /\ source' = [c \in Chats |-> IF to[c] = 0 THEN Closed ELSE Opened]
    /\ streaming' = [c \in Chats |-> NoState]
    /\ IF to = Nowhere THEN UNCHANGED savedStreams ELSE PersistActiveStreams
    /\ pendingPosts' = {} /\ connected' = on
    /\ panel' = RenderHistory(history'[activeChat'])
    /\ RefreshBusy
    /\ auth' = [asked |-> 1, yes |-> 0, no |-> 0]
    /\ logout' = "no"
    /\ lost' = lost \cup {q.turn : q \in posts}
    /\ posts' = {}

Reload ==
    /\ Move
    /\ Boot(Nowhere, FALSE)
    /\ UNCHANGED <<saved, made, serverVars, sent>>

(* Back from OpenRouter with ?auth=success: boot asks for the status and    *)
(* connects at once.                                                        *)
Login ==
    /\ Move
    /\ cookie' = TRUE
    /\ Boot(Stored(saved.chats), TRUE)
    /\ UNCHANGED <<saved, made, script, gone, sent>>

-------------------------------------------------------------------------------
(* Chats *)

(* Mutant: the stream of the chat is not attached again.                    *)
SelectWithoutAttach(c) ==
    /\ Move
    /\ c \in Listed(chats) \ {activeChat}
    /\ activeChat' = c
    /\ panel' = RenderHistory(history[c])
    /\ streaming' = Detached
    /\ UNCHANGED <<chats, history, lastDone, made, activeStreams, source, savedStreams,
                   serverVars, askVars, pendingPosts, connected>>
    /\ SaveChats
    /\ RefreshBusy

SelectChat(c) ==
    /\ Move
    /\ c \in Listed(chats) \ {activeChat}
    /\ activeChat' = c
    /\ panel' = RenderHistory(history[c])
    /\ Attach(Only(c, activeStreams[c]), Detached)
    /\ UNCHANGED <<chats, history, lastDone, made, serverVars, askVars, pendingPosts, connected>>
    /\ SaveChats
    /\ RefreshBusy

(* An empty chat that is already there is used again.                       *)
KeepEmptyChat ==
    /\ Move
    /\ history[activeChat] = <<>> /\ activeStreams[activeChat] = 0
    /\ panel' = RenderHistory(<<>>)
    /\ streaming' = Detached
    /\ UNCHANGED <<chatVars, activeStreams, source, savedStreams, serverVars, askVars,
                   pendingPosts, busy, connected>>

NewChat ==
    /\ Move
    /\ history[activeChat] # <<>> \/ activeStreams[activeChat] # 0
    /\ made # Chats
    /\ chats' = <<Fresh>> \o chats
    /\ activeChat' = Fresh
    /\ made' = made \cup {Fresh}
    /\ panel' = RenderHistory(<<>>)
    /\ streaming' = Detached
    /\ UNCHANGED <<history, lastDone, activeStreams, source, savedStreams, serverVars,
                   askVars, pendingPosts, connected>>
    /\ SaveChats
    /\ RefreshBusy

Without(l, i) == [k \in 1..Len(l) - 1 |-> IF k < i THEN l[k] ELSE l[k + 1]]

(* The chat that is active after the i-th one, c, has been taken out: the   *)
(* one before it.                                                           *)
ActiveAfter(c, i, rest) ==
    IF c # activeChat THEN activeChat ELSE rest[IF i > 1 THEN i - 1 ELSE 1]

(* The chat's stream is closed, and the panel is rendered again whichever   *)
(* chat was deleted; a stream in flight of the chat that is active then is  *)
(* not attached again.                                                      *)
DeleteChat(c) ==
    /\ Move
    /\ \E i \in 1..Len(chats) : chats[i] = c /\
         IF Len(chats) = 1
         THEN /\ made # Chats
              /\ chats' = <<Fresh>> /\ activeChat' = Fresh /\ made' = made \cup {Fresh}
         ELSE /\ chats' = Without(chats, i)
              /\ activeChat' = ActiveAfter(c, i, chats')
              /\ made' = made
    /\ activeStreams' = [activeStreams EXCEPT ![c] = 0]
    /\ source' = [source EXCEPT ![c] = Closed]
    /\ streaming' = [Detached EXCEPT ![c] = NoState]
    /\ IF activeStreams[c] # 0 THEN PersistActiveStreams ELSE UNCHANGED savedStreams
    /\ panel' = [RenderHistory(history[activeChat']) EXCEPT
           !.wiped = activeStreams'[activeChat'] # 0]
    /\ UNCHANGED <<history, lastDone, serverVars, askVars, pendingPosts, connected>>
    /\ SaveChats
    /\ RefreshBusy

-------------------------------------------------------------------------------
(* A message and the answer to its POST *)

SendMessage ==
    /\ sent < MaxTurns /\ ~busy /\ connected
    /\ sent' = sent + 1
    /\ history' = [history EXCEPT ![activeChat] = Append(@, User(sent + 1))]
    /\ pendingPosts' = pendingPosts \cup {activeChat}
    /\ posts' = posts \cup {[chat |-> activeChat, turn |-> sent + 1, at |-> "sent"]}
    /\ UNCHANGED <<chats, activeChat, lastDone, made, streamVars, serverVars, auth, logout,
                   lost, connected, panel, moves>>
    /\ SaveChats
    /\ RefreshBusy

At(q, where) == posts' = (posts \ {q}) \cup {[q EXCEPT !.at = where]}

(* HandleChat, behind the cookie.                                           *)
HandleChat(q) ==
    /\ q.at = "sent"
    /\ IF cookie
       THEN /\ At(q, "answered")
            /\ \E s \in Scripts : script' = [script EXCEPT ![q.turn] = s]
       ELSE At(q, "failed") /\ UNCHANGED script
    /\ UNCHANGED <<chatVars, streamVars, cookie, gone, auth, logout, sent, lost,
                   pendingPosts, busy, connected, panel, moves>>

(* The request or its answer is lost.                                       *)
LosePost(q) ==
    /\ Move
    /\ q.at \in {"sent", "answered"}
    /\ At(q, "failed")
    /\ UNCHANGED <<chatVars, streamVars, serverVars, auth, logout, sent, lost,
                   pendingPosts, busy, connected, panel>>

PostAnswered(q) ==
    /\ q.at = "answered"
    /\ posts' = posts \ {q}
    /\ pendingPosts' = pendingPosts \ {q.chat}
    /\ Attach(Only(q.chat, q.turn), streaming)
    /\ UNCHANGED <<chatVars, serverVars, auth, logout, sent, lost, connected, panel, moves>>
    /\ RefreshBusy

PostFailed(q) ==
    /\ q.at = "failed"
    /\ posts' = posts \ {q}
    /\ pendingPosts' = pendingPosts \ {q.chat}
    /\ history' = [history EXCEPT ![q.chat] = Append(@, Failure(q.turn))]
    /\ UNCHANGED <<chats, activeChat, lastDone, made, streamVars, serverVars, auth, logout,
                   sent, lost, connected, panel, moves>>
    /\ SaveChats
    /\ RefreshBusy

-------------------------------------------------------------------------------
(* The EventSource of a chat *)

Stream(c) == activeStreams[c]
Found(c) == cookie /\ Stream(c) \notin gone
IsShown(n) == \E k \in Places : panel.shown[n][k] > 0

(* A connection is made, and the replay starts.                             *)
Connect(c) ==
    /\ source[c].state = "connecting" /\ Found(c)
    /\ source' = [source EXCEPT ![c] = [state |-> "open", at |-> 0]]
    /\ panel' = [panel EXCEPT !.replayed = @ \/ (c = activeChat /\ IsShown(Stream(c)))]
    /\ UNCHANGED <<chatVars, activeStreams, streaming, savedStreams, serverVars, askVars,
                   pendingPosts, busy, connected, moves>>

(* The connection breaks: the browser opens it again by itself.             *)
Drop(c) ==
    /\ Move
    /\ source[c].state = "open"
    /\ source' = [source EXCEPT ![c].state = "connecting"]
    /\ UNCHANGED <<chatVars, activeStreams, streaming, savedStreams, serverVars, askVars,
                   pendingPosts, busy, connected, panel>>

(* Mutant: the chats are not saved.                                         *)
SettleUnsaved(c, message) ==
    /\ lastDone' = [lastDone EXCEPT ![c] = Stream(c)]
    /\ history' = [history EXCEPT ![c] = Append(@, message)]
    /\ UNCHANGED <<chats, activeChat, made, saved>>
    /\ CloseStream(c)
    /\ RefreshBusy

(* The end of a turn in the history, once per stream.                       *)
Settle(c, message) ==
    /\ IF lastDone[c] = Stream(c)
       THEN UNCHANGED chatVars
       ELSE /\ lastDone' = [lastDone EXCEPT ![c] = Stream(c)]
            /\ history' = [history EXCEPT ![c] = Append(@, message)]
            /\ UNCHANGED <<chats, activeChat, made>>
            /\ SaveChats
    /\ CloseStream(c)
    /\ RefreshBusy

(* handleStreamGone: no cookie, or no such session.                         *)
StreamGone(c) ==
    /\ source[c].state = "connecting" /\ ~Found(c)
    /\ UNCHANGED <<serverVars, askVars, pendingPosts, connected, panel, moves>>
    /\ Settle(c, Failure(Stream(c)))

(* The next event of the connection, and what handleStreamEvent does first. *)
Event(c, kind) ==
    /\ source[c].state = "open"
    /\ source[c].at < Len(script[Stream(c)])
    /\ script[Stream(c)][source[c].at + 1] = kind
    /\ UNCHANGED <<serverVars, askVars, pendingPosts, connected, moves>>

Delivered(c) ==
    /\ source' = [source EXCEPT ![c].at = @ + 1]
    /\ UNCHANGED <<chatVars, activeStreams, savedStreams, busy>>

(* The event shows, if the element it goes to is on the panel.              *)
ShowIn(c, e) == panel' = [panel EXCEPT
    !.shown[Stream(c)][source[c].at + 1] = IF e = "shown" THEN @ + 1 ELSE @]

Opens(e) == IF e = "none" THEN "shown" ELSE e

Delta(c) ==
    /\ Event(c, "delta") /\ Delivered(c)
    /\ IF c # activeChat THEN UNCHANGED <<streaming, panel>>
       ELSE LET bubble == Opens(streaming[c].bubble) IN
            /\ streaming' = [streaming EXCEPT ![c].bubble = bubble]
            /\ ShowIn(c, bubble)

MessageEnd(c) ==
    /\ Event(c, "message_end") /\ Delivered(c)
    /\ streaming' = IF c # activeChat THEN streaming
                    ELSE [streaming EXCEPT ![c].bubble = "none"]
    /\ UNCHANGED panel

ToolCall(c) ==
    /\ Event(c, "tool_call") /\ Delivered(c)
    /\ IF c # activeChat THEN UNCHANGED <<streaming, panel>>
       ELSE LET thinking == Opens(streaming[c].thinking) IN
            /\ streaming' = [streaming EXCEPT ![c].thinking = thinking,
                 ![c].items = @ \cup {source[c].at + 1},
                 ![c].bubble = IF streaming[c].thinking = "none" THEN "none" ELSE @]
            /\ panel' = [panel EXCEPT
                 !.shown[Stream(c)][source[c].at + 1] = IF thinking = "shown" THEN @ + 1 ELSE @,
                 !.running[Stream(c)] = IF thinking = "shown" THEN @ + 1 ELSE @]

(* The result of the call before it takes the mark off the item the state   *)
(* has for that call, the last one it has made.                             *)
ToolResult(c) ==
    /\ Event(c, "tool_result") /\ Delivered(c)
    /\ panel' = [panel EXCEPT !.running[Stream(c)] =
           IF c = activeChat /\ source[c].at \in streaming[c].items
              /\ streaming[c].thinking = "shown" THEN @ - 1 ELSE @]
    /\ UNCHANGED streaming

Usage(c) ==
    /\ Event(c, "usage") /\ Delivered(c)
    /\ streaming' = [streaming EXCEPT ![c].tokens = @ + 1]
    /\ UNCHANGED panel

(* The server's total, what it sends with the last event.                   *)
Total(s) == Cardinality({k \in 1..Len(s) : s[k] = "usage"})

(* Mutant: the page's own count is kept.                                    *)
DoneByOwnCount(c) ==
    /\ Event(c, "done")
    /\ Settle(c, Answer(Stream(c), streaming[c].tokens))
    /\ UNCHANGED panel

(* finalizeStreamSuccess: the total replaces what the page has counted.     *)
Done(c) ==
    /\ Event(c, "done")
    /\ LET total == Total(script[Stream(c)])
       IN Settle(c, Answer(Stream(c), IF total > 0 THEN total ELSE streaming[c].tokens))
    /\ UNCHANGED panel

Error(c) ==
    /\ Event(c, "error")
    /\ Settle(c, Failure(Stream(c)))
    /\ UNCHANGED panel

Deliver(c) ==
    \/ Delta(c) \/ MessageEnd(c) \/ ToolCall(c) \/ ToolResult(c)
    \/ Usage(c) \/ Done(c) \/ Error(c)

-------------------------------------------------------------------------------
(* The connection to OpenRouter *)

SetConnected(on) ==
    /\ connected' = on
    /\ Attach(IF on THEN Stored(chats) ELSE Nowhere, streaming)
    /\ UNCHANGED <<chatVars, pendingPosts, panel>>
    /\ RefreshBusy

(* toggleChatPanel opens the panel.                                         *)
OpenPanel ==
    /\ Move
    /\ auth' = [auth EXCEPT !.asked = @ + 1]
    /\ UNCHANGED <<chatVars, streamVars, serverVars, posts, logout, sent, lost,
                   pendingPosts, busy, connected, panel>>

HandleAuthStatus ==
    /\ auth.asked > 0
    /\ auth' = IF cookie THEN [auth EXCEPT !.asked = @ - 1, !.yes = @ + 1]
                         ELSE [auth EXCEPT !.asked = @ - 1, !.no = @ + 1]
    /\ UNCHANGED <<chatVars, streamVars, serverVars, posts, logout, sent, lost,
                   pendingPosts, busy, connected, panel, moves>>

AuthStatus ==
    /\ \/ auth.yes > 0 /\ auth' = [auth EXCEPT !.yes = @ - 1] /\ SetConnected(TRUE)
       \/ auth.no > 0 /\ auth' = [auth EXCEPT !.no = @ - 1] /\ SetConnected(FALSE)
    /\ UNCHANGED <<serverVars, posts, logout, sent, lost, moves>>

AuthStatusFails ==
    /\ Move
    /\ auth.asked > 0
    /\ auth' = [auth EXCEPT !.asked = @ - 1]
    /\ SetConnected(FALSE)
    /\ UNCHANGED <<serverVars, posts, logout, sent, lost>>

Logout ==
    /\ Move
    /\ connected /\ logout = "no"
    /\ logout' = "sent"
    /\ UNCHANGED <<chatVars, streamVars, serverVars, posts, auth, sent, lost,
                   pendingPosts, busy, connected, panel>>

HandleLogout ==
    /\ logout = "sent"
    /\ logout' = "answered" /\ cookie' = FALSE
    /\ UNCHANGED <<chatVars, streamVars, script, gone, posts, auth, sent, lost,
                   pendingPosts, busy, connected, panel, moves>>

LoggedOut ==
    /\ logout = "answered"
    /\ logout' = "no"
    /\ SetConnected(FALSE)
    /\ UNCHANGED <<serverVars, posts, auth, sent, lost, moves>>

(* The server has not seen the request; the page says the same.             *)
LogoutFails ==
    /\ Move
    /\ logout = "sent"
    /\ logout' = "no"
    /\ SetConnected(FALSE)
    /\ UNCHANGED <<serverVars, posts, auth, sent, lost>>

-------------------------------------------------------------------------------
(* The server forgets a session: the turn has ended long ago, or the server *)
(* was restarted and every connection breaks.                               *)
Expire(n) ==
    /\ Move
    /\ script[n] # <<>> /\ n \notin gone
    /\ gone' = gone \cup {n}
    /\ UNCHANGED <<chatVars, streamVars, cookie, script, askVars, pendingPosts, busy,
                   connected, panel>>

Restart ==
    /\ Move
    /\ gone' = {n \in Turns : script[n] # <<>>}
    /\ source' = [c \in Chats |-> IF source[c].state = "open"
                                  THEN [source[c] EXCEPT !.state = "connecting"] ELSE source[c]]
    /\ UNCHANGED <<chatVars, activeStreams, streaming, savedStreams, cookie, script, askVars,
                   pendingPosts, busy, connected, panel>>

-------------------------------------------------------------------------------
User_ ==
    \/ SendMessage \/ KeepEmptyChat \/ NewChat \/ OpenPanel \/ Logout \/ Login \/ Reload
    \/ \E c \in Chats : SelectChat(c) \/ DeleteChat(c)

Trouble ==
    \/ \E q \in posts : LosePost(q)
    \/ \E c \in Chats : Drop(c)
    \/ \E n \in Turns : Expire(n)
    \/ Restart \/ AuthStatusFails \/ LogoutFails

(* What goes on without the user.                                           *)
System ==
    \/ \E q \in posts : HandleChat(q) \/ PostAnswered(q) \/ PostFailed(q)
    \/ HandleAuthStatus \/ AuthStatus
    \/ HandleLogout \/ LoggedOut
    \/ \E c \in Chats : Connect(c) \/ StreamGone(c) \/ Deliver(c)

Next == User_ \/ Trouble \/ System

Spec == Init /\ [][Next]_vars

(* Something under way goes on: requests are answered and the events of a   *)
(* turn arrive, which is the fairness of ChatStream and a network that      *)
(* works.  Nothing the system does by itself goes in a circle, so it need   *)
(* not be fair to each request.  The user need not do anything.             *)
Fairness == WF_vars(System)

FairSpec == Spec /\ Fairness

-------------------------------------------------------------------------------
(* Properties *)

OwnQuestion(h, i) == i > 1 /\ h[i - 1] = User(h[i].turn)

(* One turn at a time in each chat, and each has one end: an answer or an   *)
(* error follows the message it is for, at once, and two messages follow    *)
(* each other only where a page navigation cut the first one's POST off     *)
(* (assistant.js:1526, 1647, 1035).                                         *)
TurnsAlternate == \A c \in Listed(chats) : LET h == history[c] IN
    \A i \in 1..Len(h) :
        IF h[i].role = "user"
        THEN i > 1 /\ h[i - 1].role = "user" => h[i - 1].turn \in lost
        ELSE OwnQuestion(h, i)

(* An answer costs what the server says, whatever was replayed              *)
(* (assistant.js:1006, 1042).                                               *)
UsageCountedOnce == \A c \in Chats : \A i \in 1..Len(history[c]) :
    LET m == history[c][i]
    IN m.role = "assistant" => m.tokens = Total(script[m.turn])

(* A page that is connected follows exactly the streams that localStorage   *)
(* has for its chats, so that the next page can (assistant.js:914, 1106).   *)
StreamsRemembered == \A c \in Listed(chats) :
    /\ activeStreams[c] # 0 => savedStreams[c] = activeStreams[c]
    /\ connected => savedStreams[c] = activeStreams[c]

(* Whatever the panel shows it shows once, unless a stream was connected    *)
(* again into a panel that had shown a part of it: the browser reconnected, *)
(* or the panel was opened during the turn.  (assistant.js:929 says that    *)
(* the panel is rebuilt cleanly.)                                           *)
NothingTwice == panel.replayed \/ \A n \in Turns : \A k \in Places : panel.shown[n][k] <= 1

(* The panel has every part of the turn in flight that has arrived, and of  *)
(* an answer what its messages stand for, with no tool call left running,   *)
(* unless a chat was deleted during the turn (assistant.js:319, 843).       *)
PanelIsWhole ==
    LET n == activeStreams[activeChat]
        arrived(k) == k <= source[activeChat].at /\ script[n][k] \in {"delta", "tool_call"}
    IN panel.wiped \/
       /\ n # 0 => \A k \in 1..Len(script[n]) : arrived(k) => panel.shown[n][k] > 0
       /\ \A a \in Answered(history[activeChat]) :
             \A k \in KeptByRender(script[a]) : panel.shown[a][k] > 0
       /\ \A a \in Answered(history[activeChat]) :
             panel.replayed \/ panel.running[a] = 0

Extends(s, t) == Len(s) <= Len(t) /\ SubSeq(t, 1, Len(s)) = s

(* A chat that is not deleted never loses a message, not even to the next   *)
(* page (assistant.js:242, 1058).                                           *)
HistoryOnlyGrows == [][\A c \in Listed(chats) \cap Listed(chats') :
    Extends(history[c], history'[c])]_vars

Settled(n) == \E c \in Chats : \E i \in 1..Len(history[c]) :
    history[c][i].turn = n /\ history[c][i].role # "user"

Asked(n) == \E c \in Listed(chats) : \E i \in 1..Len(history[c]) : history[c][i] = User(n)

(* As long as the page is connected and its chat is there, a message gets   *)
(* its answer or an error, in this page or a later one, unless a navigation *)
(* cut its POST off (assistant.js:1106).                                    *)
EveryTurnIsSettled == \A n \in Turns :
    Asked(n) /\ connected ~> Settled(n) \/ ~Asked(n) \/ ~connected \/ n \in lost
===============================================================================
