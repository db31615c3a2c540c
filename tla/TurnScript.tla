------------------------------ MODULE TurnScript -------------------------------
(***************************************************************************)
(* What the two ends of the assistant's stream agree on: ChatStream is      *)
(* proved to send it (internal/editor/chat.go), Assistant reads it          *)
(* (internal/editor/assistant.js).                                          *)
(***************************************************************************)
EXTENDS Integers, Sequences

(* The terminal event of a turn is its last one, and a tool call is followed *)
(* by its result at once.                                                    *)
IsScript(s) ==
    /\ s # <<>> /\ s[1] # "tool_result"
    /\ \A k \in 1..Len(s) : s[k] \in {"done", "error"} <=> k = Len(s)
    /\ \A k \in 1..Len(s) - 1 : s[k] = "tool_call" <=> s[k + 1] = "tool_result"
===============================================================================
