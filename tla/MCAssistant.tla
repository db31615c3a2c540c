----------------------------- MODULE MCAssistant ------------------------------
EXTENDS Assistant

CONSTANTS c1, c2

(* An answer after a tool call, and a turn that fails after one.  The ends  *)
(* of messages that leave no bubble open are left out.                      *)
MCScripts ==
    {<<"tool_call", "tool_result", "delta", "usage", "done">>,
     <<"delta", "message_end", "tool_call", "tool_result", "error">>}
===============================================================================
