----------------------------- MODULE MCChatStream -----------------------------
EXTENDS ChatStream

CONSTANTS c1, c2
===============================================================================
