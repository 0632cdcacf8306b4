--------------------------- MODULE MCAgentControl ---------------------------
(* The control state with one operator process, two chats, one task: the   *)
(* smallest instance in which a chat succeeds another and every pair of    *)
(* different writers can overlap.                                          *)
EXTENDS AgentControl
=============================================================================
