--------------------------- MODULE MCAgentSession ---------------------------
(* Model-checking companion of AgentSession. *)
EXTENDS AgentSession
=============================================================================
