--------------------------- MODULE MCAgentStream ---------------------------
(* The small instance of AgentStream. *)
EXTENDS AgentStream
=============================================================================
