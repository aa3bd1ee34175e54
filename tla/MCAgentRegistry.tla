-------------------------- MODULE MCAgentRegistry --------------------------
(* Small instances of AgentRegistry for TLC.                                *)
EXTENDS AgentRegistry

CONSTANTS c1, c2, a1

\* All connections come from one agent: agents share nothing but the map.
OneAgent == [c \in Conns |-> a1]
=============================================================================
