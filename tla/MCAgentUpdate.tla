---------------------------- MODULE MCAgentUpdate ---------------------------
(* TLC instances of AgentUpdate.                                            *)
EXTENDS AgentUpdate, TLC

CONSTANTS v1, v2, v3, legacy
=============================================================================
