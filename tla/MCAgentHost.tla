----------------------------- MODULE MCAgentHost -----------------------------
(***************************************************************************)
(* AgentHost for TLC.                                                      *)
(***************************************************************************)
EXTENDS AgentHost
=============================================================================
