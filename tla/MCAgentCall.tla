---------------------------- MODULE MCAgentCall ----------------------------
(* The instance of AgentCall for TLC.                                      *)
EXTENDS AgentCall
=============================================================================
