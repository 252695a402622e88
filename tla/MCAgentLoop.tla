----------------------------- MODULE MCAgentLoop -----------------------------
(***************************************************************************)
(* A small instance of AgentLoop: up to four messages that call one or two  *)
(* tools, so that a conversation grows past a window of five messages.      *)
(***************************************************************************)
EXTENDS AgentLoop
=============================================================================
