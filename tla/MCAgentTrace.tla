---------------------------- MODULE MCAgentTrace ----------------------------
(* Instances of AgentTrace for TLC: all values are in the configurations.  *)
EXTENDS AgentTrace
=============================================================================
