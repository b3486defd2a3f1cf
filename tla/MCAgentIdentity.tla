---------------------------- MODULE MCAgentIdentity ----------------------------
(* Instances of AgentIdentity for TLC. *)
EXTENDS AgentIdentity, TLC

=============================================================================
