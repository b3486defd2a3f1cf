---------------------------- MODULE MCAgentTunnel ----------------------------
(* Instances of AgentTunnel for TLC. *)
EXTENDS AgentTunnel, TLC

=============================================================================
