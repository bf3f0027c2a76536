---------------------------- MODULE MCAgentMesh ----------------------------
(* Instances of AgentMesh for TLC. *)
EXTENDS AgentMesh

=============================================================================
