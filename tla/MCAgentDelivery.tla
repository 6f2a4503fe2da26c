---------------------------- MODULE MCAgentDelivery ----------------------------
(* The control plane and the agent of one environment, for TLC: one redeploy, one failing call. *)
EXTENDS AgentDelivery

=============================================================================
