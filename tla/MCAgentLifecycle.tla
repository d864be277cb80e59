-------------------------- MODULE MCAgentLifecycle --------------------------
(* Model values for AgentLifecycle: two agents, one request at a time.     *)
EXTENDS AgentLifecycle, TLC

CONSTANTS a1, a2, w1

=============================================================================
