----------------------------- MODULE MCAgentRuns ------------------------------
(* Instances of AgentRuns.                                                    *)
EXTENDS AgentRuns, TLC

CONSTANTS plain, sharded, c1, c2
=============================================================================
