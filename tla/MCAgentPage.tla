----------------------------- MODULE MCAgentPage -----------------------------
(* One finished task of an earlier visit.                                      *)
EXTENDS AgentPage

MCHistory == {MaxGen + 1}
==============================================================================
