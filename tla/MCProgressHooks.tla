-------------------------- MODULE MCProgressHooks --------------------------
(***************************************************************************)
(* Two subagents and the orchestrator; one running agent fits, so that the *)
(* second evicts the first, and one finished one is shown.  The agents are *)
(* interchangeable.                                                        *)
(***************************************************************************)
EXTENDS ProgressHooks, TLC

AgentSymmetry == Permutations(Agent)
MCItem == {"stage"}
=============================================================================
