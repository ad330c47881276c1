----------------------------- MODULE MCAgentLoop -----------------------------
(* Small instances of AgentLoop for TLC. *)
EXTENDS AgentLoop, TLC

CONSTANTS r1, r2, r3, cheap, fair, dear

(* One tool that always fits a fresh budget, one that fits a saved-up one
   only, and one that leaves a debt greater than the base. *)
MCCost == cheap :> 1 @@ fair :> 2 @@ dear :> 5
MCRuns == Permutations(Run)
=============================================================================
