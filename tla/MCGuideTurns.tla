----------------------------- MODULE MCGuideTurns -----------------------------
(* Small instances of GuideTurns for TLC. *)
EXTENDS GuideTurns, TLC

CONSTANTS r1, r2, r3, note, revise, stray, update

(* As deployed, update_working_memory is the only tool.  One update is free,
   one exceeds the base budget, and one, which shares its id with the second,
   has arguments that are not JSON. *)
MCName == [t \in ToolCall |-> update]
MCCallId == note :> 1 @@ revise :> 2 @@ stray :> 2
MCCost == note :> 0 @@ revise :> 2 @@ stray :> 0
MCRuns == Permutations(Run)
=============================================================================
