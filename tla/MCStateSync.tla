----------------------------- MODULE MCStateSync -----------------------------
(* Small instances of StateSync for TLC. *)
EXTENDS StateSync

CONSTANTS p, q, m1, m2, m3

(* Both threads make mutations (m2 is q's), or p makes them all. *)
MCOwner == [m \in Mutation |-> IF m = m2 THEN q ELSE p]
MCWriter == [m \in Mutation |-> p]
=============================================================================
