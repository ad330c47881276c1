---------------------------- MODULE MCStateManager ----------------------------
(* Small instances of StateManager for TLC. *)
EXTENDS StateManager, TLC

CONSTANTS d1, d2

(* The visitor opens d1, and the Guide navigates to d2. *)
MCTarget == [p \in Proposal |-> IF p \in Opening THEN d1 ELSE d2]
=============================================================================
