----------------------------- MODULE MCServiceBus -----------------------------
(* Small instances of ServiceBus for TLC. *)
EXTENDS ServiceBus, TLC

CONSTANTS guide, kb, turn, scroll, search

(* The page calls guide with turn and with scroll; the handler of turn calls kb
   with search, unless search is left out; kb may be guide itself. *)
MCTo == [c \in Call |-> IF c = search THEN kb ELSE guide]
MCParent == [c \in Call |-> IF c = search THEN turn ELSE None]
=============================================================================
