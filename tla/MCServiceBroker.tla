--------------------------- MODULE MCServiceBroker ---------------------------
(* Small instances of ServiceBroker for TLC. *)
EXTENDS ServiceBroker, TLC

CONSTANTS a, b, ask, tell, sub, reg

(* ask and tell go from the main thread to a; while ask runs it calls b with
   sub; reg is the main thread registering b. *)
MCTo == [m \in Msg |-> IF m \in {sub, reg} THEN b ELSE a]
MCParent == [m \in Msg |-> IF m = sub THEN ask ELSE Main]

(* Hosts are told apart by nothing but their identity. *)
MCHosts == Permutations(Host)
=============================================================================
