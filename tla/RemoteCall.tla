------------------------------ MODULE RemoteCall ------------------------------
(***************************************************************************)
(* What a caller may rely on when it sends a call or a behaviour through    *)
(* the runtime, without clients, brokers, hosts or channels: RuntimeClient  *)
(* call() and behaviour() seen from outside.                                *)
(***************************************************************************)
EXTENDS Naturals

CONSTANTS
  Msg,   \* what is ever sent
  Call   \* the messages that have a promise; the others are behaviours

VARIABLES
  state,  \* idle, asked, or how the promise settled
  runs    \* how often the method has run
vars == <<state, runs>>

Init ==
  /\ state = [m \in Msg |-> "idle"]
  /\ runs = [m \in Msg |-> 0]

Ask(m) ==
  /\ state[m] = "idle"
  /\ state' = [state EXCEPT ![m] = "asked"]
  /\ UNCHANGED runs

(* A method runs at most once, also after its caller gave up, and never for a
   call that was refused. *)
Run(m) ==
  /\ state[m] \in {"asked", "abandoned"}
  /\ runs[m] = 0
  /\ runs' = [runs EXCEPT ![m] = 1]
  /\ UNCHANGED state

(* Only a method that has run answers. *)
Answer(m) ==
  /\ m \in Call /\ state[m] = "asked" /\ runs[m] = 1
  /\ state' = [state EXCEPT ![m] = "answered"]
  /\ UNCHANGED runs

Refuse(m) ==
  /\ m \in Call /\ state[m] = "asked" /\ runs[m] = 0
  /\ state' = [state EXCEPT ![m] = "refused"]
  /\ UNCHANGED runs

(* The timer, dispose() and the death of the caller. *)
Abandon(S) ==
  /\ S \subseteq Call /\ \A m \in S : state[m] = "asked"
  /\ state' = [m \in Msg |-> IF m \in S THEN "abandoned" ELSE state[m]]
  /\ UNCHANGED runs

Next ==
  \/ \E m \in Msg : Ask(m) \/ Run(m) \/ Answer(m) \/ Refuse(m)
  \/ \E S \in SUBSET Call : Abandon(S)

Spec == Init /\ [][Next]_vars
=============================================================================
