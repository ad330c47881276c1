------------------------------- MODULE CallWindow -------------------------------
(***************************************************************************)
(* What the rate limit of the backend promises, per tier and over all       *)
(* sessions: a call is admitted exactly if fewer than Limit of its tier were *)
(* admitted within the last Window ticks, both ends included.  The whole     *)
(* history is kept here; the backend (module BackendAccess) forgets.         *)
(***************************************************************************)
EXTENDS Naturals, Sequences

CONSTANTS
  Tier,
  Limit,   \* Limit[t]: rateLimitPerMinute of the tier, or Unlimited
  Unlimited,
  Window   \* the 60,000 ms, in ticks

WindowAssumption ==
  /\ Unlimited \notin Nat
  /\ Limit \in [Tier -> (Nat \ {0}) \cup {Unlimited}]
  /\ Window \in Nat

VARIABLES
  clock,     \* Date.now() of the backend
  admitted,  \* per tier: when its calls were admitted
  refusals   \* per tier: how many were refused
vars == <<clock, admitted, refusals>>

Init ==
  /\ clock = 0
  /\ admitted = [t \in Tier |-> <<>>]
  /\ refusals = [t \in Tier |-> 0]

(* As many calls as may be were admitted in the window: the Limit-th last was. *)
Full(t) ==
  /\ Limit[t] # Unlimited
  /\ Len(admitted[t]) >= Limit[t]
  /\ admitted[t][Len(admitted[t]) - Limit[t] + 1] + Window >= clock

Admit(t) ==
  /\ ~Full(t)
  /\ admitted' = [admitted EXCEPT ![t] = Append(@, clock)]
  /\ UNCHANGED <<clock, refusals>>

Refuse(t) ==
  /\ Full(t)
  /\ refusals' = [refusals EXCEPT ![t] = @ + 1]
  /\ UNCHANGED <<clock, admitted>>

Tick == clock' = clock + 1 /\ UNCHANGED <<admitted, refusals>>

Next == Tick \/ \E t \in Tier : Admit(t) \/ Refuse(t)

Spec == Init /\ [][Next]_vars

-----------------------------------------------------------------------------
TypeOK ==
  /\ clock \in Nat
  /\ admitted \in [Tier -> Seq(Nat)]
  /\ refusals \in [Tier -> Nat]

(* Any Limit + 1 calls of a tier that were admitted one after the other are
   spread over more than the window, whoever made them. *)
RateLimited ==
  \A t \in Tier :
    Limit[t] # Unlimited =>
      \A i \in DOMAIN admitted[t] :
        i + Limit[t] \in DOMAIN admitted[t] =>
          admitted[t][i + Limit[t]] > admitted[t][i] + Window
=============================================================================
