------------------------------ MODULE GuideSession ------------------------------
(***************************************************************************)
(* apps/frontend/src: how the page feeds the Guide.  The EventQueue collects *)
(* UI events and rolls for a flush; DarklingApp sends a flush to the Guide's *)
(* worker as a runInteraction() call, or holds it until the service client  *)
(* is there, and releases the queue when the call settles.  The worker runs *)
(* an AgentLoop, which starts a run for every call that reaches it.         *)
(*                                                                         *)
(* A roll is a free choice, except that the event types of Certain have a   *)
(* trigger probability of 1 and those of Never one of 0.                    *)
(***************************************************************************)
EXTENDS Integers, Sequences, FiniteSets

CONSTANTS
  Event,           \* the UI events of a session
  SessionStart,    \* the first of them
  Address,         \* those of type direct_address
  Never,           \* those whose type never triggers
  AddressPremium,  \* policy.premium.direct_address
  Faults,          \* of {"timeout", "refuse"}
  ToolCall, Cost, Base, MaxTurns, MaxBatch, None  \* see AgentLoop

Certain == Address \cup {SessionStart}
Run == 1 .. Cardinality(Event)  \* a flush takes at least one event

ASSUME SessionAssumption ==
  /\ SessionStart \in Event
  /\ Address \subseteq Event \ {SessionStart}
  /\ Never \subseteq Event \ Certain
  /\ AddressPremium \in Nat
  /\ Faults \subseteq {"timeout", "refuse"}

VARIABLES
  seen,        \* events that have happened
  queue,       \* EventQueue.queue; a flush empties it, so its order is immaterial
  inProgress,  \* EventQueue.interactionInProgress
  held,        \* DarklingApp.pendingFlush, empty for null
  ready,       \* DarklingApp.guideProxy is built
  client,      \* a runInteraction() call: idle, waiting, answered, timeout, refused
  events,      \* the events a call carries
  carryover, pressure, undispatched, pendingUndispatched, phase, total, consumed,
  denied, gatePressure, turns, call, caller, inTurn, weighed, shown,
  parallel

pageVars == <<seen, queue, inProgress, held, ready, client, events>>
loopVars == <<carryover, pressure, undispatched, pendingUndispatched, phase, total,
              consumed, denied, gatePressure, turns, call, caller, inTurn, weighed,
              shown, parallel>>
vars == <<pageVars, loopVars>>

PremiumOf(S) == AddressPremium * Cardinality(S \cap Address)
Loop == INSTANCE AgentLoop WITH
  Premium <- {PremiumOf(S) : S \in SUBSET Event},
  MaxPremium <- PremiumOf(Event)

Init ==
  /\ seen = {} /\ queue = {} /\ inProgress = FALSE
  /\ held = {} /\ ready = FALSE
  /\ client = [r \in Run |-> "idle"]
  /\ events = [r \in Run |-> {}]
  /\ Loop!LoopInit

-----------------------------------------------------------------------------
(* runGuideInteraction(S): settled is what the calls so far have come to. *)
Call(S, settled) ==
  \E r \in Run :
    /\ client[r] = "idle" /\ \A s \in Run : s < r => client[s] # "idle"
    /\ client' = [settled EXCEPT ![r] = "waiting"]
    /\ events' = [events EXCEPT ![r] = S]

(* Mutant: the queue is not emptied. *)
FlushKeeps(S, settled) ==
  /\ queue' = S
  /\ inProgress' = TRUE
  /\ IF ready THEN Call(S, settled) /\ UNCHANGED held
     ELSE held' = S /\ client' = settled /\ UNCHANGED events
(* EventQueue.flush() and DarklingApp.handleFlush() *)
Flush(S, settled) ==
  /\ queue' = {}
  /\ inProgress' = TRUE
  /\ IF ready THEN Call(S, settled) /\ UNCHANGED held
     ELSE held' = S /\ client' = settled /\ UNCHANGED events

(* EventQueue.add(): firstUpdated() adds session_start, and what the Visitor
   does before that is ignored. *)
AddEvent(e) ==
  /\ e \notin seen
  /\ seen # {} <=> e # SessionStart
  /\ seen' = seen \cup {e}
  /\ \/ /\ ~inProgress /\ e \notin Never
        /\ Flush(queue \cup {e}, client)
     \/ /\ inProgress \/ e \notin Certain
        /\ queue' = queue \cup {e}
        /\ UNCHANGED <<inProgress, held, client, events>>
  /\ UNCHANGED <<ready, loopVars>>

(* DarklingApp.updated() once the service client is there *)
ProxyReady ==
  /\ ~ready /\ ready' = TRUE
  /\ held' = {}
  /\ IF held # {} THEN Call(held, client) ELSE UNCHANGED <<client, events>>
  /\ UNCHANGED <<seen, queue, inProgress, loopVars>>

(* Mutant: no roll when a call settles. *)
SettlesQuietly(r, how) ==
  /\ client[r] = "waiting"
  /\ client' = [client EXCEPT ![r] = how]
  /\ inProgress' = FALSE
  /\ UNCHANGED <<queue, held, events, seen, ready, loopVars>>

(* The call settles, and EventQueue.endInteraction() rolls for what is queued. *)
Settles(r, how) ==
  LET settled == [client EXCEPT ![r] = how] IN
  /\ client[r] = "waiting"
  /\ \/ queue \ Never # {} /\ Flush(queue, settled)
     \/ /\ queue \cap Certain = {}
        /\ inProgress' = FALSE
        /\ client' = settled
        /\ UNCHANGED <<queue, held, events>>
  /\ UNCHANGED <<seen, ready, loopVars>>

(* Mutant: the call returns before its run has ended. *)
CallReturnsEarly(r) == Settles(r, "answered")

CallReturns(r) ==
  /\ phase[r] \in {"finished", "cut off"}
  /\ Settles(r, "answered")

CallTimesOut(r) == "timeout" \in Faults /\ Settles(r, "timeout")

(* The service is not there, or its activation has failed. *)
CallRefused(r) ==
  /\ "refuse" \in Faults /\ phase[r] = "idle"
  /\ Settles(r, "refused")

(* The call reaches the worker, its caller waiting for it or not. *)
CallArrives(r) ==
  /\ client[r] \in {"waiting", "timeout"}
  /\ Loop!StartRun(r, PremiumOf(events[r]))
  /\ UNCHANGED pageVars

GuideStep == Loop!LoopStep /\ UNCHANGED pageVars

Next ==
  \/ \E e \in Event : AddEvent(e)
  \/ ProxyReady
  \/ \E r \in Run : CallReturns(r) \/ CallTimesOut(r) \/ CallRefused(r) \/ CallArrives(r)
  \/ GuideStep

Spec == Init /\ [][Next]_vars

(* The service client arrives and the call's timer fires.  Nothing is assumed
   of the Guide, of its worker or of the Visitor. *)
FairSpec ==
  /\ Spec
  /\ WF_vars(ProxyReady)
  /\ \A r \in Run : WF_vars(CallTimesOut(r))

-----------------------------------------------------------------------------
(* The fields of the page have their types. *)
TypeOK ==
  /\ seen \subseteq Event /\ queue \subseteq Event /\ held \subseteq Event
  /\ inProgress \in BOOLEAN /\ ready \in BOOLEAN
  /\ client \in [Run -> {"idle", "waiting", "answered", "timeout", "refused"}]
  /\ events \in [Run -> SUBSET Event]

(* An event that has happened is queued, held or sent, in exactly one place:
   no flush is superseded while it is held, and none is sent twice. *)
EventOnce ==
  \A e \in seen :
    Cardinality({r \in Run : e \in events[r]})
      + (IF e \in queue THEN 1 ELSE 0) + (IF e \in held THEN 1 ELSE 0) = 1

(* The queue defers its rolls exactly while a flush is held or a call is being
   waited for, and there is never more than one of these. *)
Waiting == {r \in Run : client[r] = "waiting"}
DeferredWhileBusy ==
  Cardinality(Waiting) + (IF held # {} THEN 1 ELSE 0) = (IF inProgress THEN 1 ELSE 0)

(* No event is lost or sent twice, nor a flush begun beside another, whatever
   the queue, the page and the worker do at the same time. *)
QueueSound == TypeOK /\ EventOnce /\ DeferredWhileBusy

(* As long as no call has timed out the worker sees what AgentLoop expects of
   its host: a run is started when no other is going on. *)
NoneTimedOut == \A r \in Run : client[r] # "timeout"
OneRunAtATime == [][NoneTimedOut => Loop!Next]_loopVars

(* specs/constrained-agent.spec.md, Interaction triggering: the roll of a direct
   address "is deferred and is guaranteed to trigger a flush once the
   interaction completes".  It is sent, whatever becomes of the interaction. *)
AddressHeard ==
  \A e \in Certain : (e \in seen) ~> (\E r \in Run : e \in events[r])
=============================================================================
