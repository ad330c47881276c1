------------------------------- MODULE AgentLoop -------------------------------
(***************************************************************************)
(* packages/guide/src/agent-loop.ts: the Guide's agent loop.  A run is one  *)
(* call of runInteraction(): it alternates between waiting for a turn of    *)
(* the model and waiting for the tool calls of that turn, which run in      *)
(* parallel, and ends when the model has finished or failed, when the       *)
(* overspend gate has denied a call, or at maxTurns.                        *)
(*                                                                         *)
(* runInteraction() has no guard of its own against a run that is still     *)
(* going on; what the runs share (carryover, pressure, undispatched calls)  *)
(* is therefore state of the loop and not of a run.  The gate's roll is a   *)
(* free choice: its probability is neither 0 nor 1.                         *)
(***************************************************************************)
EXTENDS GuideBudget, Sequences, FiniteSets

CONSTANTS
  Run,         \* calls of runInteraction()
  ToolCall,    \* the tool calls the model makes, in any run
  Cost,        \* Cost[t]: what lookupCost() gives for the tool of t
  Base,        \* policy.base
  Premium,     \* the premiums a flushed queue can carry
  MaxPremium,  \* an upper bound of Premium
  MaxTurns,    \* options.maxTurns
  MaxBatch,    \* bound on the tool calls of one turn
  None         \* no run

ASSUME LoopAssumption ==
  /\ Cost \in [ToolCall -> Nat]
  /\ Base \in Nat /\ MaxPremium \in Nat
  /\ Premium \subseteq 0 .. MaxPremium
  /\ MaxTurns \in Nat \ {0} /\ MaxBatch \in Nat
  /\ None \notin Run

VARIABLES
  carryover, pressure,  \* the BudgetTracker's
  undispatched,         \* calls carried to the next run
  pendingUndispatched,  \* calls collected by the runs going on
  phase,                \* of a run: idle, turn, dispatch, finished or cut off
  total, consumed,      \* a run's InteractionBudget
  denied,               \* its gate has denied a call
  gatePressure,         \* the pressure its gate was made with
  turns,                \* its turnCount
  call,                 \* a tool call: new, running, ok, failed or denied
  caller,               \* the run that made it
  inTurn,               \* it belongs to the turn whose calls have not all settled
  weighed,              \* history: the pressures a run's gate foresaw and permitted
  shown,                \* history: calls carried into some run's status object
  parallel              \* history: runs that had several calls of a turn dispatched

trackerVars == <<carryover, pressure>>
carriedVars == <<undispatched, pendingUndispatched>>
budgetVars == <<total, consumed, denied, gatePressure>>
runVars == <<phase, turns, budgetVars>>
callVars == <<call, caller, inTurn>>
history == <<weighed, shown, parallel>>
loopVars == <<trackerVars, carriedVars, runVars, callVars, history>>

LoopInit ==
  /\ carryover = 0
  /\ pressure = 0
  /\ undispatched = {}
  /\ pendingUndispatched = {}
  /\ phase = [r \in Run |-> "idle"]
  /\ total = [r \in Run |-> 0]
  /\ consumed = [r \in Run |-> 0]
  /\ denied = [r \in Run |-> FALSE]
  /\ gatePressure = [r \in Run |-> 0]
  /\ turns = [r \in Run |-> 0]
  /\ call = [t \in ToolCall |-> "new"]
  /\ caller = [t \in ToolCall |-> None]
  /\ inTurn = [t \in ToolCall |-> FALSE]
  /\ weighed = [r \in Run |-> {}]
  /\ shown = {}
  /\ parallel = {}

Going(r) == phase[r] \in {"turn", "dispatch"}
CallsOf(r) == {t \in ToolCall : caller[t] = r /\ inTurn[t]}

-----------------------------------------------------------------------------
(* Mutant: what is shown is not taken. *)
StartRunKeeps(r, premium) ==
  /\ phase[r] = "idle"
  /\ phase' = [phase EXCEPT ![r] = "turn"]
  /\ turns' = [turns EXCEPT ![r] = 1]
  /\ total' = [total EXCEPT ![r] = BudgetFor(Base, premium, carryover)]
  /\ gatePressure' = [gatePressure EXCEPT ![r] = pressure]
  /\ shown' = shown \cup undispatched
  /\ UNCHANGED <<trackerVars, carriedVars, consumed, denied, callVars,
                 weighed, parallel>>

(* runInteraction() up to its first await: what the last run left over is
   taken, and shown to the model in the first turn's status object. *)
StartRun(r, premium) ==
  /\ phase[r] = "idle"
  /\ phase' = [phase EXCEPT ![r] = "turn"]
  /\ turns' = [turns EXCEPT ![r] = 1]
  /\ total' = [total EXCEPT ![r] = BudgetFor(Base, premium, carryover)]
  /\ gatePressure' = [gatePressure EXCEPT ![r] = pressure]
  /\ undispatched' = {}
  /\ shown' = shown \cup undispatched
  /\ UNCHANGED <<trackerVars, pendingUndispatched, consumed, denied, callVars,
                 weighed, parallel>>

(* Mutant: what was collected is not cleared. *)
EndKeeps(r, how, pending) ==
  /\ phase' = [phase EXCEPT ![r] = how]
  /\ undispatched' = pending
  /\ pendingUndispatched' = pending
  /\ carryover' = NextCarryover(total[r], consumed[r])
  /\ pressure' = NextPressure(pressure, total[r], consumed[r])

(* From the end of the loop to the return: pending is what all runs have
   collected so far, and how says whether the model finished. *)
End(r, how, pending) ==
  /\ phase' = [phase EXCEPT ![r] = how]
  /\ undispatched' = pending
  /\ pendingUndispatched' = {}
  /\ carryover' = NextCarryover(total[r], consumed[r])
  /\ pressure' = NextPressure(pressure, total[r], consumed[r])

(* provider.turn() returned FINISHED, or threw. *)
TurnEnds(r, how) ==
  /\ phase[r] = "turn"
  /\ End(r, how, pendingUndispatched)
  /\ UNCHANGED <<turns, budgetVars, callVars, history>>

(* provider.turn() returned tool calls.  They pass the gate one after the
   other against the same remaining budget: the calls before the first that
   is denied are dispatched, that one and all after it are not. *)
Distinct(seq) == \A i, j \in DOMAIN seq : seq[i] = seq[j] => i = j
OverBudget(r, t) == Overspends(Cost[t], total[r], consumed[r])
Foreseen(r, t) ==
  ProspectivePressure(gatePressure[r], Cost[t] - (total[r] - consumed[r]))

TurnCalls(r, calls, first) ==
  LET made == {calls[i] : i \in DOMAIN calls}
      admitted == {calls[i] : i \in 1 .. first - 1} IN
  /\ phase[r] = "turn"
  /\ Distinct(calls) /\ \A t \in made : call[t] = "new"
  /\ first \in 1 .. Len(calls) + 1
  /\ first <= Len(calls) => OverBudget(r, calls[first])
  /\ phase' = [phase EXCEPT ![r] = "dispatch"]
  /\ denied' = [denied EXCEPT ![r] = first <= Len(calls)]
  /\ call' = [t \in ToolCall |-> CASE t \in admitted -> "running"
                                   [] t \in made \ admitted -> "denied"
                                   [] OTHER -> call[t]]
  /\ caller' = [t \in ToolCall |-> IF t \in made THEN r ELSE caller[t]]
  /\ inTurn' = [t \in ToolCall |-> t \in made \/ inTurn[t]]
  /\ weighed' = [weighed EXCEPT ![r] =
                   @ \cup {Foreseen(r, t) : t \in {u \in admitted : OverBudget(r, u)}}]
  /\ parallel' = IF Cardinality(admitted) > 1 THEN parallel \cup {r} ELSE parallel
  /\ UNCHANGED <<trackerVars, carriedVars, turns, total, consumed, gatePressure, shown>>

(* registry.dispatch() settled; only what succeeded is paid for. *)
CallSettles(t, how) ==
  /\ call[t] = "running"
  /\ call' = [call EXCEPT ![t] = how]
  /\ consumed' = IF how = "ok" THEN [consumed EXCEPT ![caller[t]] = @ + Cost[t]]
                               ELSE consumed
  /\ UNCHANGED <<trackerVars, carriedVars, phase, turns, total, denied, gatePressure,
                 caller, inTurn, history>>

(* Mutant: a failure is waited for for ever. *)
AllSucceeded(r) == \A t \in CallsOf(r) : call[t] = "ok"

AllSettled(r) == \A t \in CallsOf(r) : call[t] # "running"
LastTurn(r) == denied[r] \/ turns[r] = MaxTurns

(* Every call of the turn has settled: what was not dispatched is collected,
   and the run ends or goes on with its next turn. *)
DispatchEnds(r) ==
  LET collected == pendingUndispatched
                     \cup {t \in CallsOf(r) : call[t] \in {"failed", "denied"}} IN
  /\ phase[r] = "dispatch"
  /\ AllSettled(r)
  /\ inTurn' = [t \in ToolCall |-> inTurn[t] /\ caller[t] # r]
  /\ \/ /\ LastTurn(r)
        /\ End(r, "cut off", collected)
        /\ UNCHANGED turns
     \/ /\ ~LastTurn(r)
        /\ phase' = [phase EXCEPT ![r] = "turn"]
        /\ turns' = [turns EXCEPT ![r] = @ + 1]
        /\ pendingUndispatched' = collected
        /\ UNCHANGED <<trackerVars, undispatched>>
  /\ UNCHANGED <<budgetVars, call, caller, history>>

Batch == UNION {[1 .. n -> ToolCall] : n \in 0 .. MaxBatch}

(* What a run does once it has started. *)
LoopStep ==
  \/ \E r \in Run : \/ TurnEnds(r, "finished") \/ TurnEnds(r, "cut off")
                    \/ \E calls \in Batch : \E first \in 1 .. Len(calls) + 1 :
                         TurnCalls(r, calls, first)
                    \/ DispatchEnds(r)
  \/ \E t \in ToolCall : CallSettles(t, "ok") \/ CallSettles(t, "failed")

(* A host that waits for a run's outcome before it starts the next. *)
Next ==
  \/ \E r \in Run, premium \in Premium :
       (\A s \in Run : ~Going(s)) /\ StartRun(r, premium)
  \/ LoopStep

Spec == LoopInit /\ [][Next]_loopVars

(* Model and tools answer in the end, the model with whatever it likes. *)
Fairness ==
  /\ \A r \in Run :
       /\ WF_loopVars(\/ TurnEnds(r, "finished") \/ TurnEnds(r, "cut off")
                      \/ \E calls \in Batch : \E first \in 1 .. Len(calls) + 1 :
                           TurnCalls(r, calls, first))
       /\ WF_loopVars(DispatchEnds(r))
  /\ \A t \in ToolCall : WF_loopVars(CallSettles(t, "ok") \/ CallSettles(t, "failed"))

FairSpec == Spec /\ Fairness

-----------------------------------------------------------------------------
(* The fields of the tracker, the budgets and the loop have their types. *)
Phases == {"idle", "turn", "dispatch", "finished", "cut off"}
TypeOK ==
  /\ carryover \in Int
  /\ pressure \in Nat
  /\ undispatched \subseteq ToolCall
  /\ pendingUndispatched \subseteq ToolCall
  /\ phase \in [Run -> Phases]
  /\ total \in [Run -> Int]
  /\ consumed \in [Run -> Nat]
  /\ denied \in [Run -> BOOLEAN]
  /\ turns \in [Run -> 0 .. MaxTurns]
  /\ call \in [ToolCall -> {"new", "running", "ok", "failed", "denied"}]
  /\ caller \in [ToolCall -> Run \cup {None}]
  /\ inTurn \in [ToolCall -> BOOLEAN]
  /\ gatePressure \in [Run -> Nat]
  /\ weighed \in [Run -> SUBSET Nat]
  /\ shown \subseteq ToolCall
  /\ parallel \subseteq Run

(* Saving up is bounded: however frugal the runs, what is carried over never
   exceeds one base and one premium, nor a budget twice that. *)
SavingsBounded ==
  /\ carryover <= Base + MaxPremium
  /\ \A r \in Run : total[r] <= 2 * (Base + MaxPremium)

(* specs/constrained-agent.spec.md, Overspend: what the gate weighs "is exactly
   the pressure that would be recorded at the end of the interaction".  No run
   whose calls were dispatched one at a time overspends without a roll, or
   leaves more pressure behind than a roll has permitted. *)
PressureForeseen ==
  [][\A r \in Run \ parallel : Going(r) /\ ~Going(r)' /\ consumed[r] > 0 /\ consumed[r] > total[r]
       => \E w \in weighed[r] : pressure' <= w]_loopVars

(* A call that was not dispatched, or failed, is neither forgotten nor shown
   twice: it waits in the run that made it or with the loop until the next
   run's status object shows it. *)
UndispatchedCarried ==
  \A t \in ToolCall :
    LET places == <<CallsOf(caller[t]), undispatched, pendingUndispatched, shown>> IN
    call[t] \in {"failed", "denied"} =>
      Cardinality({i \in DOMAIN places : t \in places[i]}) = 1

(* Once its gate has denied a call, a run starts no other: none begins to run
   between the denial and the end of the interaction. *)
NoneAfterDenial ==
  [][\A t \in ToolCall : call[t] = "new" /\ call'[t] = "running"
       => ~denied[caller'[t]]]_loopVars

(* What the gate decides is decided once: it foresees what an overspend costs,
   and what it has denied ends the dispatching. *)
GateHolds == PressureForeseen /\ NoneAfterDenial

(* Every interaction ends: by the model, the gate or maxTurns. *)
RunsEnd == \A r \in Run : Going(r) ~> ~Going(r)
=============================================================================
