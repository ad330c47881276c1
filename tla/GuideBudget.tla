------------------------------ MODULE GuideBudget ------------------------------
(***************************************************************************)
(* packages/guide/src/budget.ts: the arithmetic of the Guide's budget, in   *)
(* whole units of cost.                                                    *)
(***************************************************************************)
EXTENDS Integers

(* BudgetTracker.budgetFor() *)
BudgetFor(base, premium, carryover) == base + premium + carryover

Smaller(a, b) == IF a <= b THEN a ELSE b
Larger(a, b) == IF a >= b THEN a ELSE b

(* Mutants: all of a frugal run's rest is saved, pressure below zero. *)
NextCarryoverAll(total, consumed) == total - consumed
NextPressureBelow(pressure, total, consumed) == (pressure \div 2) - (total - consumed)

(* BudgetTracker.reportInteraction() *)
NextCarryover(total, consumed) == Smaller(consumed, total - consumed)
NextPressure(pressure, total, consumed) ==
  Larger(0, (pressure \div 2) - Smaller(0, total - consumed))

(* Mutant: the pressure there is already is left out. *)
ProspectiveAlone(pressure, overspend) == overspend

(* overspendProbability(): the pressure a permitted overspend would leave,
   the only thing the gate weighs against the base. *)
ProspectivePressure(pressure, overspend) == (pressure \div 2) + overspend

(* InteractionBudget.attemptDispatch(): a call that fits is never gated. *)
Overspends(cost, total, consumed) == cost > total - consumed
=============================================================================
