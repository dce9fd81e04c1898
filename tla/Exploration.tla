----------------------------- MODULE Exploration -----------------------------
(***************************************************************************)
(* coe_kernel/exploration.py: how many of the candidate hypotheses are     *)
(* taken from those the model finds unlikely.  A pool is given by its      *)
(* numbers of likely (high) and unlikely (low) candidates, the budget is   *)
(* the fraction Share / Whole.                                             *)
(***************************************************************************)
EXTENDS Integers

CONSTANTS Share, Whole      \* OPENSCI_EXPLORATION_RATIO = Share / Whole, 3 / 10 if unset

ASSUME BudgetAssumption == Whole \in Nat \ {0} /\ Share \in 0 .. Whole

AtMost(m, n) == IF m < n THEN m ELSE n

\* Python's round of p / q: to the nearest, and to the even one of two.
Round(p, q) ==
    LET floor == p \div q  rest == 2 * (p % q) IN
    IF rest > q \/ (rest = q /\ floor % 2 = 1) THEN floor + 1 ELSE floor

\* Mutant of NeedLow: int() without round().
NeedLowCut(n) == (n * Share) \div Whole

\* need_low of allocate.
NeedLow(n) == Round(n * Share, Whole)

\* allocate: the first of the low ones, and the first of the others for the rest.
Allocate(high, low) ==
    LET takeLow == AtMost(low, NeedLow(high + low)) IN
    [low |-> takeLow, high |-> AtMost(high, high + low - takeLow)]

\* measure: the rate in thousandths, and whether it comes up to the budget.
Rate(selected) == Round(1000 * selected.low, selected.low + selected.high)
Met(selected) ==
    selected.low + selected.high > 0 /\ Rate(selected) * Whole >= 1000 * Share
=============================================================================
