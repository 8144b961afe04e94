---------------------------- MODULE MCDueCycles ----------------------------
(* Constants for the model-checking runs of DueCycles. *)
EXTENDS DueCycles

\* Into the end of February of a leap year (days 55 and 57 are 2024-02-25 and
\* 2024-02-27) and of another (day 422 is 2025-02-26), before a March of five
\* Saturdays and one of three fortnights, with days of the month that February lacks.
SomePlans ==
  {[cadence |-> [kind |-> "WEEKLY", day |-> 6], createdAt |-> 422],
   [cadence |-> [kind |-> "BIWEEKLY", day |-> 0], createdAt |-> 57],
   [cadence |-> [kind |-> "MONTHLY", day |-> 31], createdAt |-> 55],
   [cadence |-> [kind |-> "MONTHLY", day |-> 30], createdAt |-> 422]}

\* With a ceiling of 20: what a cycle costs at most for the cap to be enough.
Steady == {[principal |-> 19, fees |-> 1]}

\* A rate that moved to the ceiling, one that moved beyond it, and beyond what the
\* policy lets through, and fees beyond theirs.
Moving == Steady \cup {[principal |-> 20, fees |-> 1], [principal |-> 22, fees |-> 1],
                      [principal |-> 23, fees |-> 1], [principal |-> 16, fees |-> 4]}
=============================================================================
