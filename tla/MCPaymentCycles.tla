-------------------------- MODULE MCPaymentCycles --------------------------
(* Constants for the model-checking runs of PaymentCycles. *)
EXTENDS PaymentCyclesProperties, TLC

CONSTANTS c1, c2, c3, o1, o2, i1, i2, i3, t1, t2, t3, r1, r2, u1, u2

OneObligation == [c \in Cycles |-> o1]
OwnObligations == [c \in Cycles |-> IF c = c1 THEN o1 ELSE o2]

\* Prices within the limits, and one whose principal exceeds them.
Affordable == {[principal |-> 2, fee |-> 0]}
SmallAndLarge == {[principal |-> 1, fee |-> 0], [principal |-> 2, fee |-> 0]}
PriceSpread == {[principal |-> 2, fee |-> 0], [principal |-> 3, fee |-> 0]}

\* A month that pays twice for one small cycle, and for a small one and a large
\* one, but for no two large ones; and one that pays twice for any.
CapThree == [o \in Obligations |-> 3]
CapFive == [o \in Obligations |-> 5]

Names == Permutations(ReservationIds) \cup Permutations(TransferIds) \cup Permutations(Runners)
=============================================================================
