---------------------------- MODULE MCCheckouts ----------------------------
(* Constants for the model-checking runs of Checkouts. *)
EXTENDS Checkouts, TLC

CONSTANTS o1, o2, q1, m1, k1, k2, s1

\* Everybody has an address of their own.
OwnAddress == [x \in Obligations \cup Payables |-> x]

\* No property tells checkouts apart, nor obligations.
Names == Permutations(CheckoutIds) \cup Permutations(Obligations)
=============================================================================
