---------------------------- MODULE MCContinuity ----------------------------
(* Constants for the model-checking run of Continuity. *)
EXTENDS Continuity, TLC

CONSTANTS o1, o2, b1, b2, s1

\* Everybody has an address of their own.
OwnAddress == [x \in Obligations |-> x]

\* No property tells obligations apart, nor backup recipients.
Names == Permutations(Obligations) \cup Permutations(Backups)
=============================================================================
