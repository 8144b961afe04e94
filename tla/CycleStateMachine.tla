------------------------- MODULE CycleStateMachine -------------------------
(***************************************************************************)
(* domain/cycleStateMachine.ts: the states of a payment cycle and the      *)
(* legal edges between them.                                               *)
(***************************************************************************)
EXTENDS Naturals

CycleStates == {"PENDING_QUOTE", "QUOTED", "FUNDS_RESERVED", "AUTO_APPROVED",
                "REQUIRES_APPROVAL", "EXECUTING", "SETTLED", "EXPIRED", "FAILED", "SKIPPED"}

TRANSITIONS ==
  [s \in CycleStates |->
     CASE s = "PENDING_QUOTE"     -> {"QUOTED", "SKIPPED"}
       [] s = "QUOTED"            -> {"FUNDS_RESERVED", "SKIPPED", "EXPIRED"}
       [] s = "FUNDS_RESERVED"    -> {"AUTO_APPROVED", "REQUIRES_APPROVAL", "EXPIRED"}
       [] s = "AUTO_APPROVED"     -> {"EXECUTING", "EXPIRED"}
       [] s = "REQUIRES_APPROVAL" -> {"AUTO_APPROVED", "SKIPPED", "EXPIRED"}
       [] s = "EXECUTING"         -> {"SETTLED", "FAILED"}
       [] OTHER                   -> {}]

canTransition(from, to) == to \in TRANSITIONS[from]

isTerminal(s) == TRANSITIONS[s] = {}

\* The states of S and those one transition further.
Onward(S) == S \cup {t \in CycleStates : \E s \in S : canTransition(s, t)}

\* A handler makes up to five transitions before it saves the row, on the way
\* from PENDING_QUOTE to SETTLED.
Reachable(from, to) == to \in Onward(Onward(Onward(Onward(Onward({from})))))
=============================================================================
