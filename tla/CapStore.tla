------------------------------ MODULE CapStore ------------------------------
(***************************************************************************)
(* The contract of domain/reservation.ts: what a CapStore promises to the  *)
(* decision loop and the quote engine.  It is CumulativeCapStore, the      *)
(* in-memory store the unit tests run against.  A reservation is looked up *)
(* in a map and deleted from it when it is settled or released, so it is   *)
(* spent or given back once and never twice: a second call throws.         *)
(*                                                                         *)
(* A period nobody has initialised is indistinguishable, through the       *)
(* interface, from one that is initialised with nothing spent; the         *)
(* contract therefore starts with every period initialised.                *)
(***************************************************************************)
EXTENDS Integers

CONSTANTS Cycles,          \* cycle ids
          ReservationIds,  \* the ids a store may hand out
          ObligationOf,    \* the obligation a cycle belongs to
          Periods,         \* the calendar months of the cumulative cap
          Amounts,         \* what a reservation may ask for
          Cap              \* cumulativeCapAusd of each obligation

VARIABLES periods,         \* spent and reserved, per obligation and period
          held,            \* live reservations, by id
          settledCycles    \* cycles blocked for good

contractVars == <<periods, held, settledCycles>>

Key(c, m) == <<ObligationOf[c], m>>

\* activeCycles: the cycles with a live reservation.
activeCycles == {held[i].cycle : i \in DOMAIN held}

ContractInit ==
  /\ periods = [k \in {ObligationOf[c] : c \in Cycles} \X Periods
                  |-> [spent |-> 0, reserved |-> 0]]
  /\ held = [i \in {} |-> 0]
  /\ settledCycles = {}

\* reserve: refused for an active or settled cycle and beyond the cap.
ContractReserve(i, c, m, a) ==
  /\ c \notin activeCycles \cup settledCycles
  /\ i \in ReservationIds \ DOMAIN held
  /\ periods[Key(c, m)].spent + periods[Key(c, m)].reserved + a <= Cap[ObligationOf[c]]
  /\ periods' = [periods EXCEPT ![Key(c, m)].reserved = @ + a]
  /\ held' = [j \in DOMAIN held \cup {i} |->
                IF j = i THEN [cycle |-> c, period |-> m, amount |-> a] ELSE held[j]]
  /\ UNCHANGED settledCycles

Without(i) == [j \in DOMAIN held \ {i} |-> held[j]]

KeyOf(i) == Key(held[i].cycle, held[i].period)

\* settle: the reserved amount becomes spent, the cycle is blocked for good.
ContractSettle(i) ==
  /\ i \in DOMAIN held
  /\ periods' = [periods EXCEPT ![KeyOf(i)] =
                   [spent    |-> @.spent + held[i].amount,
                    reserved |-> @.reserved - held[i].amount]]
  /\ held' = Without(i)
  /\ settledCycles' = settledCycles \cup {held[i].cycle}

\* release: the reserved amount is free again, and so is the cycle.
ContractRelease(i) ==
  /\ i \in DOMAIN held
  /\ periods' = [periods EXCEPT ![KeyOf(i)].reserved = @ - held[i].amount]
  /\ held' = Without(i)
  /\ UNCHANGED settledCycles

ContractNext ==
  \/ \E i \in ReservationIds, c \in Cycles, m \in Periods, a \in Amounts :
       ContractReserve(i, c, m, a)
  \/ \E i \in ReservationIds : ContractSettle(i) \/ ContractRelease(i)

ContractSpec == ContractInit /\ [][ContractNext]_contractVars
=============================================================================
