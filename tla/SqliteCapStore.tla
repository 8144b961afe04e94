--------------------------- MODULE SqliteCapStore ---------------------------
(***************************************************************************)
(* persistence/sqliteCapStore.ts: the cumulative-cap ledger in two tables, *)
(* cap_periods and cap_reservations.  Each call is one SQL transaction and *)
(* better-sqlite3 is synchronous, so each call is one step.                *)
(*                                                                         *)
(* Reservation rows are never deleted: settle() and release() update the   *)
(* counters of the row's period and then its status, whatever the status   *)
(* was.  Using a reservation once is left to the callers.                  *)
(***************************************************************************)
EXTENDS Integers, FiniteSetsExt

CONSTANTS Cycles,          \* cycle ids
          Obligations,     \* obligation ids
          ObligationOf,    \* the obligation a cycle belongs to
          ReservationIds,  \* the uuids reserve() may draw
          LastPeriod,      \* bound: calendar months 1 .. LastPeriod
          Prices,          \* what the market may quote: principal and fees
          Cap              \* cumulativeCapAusd of each obligation

Periods == 1 .. LastPeriod

\* totalAusd of a quote: principal plus both fees.
Cost(price) == price.principal + price.fee

Amounts == {Cost(price) : price \in Prices}

ASSUME StoreAssumption ==
  /\ ObligationOf \in [Cycles -> Obligations]
  /\ LastPeriod \in Nat \ {0}
  /\ Prices \subseteq [principal : Nat, fee : Nat]
  /\ Cap \in [Obligations -> Nat]

VARIABLES capPeriods,    \* table cap_periods; a row not `open' does not exist yet
          reservations   \* table cap_reservations, by id

storeVars == <<capPeriods, reservations>>

PeriodRow == [open : BOOLEAN, cap : Nat, spent : Int, reserved : Int]

Reservation == [cycle : Cycles, period : Periods, amount : Amounts,
                status : {"RESERVED", "SETTLED", "RELEASED"}]

StoreTypeOK ==
  /\ capPeriods \in [Obligations \X Periods -> PeriodRow]
  /\ DOMAIN reservations \subseteq ReservationIds
  /\ reservations \in [DOMAIN reservations -> Reservation]

NoPeriodRow == [open |-> FALSE, cap |-> 0, spent |-> 0, reserved |-> 0]

StoreInit ==
  /\ capPeriods = [k \in Obligations \X Periods |-> NoPeriodRow]
  /\ reservations = [i \in {} |-> 0]

Key(c, m) == <<ObligationOf[c], m>>

\* Table f with the row of key k inserted, or replaced.
Put(f, k, row) == [x \in DOMAIN f \cup {k} |-> IF x = k THEN row ELSE f[x]]

-----------------------------------------------------------------------------
(* reserve(), with the initPeriod() call that always precedes it. *)

FreshPeriodRow(c) == [open |-> TRUE, cap |-> Cap[ObligationOf[c]], spent |-> 0, reserved |-> 0]

\* initPeriod without ON CONFLICT DO NOTHING: a later run starts the month anew.
FaultyInitPeriod(c, m) == FreshPeriodRow(c)

\* initPeriod: INSERT ... ON CONFLICT DO NOTHING.
InitPeriod(c, m) ==
  IF capPeriods[Key(c, m)].open THEN capPeriods[Key(c, m)] ELSE FreshPeriodRow(c)

\* A duplicate check that forgets the settled rows.
FaultyDuplicate(c) ==
  \E i \in DOMAIN reservations : reservations[i].cycle = c /\ reservations[i].status = "RESERVED"

\* SELECT 1 ... WHERE cycle_id = ? AND status IN ('RESERVED', 'SETTLED').
Duplicate(c) ==
  \E i \in DOMAIN reservations :
    reservations[i].cycle = c /\ reservations[i].status \in {"RESERVED", "SETTLED"}

\* A cap check against what is spent, blind to what is reserved.
FaultyFits(row, a) == row.spent + a <= row.cap

\* ... WHERE spent + reserved + amount <= cap.
Fits(row, a) == row.spent + row.reserved + a <= row.cap

Reserve(i, c, m, a) ==
  LET row == InitPeriod(c, m) IN
  /\ i \in ReservationIds \ DOMAIN reservations
  /\ ~Duplicate(c)
  /\ Fits(row, a)
  /\ capPeriods' = [capPeriods EXCEPT ![Key(c, m)] = [row EXCEPT !.reserved = row.reserved + a]]
  /\ reservations' = Put(reservations, i,
                         [cycle |-> c, period |-> m, amount |-> a, status |-> "RESERVED"])

\* DUPLICATE_CYCLE or CAP_EXCEEDED: only the period row may have come into being.
RefuseReserve(c, m, a) ==
  /\ Duplicate(c) \/ ~Fits(InitPeriod(c, m), a)
  /\ capPeriods' = [capPeriods EXCEPT ![Key(c, m)] = InitPeriod(c, m)]
  /\ UNCHANGED reservations

-----------------------------------------------------------------------------
(* settle() and release(). *)

KeyOf(i) == Key(reservations[i].cycle, reservations[i].period)

\* A settle that books the spending and leaves the reservation in place.
FaultySettle(i) ==
  /\ i \in DOMAIN reservations
  /\ capPeriods' = [capPeriods EXCEPT ![KeyOf(i)].spent = @ + reservations[i].amount]
  /\ reservations' = [reservations EXCEPT ![i].status = "SETTLED"]

Booked(row, a) == [open |-> row.open, cap |-> row.cap,
                   spent |-> row.spent + a, reserved |-> row.reserved - a]

Settle(i) ==
  /\ i \in DOMAIN reservations
  /\ capPeriods' = [capPeriods EXCEPT ![KeyOf(i)] = Booked(@, reservations[i].amount)]
  /\ reservations' = [reservations EXCEPT ![i].status = "SETTLED"]

Release(i) ==
  /\ i \in DOMAIN reservations
  /\ capPeriods' = [capPeriods EXCEPT ![KeyOf(i)].reserved = @ - reservations[i].amount]
  /\ reservations' = [reservations EXCEPT ![i].status = "RELEASED"]

-----------------------------------------------------------------------------
(* The store under arbitrary callers that finish a reservation once. *)

StoreNext ==
  \/ \E c \in Cycles, m \in Periods, a \in Amounts :
       \/ \E i \in ReservationIds : Reserve(i, c, m, a)
       \/ RefuseReserve(c, m, a)
  \/ \E i \in DOMAIN reservations :
       reservations[i].status = "RESERVED" /\ (Settle(i) \/ Release(i))

StoreSpec == StoreInit /\ [][StoreNext]_storeVars

-----------------------------------------------------------------------------
(* Properties. *)

AmountIn(k, statuses) ==
  MapThenSumSet(LAMBDA i : reservations[i].amount,
                {i \in DOMAIN reservations : KeyOf(i) = k /\ reservations[i].status \in statuses})

\* The two counters of a month, which every call updates in place, are the
\* sums over the reservation rows they stand for: nothing is counted twice,
\* dropped, or left reserved (sqliteCapStore.ts:47-116).
LedgerExact ==
  \A k \in Obligations \X Periods :
    /\ capPeriods[k].reserved = AmountIn(k, {"RESERVED"})
    /\ capPeriods[k].spent = AmountIn(k, {"SETTLED"})

\* No sequence of calls commits more of a month than the obligation's cap: the
\* conditional UPDATE is enough whatever the callers do (reservation.ts:4-10).
WithinCap ==
  \A k \in Obligations \X Periods :
    capPeriods[k].spent + capPeriods[k].reserved <= capPeriods[k].cap

\* A cycle has at most one reservation that is live or spent: the rule that
\* replaced the on-chain backstop (reservation.ts:25-37).
OneReservationPerCycle ==
  \A i, j \in DOMAIN reservations :
    /\ reservations[i].cycle = reservations[j].cycle
    /\ reservations[i].status # "RELEASED"
    /\ reservations[j].status # "RELEASED"
    => i = j

\* Refinement mapping to the in-memory store.
Live == {i \in DOMAIN reservations : reservations[i].status = "RESERVED"}

ContractPeriods ==
  [k \in {ObligationOf[c] : c \in Cycles} \X Periods |->
     [spent |-> capPeriods[k].spent, reserved |-> capPeriods[k].reserved]]

ContractHeld ==
  [i \in Live |-> [cycle |-> reservations[i].cycle, period |-> reservations[i].period,
                   amount |-> reservations[i].amount]]

ContractSettled ==
  {reservations[i].cycle : i \in {j \in DOMAIN reservations : reservations[j].status = "SETTLED"}}

Contract == INSTANCE CapStore WITH periods <- ContractPeriods, held <- ContractHeld,
                                   settledCycles <- ContractSettled

\* The SQL tables behave as the in-memory store does: "the exact same
\* semantics" (sqliteCapStore.ts:4-5), as long as a reservation is finished once.
CapStoreContract == Contract!ContractSpec
=============================================================================
