------------------------ MODULE SqliteCapStoreProofs ------------------------
(***************************************************************************)
(* The cap ledger for every set of cycles, obligations, prices and caps:   *)
(* no month beyond its cap, one reservation per cycle, the contract of     *)
(* CapStore, and counters that are the sums they stand for.  The lemmas on *)
(* single calls are also what the proofs about PaymentCycles use; they     *)
(* make no assumption on how often a caller finishes a reservation.        *)
(***************************************************************************)
EXTENDS SqliteCapStore, FiniteSetTheorems, TLAPS

\* A quote's total is a natural number (decisionLoop.ts:50-52).
LEMMA AmountsNat == Amounts \subseteq Nat
  BY StoreAssumption DEF Amounts, Cost

\* Every cycle and month name a row of cap_periods.
LEMMA KeyType ==
  ASSUME NEW c \in Cycles, NEW m \in Periods
  PROVE  Key(c, m) \in Obligations \X Periods
  BY StoreAssumption DEF Key

\* The row initPeriod() leaves is well typed, whether it was there before or not.
LEMMA InitPeriodType ==
  ASSUME StoreTypeOK, NEW c \in Cycles, NEW m \in Periods
  PROVE  InitPeriod(c, m) \in PeriodRow
  BY KeyType, StoreAssumption
  DEF StoreTypeOK, InitPeriod, FreshPeriodRow, PeriodRow

\* Inserting into a table, or replacing a row of it, keeps its type.
LEMMA PutType ==
  ASSUME NEW S, NEW T, NEW f, DOMAIN f \subseteq S, f \in [DOMAIN f -> T],
         NEW k \in S, NEW row \in T
  PROVE  /\ DOMAIN Put(f, k, row) \subseteq S
         /\ Put(f, k, row) \in [DOMAIN Put(f, k, row) -> T]
  BY DEF Put

\* reserve() keeps the tables well typed (sqliteCapStore.ts:47-89).
LEMMA ReserveType ==
  ASSUME StoreTypeOK, NEW i, NEW c \in Cycles, NEW m \in Periods, NEW a \in Amounts,
         Reserve(i, c, m, a)
  PROVE  StoreTypeOK'
<1> DEFINE row == InitPeriod(c, m)
           rec == [cycle |-> c, period |-> m, amount |-> a, status |-> "RESERVED"]
<1>1. row \in PeriodRow
  BY InitPeriodType
<1>2. [row EXCEPT !.reserved = row.reserved + a] \in PeriodRow
  BY <1>1, AmountsNat DEF PeriodRow
<1>3. capPeriods' = [capPeriods EXCEPT ![Key(c, m)] = [row EXCEPT !.reserved = row.reserved + a]]
  BY DEF Reserve
<1>4. capPeriods' \in [Obligations \X Periods -> PeriodRow]
  BY <1>2, <1>3, KeyType DEF StoreTypeOK
<1>5. rec \in Reservation
  BY DEF Reservation
<1>6. i \in ReservationIds /\ reservations' = Put(reservations, i, rec)
  BY DEF Reserve
<1>7. /\ DOMAIN Put(reservations, i, rec) \subseteq ReservationIds
      /\ Put(reservations, i, rec) \in [DOMAIN Put(reservations, i, rec) -> Reservation]
  <2> HIDE DEF rec
  <2> QED
    BY <1>5, <1>6, PutType DEF StoreTypeOK
<1>8. QED
  BY <1>4, <1>6, <1>7 DEF StoreTypeOK

\* A refused reserve() keeps them, too.
LEMMA RefuseType ==
  ASSUME StoreTypeOK, NEW c \in Cycles, NEW m \in Periods, NEW a \in Amounts,
         RefuseReserve(c, m, a)
  PROVE  StoreTypeOK'
  BY InitPeriodType, KeyType DEF StoreTypeOK, RefuseReserve

\* Booking a reserved amount as spent keeps a row of cap_periods well typed.
LEMMA BookedType ==
  ASSUME NEW row \in PeriodRow, NEW a \in Nat
  PROVE  Booked(row, a) \in PeriodRow
  BY DEF PeriodRow, Booked

\* settle() keeps the tables well typed (sqliteCapStore.ts:91-103).
LEMMA SettleType ==
  ASSUME StoreTypeOK, NEW i, Settle(i)
  PROVE  /\ StoreTypeOK'
         /\ i \in DOMAIN reservations
         /\ reservations' = [reservations EXCEPT ![i].status = "SETTLED"]
<1>1. i \in DOMAIN reservations /\ reservations[i] \in Reservation
  BY DEF Settle, StoreTypeOK
<1>2. KeyOf(i) \in Obligations \X Periods /\ reservations[i].amount \in Nat
  BY <1>1, KeyType, AmountsNat DEF KeyOf, Reservation
<1>3. capPeriods[KeyOf(i)] \in PeriodRow
  BY <1>2 DEF StoreTypeOK
<1> DEFINE booked == Booked(capPeriods[KeyOf(i)], reservations[i].amount)
<1>a. booked \in PeriodRow
  BY <1>2, <1>3, BookedType
<1>4. capPeriods' \in [Obligations \X Periods -> PeriodRow]
  <2>1. capPeriods' = [capPeriods EXCEPT ![KeyOf(i)] = booked]
    BY DEF Settle
  <2> QED
    BY <1>2, <1>a, <2>1 DEF StoreTypeOK
<1>5. [reservations[i] EXCEPT !.status = "SETTLED"] \in Reservation
  BY <1>1 DEF Reservation
<1>6. reservations' \in [DOMAIN reservations -> Reservation]
  BY <1>1, <1>5 DEF Settle, StoreTypeOK
<1>7. QED
  BY <1>1, <1>4, <1>6 DEF StoreTypeOK, Settle

\* release() keeps the tables well typed (sqliteCapStore.ts:105-116).
LEMMA ReleaseType ==
  ASSUME StoreTypeOK, NEW i, Release(i)
  PROVE  /\ StoreTypeOK'
         /\ i \in DOMAIN reservations
         /\ reservations' = [reservations EXCEPT ![i].status = "RELEASED"]
<1>1. i \in DOMAIN reservations /\ reservations[i] \in Reservation
  BY DEF Release, StoreTypeOK
<1>2. KeyOf(i) \in Obligations \X Periods /\ reservations[i].amount \in Nat
  BY <1>1, KeyType, AmountsNat DEF KeyOf, Reservation
<1>3. capPeriods[KeyOf(i)] \in PeriodRow
  BY <1>2 DEF StoreTypeOK
<1>4. capPeriods' \in [Obligations \X Periods -> PeriodRow]
  BY <1>2, <1>3 DEF Release, StoreTypeOK, PeriodRow
<1>5. [reservations[i] EXCEPT !.status = "RELEASED"] \in Reservation
  BY <1>1 DEF Reservation
<1>6. reservations' \in [DOMAIN reservations -> Reservation]
  BY <1>1, <1>5 DEF Release, StoreTypeOK
<1>7. QED
  BY <1>1, <1>4, <1>6 DEF StoreTypeOK, Release

-----------------------------------------------------------------------------
(* The cap, whatever the callers do. *)

\* A reservation is made only where it fits into the month (sqliteCapStore.ts:63-75).
LEMMA ReserveWithinCap ==
  ASSUME StoreTypeOK, WithinCap, NEW i, NEW c \in Cycles, NEW m \in Periods,
         NEW a \in Amounts, Reserve(i, c, m, a)
  PROVE  WithinCap'
<1> DEFINE row == InitPeriod(c, m)
           new == [row EXCEPT !.reserved = row.reserved + a]
<1>1. row \in PeriodRow /\ a \in Nat
  BY InitPeriodType, AmountsNat
<1>2. /\ capPeriods' = [capPeriods EXCEPT ![Key(c, m)] = new]
      /\ row.spent + row.reserved + a <= row.cap
  BY DEF Reserve, Fits
<1>3. new.spent = row.spent /\ new.reserved = row.reserved + a /\ new.cap = row.cap
  BY <1>1 DEF PeriodRow
<1>4. new.spent + new.reserved <= new.cap
  <2> HIDE DEF row
  <2> QED
    BY <1>1, <1>2, <1>3 DEF PeriodRow
<1>5. QED
  <2> HIDE DEF new
  <2> QED
    BY <1>2, <1>4, KeyType DEF WithinCap, StoreTypeOK

\* A refusal leaves a month with room, or a new row with nothing in it.
LEMMA RefuseWithinCap ==
  ASSUME StoreTypeOK, WithinCap, NEW c \in Cycles, NEW m \in Periods,
         NEW a \in Amounts, RefuseReserve(c, m, a)
  PROVE  WithinCap'
<1>1. InitPeriod(c, m).spent + InitPeriod(c, m).reserved <= InitPeriod(c, m).cap
  BY KeyType, StoreAssumption DEF WithinCap, InitPeriod, FreshPeriodRow
<1>2. QED
  BY <1>1, KeyType DEF RefuseReserve, WithinCap, StoreTypeOK

\* settle() moves an amount within the month, called once or again
\* (sqliteCapStore.ts:91-103).
LEMMA SettleWithinCap ==
  ASSUME StoreTypeOK, WithinCap, NEW i, Settle(i)
  PROVE  WithinCap'
<1> DEFINE k == KeyOf(i)
           row == capPeriods[k]
           a == reservations[i].amount
<1>1. i \in DOMAIN reservations /\ reservations[i] \in Reservation
  BY DEF Settle, StoreTypeOK
<1>2. k \in Obligations \X Periods /\ a \in Nat
  BY <1>1, KeyType, AmountsNat DEF KeyOf, Reservation
<1>3. row \in PeriodRow /\ row.spent + row.reserved <= row.cap
  BY <1>2 DEF StoreTypeOK, WithinCap
<1>4. Booked(row, a).spent + Booked(row, a).reserved <= Booked(row, a).cap
  BY <1>2, <1>3 DEF Booked, PeriodRow
<1>5. capPeriods' = [capPeriods EXCEPT ![k] = Booked(row, a)]
  BY DEF Settle
<1>6. QED
  <2> HIDE DEF k, row, a
  <2> QED
    BY <1>2, <1>4, <1>5 DEF WithinCap, StoreTypeOK

\* release() only frees (sqliteCapStore.ts:105-116).
LEMMA ReleaseWithinCap ==
  ASSUME StoreTypeOK, WithinCap, NEW i, Release(i)
  PROVE  WithinCap'
<1>1. i \in DOMAIN reservations /\ reservations[i] \in Reservation
  BY DEF Release, StoreTypeOK
<1>2. KeyOf(i) \in Obligations \X Periods /\ reservations[i].amount \in Nat
  BY <1>1, KeyType, AmountsNat DEF KeyOf, Reservation
<1>3. QED
  BY <1>2 DEF Release, WithinCap, StoreTypeOK, PeriodRow

-----------------------------------------------------------------------------
(* The store with callers that finish a reservation once. *)

\* Every step of the store keeps its tables well typed.
LEMMA StoreStepType ==
  ASSUME StoreTypeOK, [StoreNext]_storeVars
  PROVE  StoreTypeOK'
<1>1. CASE UNCHANGED storeVars
  BY <1>1 DEF StoreTypeOK, storeVars
<1>2. CASE StoreNext
  BY <1>2, ReserveType, RefuseType, SettleType, ReleaseType DEF StoreNext
<1>3. QED
  BY <1>1, <1>2

\* The empty tables are well typed.
LEMMA StoreInitType == StoreInit => StoreTypeOK
  BY DEF StoreInit, StoreTypeOK, NoPeriodRow, PeriodRow

\* The tables stay well typed (sqliteCapStore.ts:34-133).
THEOREM StoreTypeCorrect == StoreSpec => []StoreTypeOK
  BY StoreInitType, StoreStepType, PTL DEF StoreSpec

\* No month is ever committed beyond its cap: the conditional UPDATE is enough,
\* for any caps, prices and interleaving of calls (reservation.ts:4-10).
THEOREM StoreWithinCap == StoreSpec => []WithinCap
<1>1. StoreInit => WithinCap
  BY DEF StoreInit, WithinCap, NoPeriodRow
<1>2. StoreTypeOK /\ WithinCap /\ [StoreNext]_storeVars => WithinCap'
  <2> SUFFICES ASSUME StoreTypeOK, WithinCap, [StoreNext]_storeVars
               PROVE  WithinCap'
    OBVIOUS
  <2>1. CASE UNCHANGED storeVars
    BY <2>1 DEF WithinCap, storeVars
  <2>2. CASE StoreNext
    BY <2>2, ReserveWithinCap, RefuseWithinCap, SettleWithinCap, ReleaseWithinCap
    DEF StoreNext
  <2>3. QED
    BY <2>1, <2>2
<1>3. QED
  BY <1>1, <1>2, StoreTypeCorrect, PTL DEF StoreSpec

\* A new reservation is the only live or spent one of its cycle.
LEMMA ReserveUnique ==
  ASSUME StoreTypeOK, OneReservationPerCycle, NEW i, NEW c, NEW m, NEW a,
         Reserve(i, c, m, a)
  PROVE  OneReservationPerCycle'
  BY DEF Reserve, Duplicate, Put, OneReservationPerCycle, StoreTypeOK, Reservation

\* settle() keeps the rule as long as the reservation was not released before.
LEMMA SettleUnique ==
  ASSUME StoreTypeOK, OneReservationPerCycle, NEW i, Settle(i),
         reservations[i].status # "RELEASED"
  PROVE  OneReservationPerCycle'
<1>1. reservations' = [reservations EXCEPT ![i].status = "SETTLED"]
  BY DEF Settle
<1>2. \A j \in DOMAIN reservations :
        /\ reservations'[j].cycle = reservations[j].cycle
        /\ reservations'[j].status # "RELEASED" => reservations[j].status # "RELEASED"
  BY <1>1 DEF StoreTypeOK, Reservation
<1>3. QED
  BY <1>1, <1>2 DEF OneReservationPerCycle

\* release() cannot break the rule.
LEMMA ReleaseUnique ==
  ASSUME StoreTypeOK, OneReservationPerCycle, NEW i, Release(i)
  PROVE  OneReservationPerCycle'
<1>1. reservations' = [reservations EXCEPT ![i].status = "RELEASED"]
  BY DEF Release
<1>2. \A j \in DOMAIN reservations :
        /\ reservations'[j].cycle = reservations[j].cycle
        /\ reservations'[j].status # "RELEASED" => reservations[j].status # "RELEASED"
  BY <1>1 DEF StoreTypeOK, Reservation
<1>3. QED
  BY <1>1, <1>2 DEF OneReservationPerCycle

\* A cycle has at most one reservation that is live or spent
\* (reservation.ts:25-37), for callers that finish a reservation once.
THEOREM StoreOneReservation == StoreSpec => []OneReservationPerCycle
<1>1. StoreInit => OneReservationPerCycle
  BY DEF StoreInit, OneReservationPerCycle
<1>2. StoreTypeOK /\ OneReservationPerCycle /\ [StoreNext]_storeVars => OneReservationPerCycle'
  <2> SUFFICES ASSUME StoreTypeOK, OneReservationPerCycle, [StoreNext]_storeVars
               PROVE  OneReservationPerCycle'
    OBVIOUS
  <2>1. CASE UNCHANGED storeVars
    BY <2>1 DEF OneReservationPerCycle, storeVars
  <2>2. CASE StoreNext
    <3>1. ASSUME NEW c \in Cycles, NEW m \in Periods, NEW a \in Amounts,
                 (\E i \in ReservationIds : Reserve(i, c, m, a)) \/ RefuseReserve(c, m, a)
          PROVE  OneReservationPerCycle'
      <4>1. CASE \E i \in ReservationIds : Reserve(i, c, m, a)
        BY <4>1, ReserveUnique
      <4>2. CASE RefuseReserve(c, m, a)
        BY <4>2 DEF RefuseReserve, OneReservationPerCycle
      <4>3. QED
        BY <3>1, <4>1, <4>2
    <3>2. ASSUME NEW i \in DOMAIN reservations, reservations[i].status = "RESERVED",
                 Settle(i) \/ Release(i)
          PROVE  OneReservationPerCycle'
      BY <3>2, SettleUnique, ReleaseUnique
    <3>3. QED
      BY <2>2, <3>1, <3>2 DEF StoreNext
  <2>3. QED
    BY <2>1, <2>2
<1>3. QED
  BY <1>1, <1>2, StoreTypeCorrect, PTL DEF StoreSpec

-----------------------------------------------------------------------------
(* The SQL ledger implements the contract of domain/reservation.ts.  A     *)
(* period row that does not exist stands for one with nothing in it, and   *)
(* the rows of finished reservations for what the in-memory store forgets. *)

\* A month's row carries the obligation's cap, and holds nothing before it
\* exists.
RowsCarryCap ==
  \A k \in Obligations \X Periods :
    IF capPeriods[k].open THEN capPeriods[k].cap = Cap[k[1]] ELSE capPeriods[k] = NoPeriodRow

\* A reservation is only made in a month that has its row.
ReservedRowsOpen == \A i \in DOMAIN reservations : capPeriods[KeyOf(i)].open

ContractKeys == {ObligationOf[c] : c \in Cycles} \X Periods

\* The contract's periods are rows of the table.
LEMMA ContractKeysType ==
  /\ ContractKeys \subseteq Obligations \X Periods
  /\ \A c \in Cycles, m \in Periods : Key(c, m) \in ContractKeys
  BY StoreAssumption DEF ContractKeys, Key

\* initPeriod() changes neither counter.
LEMMA InitPeriodSame ==
  ASSUME StoreTypeOK, RowsCarryCap, NEW c \in Cycles, NEW m \in Periods
  PROVE  /\ InitPeriod(c, m).spent = capPeriods[Key(c, m)].spent
         /\ InitPeriod(c, m).reserved = capPeriods[Key(c, m)].reserved
         /\ InitPeriod(c, m).cap = Cap[ObligationOf[c]]
         /\ InitPeriod(c, m).open
<1>1. Key(c, m) \in Obligations \X Periods /\ Key(c, m)[1] = ObligationOf[c]
  BY KeyType DEF Key
<1>2. QED
  BY <1>1 DEF RowsCarryCap, InitPeriod, FreshPeriodRow, NoPeriodRow

\* Every call keeps the cap of a row.
LEMMA RowsCarryCapStep ==
  ASSUME StoreTypeOK, RowsCarryCap, ReservedRowsOpen, [StoreNext]_storeVars
  PROVE  RowsCarryCap'
<1>1. CASE UNCHANGED storeVars
  BY <1>1 DEF RowsCarryCap, storeVars
<1>2. ASSUME NEW c \in Cycles, NEW m \in Periods, NEW row \in PeriodRow,
             row.open, row.cap = Cap[ObligationOf[c]],
             capPeriods' = [capPeriods EXCEPT ![Key(c, m)] = row]
      PROVE  RowsCarryCap'
  <2>1. Key(c, m) \in Obligations \X Periods /\ Key(c, m)[1] = ObligationOf[c]
    BY KeyType DEF Key
  <2>2. QED
    BY <1>2, <2>1 DEF RowsCarryCap, StoreTypeOK
<1>3. ASSUME NEW i \in ReservationIds, NEW c \in Cycles, NEW m \in Periods, NEW a \in Amounts,
             Reserve(i, c, m, a)
      PROVE  RowsCarryCap'
  <2> DEFINE row == InitPeriod(c, m)
             new == [row EXCEPT !.reserved = row.reserved + a]
  <2>1. row \in PeriodRow /\ row.open /\ row.cap = Cap[ObligationOf[c]]
    BY InitPeriodType, InitPeriodSame
  <2>2. new \in PeriodRow /\ new.open /\ new.cap = Cap[ObligationOf[c]]
    <3> HIDE DEF row
    <3> QED
      BY <2>1, AmountsNat DEF PeriodRow
  <2>3. capPeriods' = [capPeriods EXCEPT ![Key(c, m)] = new]
    BY <1>3 DEF Reserve
  <2>4. QED
    <3> HIDE DEF new
    <3> QED
      BY <1>2, <2>2, <2>3
<1>4. ASSUME NEW c \in Cycles, NEW m \in Periods, NEW a \in Amounts, RefuseReserve(c, m, a)
      PROVE  RowsCarryCap'
  BY <1>2, <1>4, InitPeriodType, InitPeriodSame DEF RefuseReserve
<1>5. ASSUME NEW i \in DOMAIN reservations, Settle(i) \/ Release(i)
      PROVE  RowsCarryCap'
  <2>1. reservations[i] \in Reservation
    BY DEF StoreTypeOK
  <2>2. KeyOf(i) \in Obligations \X Periods /\ reservations[i].amount \in Nat
    BY <2>1, KeyType, AmountsNat DEF KeyOf, Reservation
  <2> DEFINE k == KeyOf(i)
             row == capPeriods[k]
  <2>3. row \in PeriodRow
    BY <2>2 DEF StoreTypeOK
  <2>4. row.open
    BY DEF ReservedRowsOpen
  <2>5. QED
    BY <1>5, <2>2, <2>3, <2>4 DEF RowsCarryCap, Settle, Release, Booked, StoreTypeOK, PeriodRow
<1>6. QED
  BY <1>1, <1>3, <1>4, <1>5 DEF StoreNext

\* No row disappears, and reserve() leaves its row in existence.
LEMMA ReservedRowsOpenStep ==
  ASSUME StoreTypeOK, RowsCarryCap, ReservedRowsOpen, [StoreNext]_storeVars
  PROVE  ReservedRowsOpen'
<1>1. CASE UNCHANGED storeVars
  BY <1>1 DEF ReservedRowsOpen, KeyOf, storeVars
<1>2. \A j \in DOMAIN reservations :
        reservations[j] \in Reservation /\ KeyOf(j) \in Obligations \X Periods
  BY KeyType DEF StoreTypeOK, KeyOf, Reservation
<1>3. ASSUME NEW i \in ReservationIds, NEW c \in Cycles, NEW m \in Periods, NEW a \in Amounts,
             Reserve(i, c, m, a)
      PROVE  ReservedRowsOpen'
  <2> DEFINE row == InitPeriod(c, m)
             new == [row EXCEPT !.reserved = row.reserved + a]
  <2>1. new.open
    BY InitPeriodType, InitPeriodSame DEF PeriodRow
  <2>2. capPeriods' = [capPeriods EXCEPT ![Key(c, m)] = new]
    BY <1>3 DEF Reserve
  <2>3. \A k \in Obligations \X Periods : capPeriods[k].open => capPeriods'[k].open
    <3> HIDE DEF new
    <3> QED
      BY <2>1, <2>2, KeyType DEF StoreTypeOK
  <2>4. capPeriods'[Key(c, m)].open
    <3> HIDE DEF new
    <3> QED
      BY <2>1, <2>2, KeyType DEF StoreTypeOK
  <2>5. \A j \in DOMAIN reservations' : (KeyOf(j))' = IF j = i THEN Key(c, m) ELSE KeyOf(j)
    BY <1>3 DEF Reserve, Put, KeyOf
  <2>6. DOMAIN reservations' = DOMAIN reservations \cup {i}
    BY <1>3 DEF Reserve, Put
  <2>7. QED
    BY <1>2, <2>3, <2>4, <2>5, <2>6 DEF ReservedRowsOpen
<1>4. ASSUME NEW c \in Cycles, NEW m \in Periods, NEW a \in Amounts, RefuseReserve(c, m, a)
      PROVE  ReservedRowsOpen'
  <2>1. \A k \in Obligations \X Periods : capPeriods[k].open => capPeriods'[k].open
    BY <1>4, KeyType, InitPeriodSame DEF RefuseReserve, StoreTypeOK
  <2>2. QED
    BY <1>2, <1>4, <2>1 DEF RefuseReserve, ReservedRowsOpen, KeyOf
<1>5. ASSUME NEW i \in DOMAIN reservations, Settle(i) \/ Release(i)
      PROVE  ReservedRowsOpen'
  <2>1. \A k \in Obligations \X Periods : capPeriods[k].open => capPeriods'[k].open
    BY <1>2, <1>5 DEF Settle, Release, Booked, StoreTypeOK, PeriodRow
  <2>2. /\ DOMAIN reservations' = DOMAIN reservations
        /\ \A j \in DOMAIN reservations : reservations'[j].cycle = reservations[j].cycle
                                          /\ reservations'[j].period = reservations[j].period
    BY <1>2, <1>5, SettleType, ReleaseType DEF Reservation
  <2>3. \A j \in DOMAIN reservations : (KeyOf(j))' = KeyOf(j)
    BY <2>2 DEF KeyOf
  <2>4. QED
    BY <1>2, <2>1, <2>2, <2>3 DEF ReservedRowsOpen
<1>6. QED
  BY <1>1, <1>3, <1>4, <1>5 DEF StoreNext

-----------------------------------------------------------------------------
(* One call of the ledger is one call of the contract, or none. *)

\* reserve() of the tables is reserve() of the contract.
LEMMA ReserveImplements ==
  ASSUME StoreTypeOK, RowsCarryCap, NEW i \in ReservationIds, NEW c \in Cycles,
         NEW m \in Periods, NEW a \in Amounts, Reserve(i, c, m, a)
  PROVE  Contract!ContractReserve(i, c, m, a)
<1> DEFINE k == Key(c, m)
           row == InitPeriod(c, m)
           new == [row EXCEPT !.reserved = row.reserved + a]
<1>k. Contract!Key(c, m) = k
  BY DEF Contract!Key, Key
<1>1. row \in PeriodRow /\ k \in ContractKeys /\ k \in Obligations \X Periods
  BY InitPeriodType, KeyType, ContractKeysType
<1>2. /\ capPeriods' = [capPeriods EXCEPT ![k] = new]
      /\ row.spent + row.reserved + a <= row.cap
  BY DEF Reserve, Fits
<1>3. new.spent = row.spent /\ new.reserved = row.reserved + a
  BY <1>1 DEF PeriodRow
<1>4. /\ row.spent = capPeriods[k].spent /\ row.reserved = capPeriods[k].reserved
      /\ row.cap = Cap[ObligationOf[c]]
  BY InitPeriodSame
<1>5. c \notin Contract!activeCycles \cup ContractSettled
  BY DEF Reserve, Duplicate, Contract!activeCycles, ContractHeld, Live, ContractSettled
<1>6. i \in ReservationIds \ DOMAIN ContractHeld
  BY DEF Reserve, ContractHeld, Live
<1>7. ContractPeriods[k].spent + ContractPeriods[k].reserved + a <= Cap[ObligationOf[c]]
  BY <1>1, <1>2, <1>4 DEF ContractPeriods, ContractKeys
<1>8. ContractPeriods' = [ContractPeriods EXCEPT ![k].reserved = @ + a]
  <2> HIDE DEF new, k, row
  <2>1. \A j \in ContractKeys : j \in Obligations \X Periods
    BY ContractKeysType
  <2>2. QED
    BY <1>1, <1>2, <1>3, <1>4, <2>1 DEF ContractPeriods, ContractKeys, StoreTypeOK
<1>9. Live' = Live \cup {i}
  BY DEF Live, Reserve, Put
<1>10. ContractHeld' = [j \in DOMAIN ContractHeld \cup {i} |->
                          IF j = i THEN [cycle |-> c, period |-> m, amount |-> a]
                          ELSE ContractHeld[j]]
  BY <1>9 DEF ContractHeld, Reserve, Put, Live
<1>11. UNCHANGED ContractSettled
  BY DEF ContractSettled, Reserve, Put
<1>12. QED
  BY <1>k, <1>5, <1>6, <1>7, <1>8, <1>10, <1>11 DEF Contract!ContractReserve

\* Only a month's row may come into being, which the contract does not see.
LEMMA RefuseImplements ==
  ASSUME StoreTypeOK, RowsCarryCap, NEW c \in Cycles, NEW m \in Periods,
         NEW a \in Amounts, RefuseReserve(c, m, a)
  PROVE  UNCHANGED <<ContractPeriods, ContractHeld, ContractSettled>>
<1>1. Key(c, m) \in Obligations \X Periods
  BY KeyType
<1>2. \A k \in Obligations \X Periods : capPeriods'[k].spent = capPeriods[k].spent
                                        /\ capPeriods'[k].reserved = capPeriods[k].reserved
  BY <1>1, InitPeriodSame DEF RefuseReserve, StoreTypeOK
<1>3. UNCHANGED ContractPeriods
  BY <1>2, ContractKeysType DEF ContractPeriods, ContractKeys
<1>4. UNCHANGED <<ContractHeld, ContractSettled>>
  BY DEF RefuseReserve, ContractHeld, Live, ContractSettled
<1>5. QED
  BY <1>3, <1>4

\* What the proofs about settle() and release() need of a live reservation.
LEMMA LiveReservation ==
  ASSUME StoreTypeOK, NEW i \in DOMAIN reservations, reservations[i].status = "RESERVED"
  PROVE  /\ i \in DOMAIN ContractHeld
         /\ ContractHeld[i].cycle = reservations[i].cycle
         /\ ContractHeld[i].amount = reservations[i].amount
         /\ Contract!KeyOf(i) = KeyOf(i)
         /\ KeyOf(i) \in ContractKeys
         /\ KeyOf(i) \in Obligations \X Periods
<1>1. reservations[i] \in Reservation
  BY DEF StoreTypeOK
<1>2. /\ i \in DOMAIN ContractHeld
      /\ ContractHeld[i] = [cycle |-> reservations[i].cycle, period |-> reservations[i].period,
                            amount |-> reservations[i].amount]
  BY DEF ContractHeld, Live
<1>3. Contract!KeyOf(i) = KeyOf(i)
  BY <1>2 DEF Contract!KeyOf, Contract!Key, KeyOf, Key
<1>4. QED
  BY <1>1, <1>2, <1>3, KeyType, ContractKeysType DEF KeyOf, Reservation

\* settle() of a live reservation is settle() of the contract.
LEMMA SettleImplements ==
  ASSUME StoreTypeOK, NEW i \in DOMAIN reservations, reservations[i].status = "RESERVED",
         Settle(i)
  PROVE  Contract!ContractSettle(i)
<1> DEFINE k == KeyOf(i)
           a == reservations[i].amount
<1>1. /\ i \in DOMAIN ContractHeld
      /\ ContractHeld[i].cycle = reservations[i].cycle /\ ContractHeld[i].amount = a
      /\ Contract!KeyOf(i) = k /\ k \in ContractKeys /\ k \in Obligations \X Periods
  BY LiveReservation
<1>2. capPeriods' = [capPeriods EXCEPT ![k] = Booked(capPeriods[k], a)]
  BY DEF Settle
<1>3. /\ Booked(capPeriods[k], a).spent = capPeriods[k].spent + a
      /\ Booked(capPeriods[k], a).reserved = capPeriods[k].reserved - a
  BY DEF Booked
<1>4. ContractPeriods' = [ContractPeriods EXCEPT ![k] =
                            [spent |-> ContractPeriods[k].spent + a,
                             reserved |-> ContractPeriods[k].reserved - a]]
  <2> HIDE DEF k, a
  <2> QED
    BY <1>1, <1>2, <1>3, ContractKeysType DEF ContractPeriods, ContractKeys, StoreTypeOK
<1>5. reservations' = [reservations EXCEPT ![i].status = "SETTLED"]
  BY DEF Settle
<1>6. \A j \in DOMAIN reservations :
        /\ reservations'[j].cycle = reservations[j].cycle
        /\ reservations'[j].period = reservations[j].period
        /\ reservations'[j].amount = reservations[j].amount
        /\ reservations'[j].status = IF j = i THEN "SETTLED" ELSE reservations[j].status
  BY <1>5 DEF StoreTypeOK, Reservation
<1>7. Live' = Live \ {i} /\ DOMAIN reservations' = DOMAIN reservations
  BY <1>5, <1>6 DEF Live
<1>8. ContractHeld' = Contract!Without(i)
  BY <1>6, <1>7 DEF ContractHeld, Contract!Without, Live
<1>9. ContractSettled' = ContractSettled \cup {reservations[i].cycle}
  BY <1>6, <1>7 DEF ContractSettled
<1>10. QED
  BY <1>1, <1>4, <1>8, <1>9 DEF Contract!ContractSettle

\* release() of a live reservation is release() of the contract.
LEMMA ReleaseImplements ==
  ASSUME StoreTypeOK, NEW i \in DOMAIN reservations, reservations[i].status = "RESERVED",
         Release(i)
  PROVE  Contract!ContractRelease(i)
<1> DEFINE k == KeyOf(i)
           a == reservations[i].amount
<1>1. /\ i \in DOMAIN ContractHeld /\ ContractHeld[i].amount = a
      /\ Contract!KeyOf(i) = k /\ k \in ContractKeys /\ k \in Obligations \X Periods
  BY LiveReservation
<1>2. \A j \in Obligations \X Periods :
        /\ capPeriods'[j].spent = capPeriods[j].spent
        /\ capPeriods'[j].reserved = IF j = k THEN capPeriods[k].reserved - a
                                     ELSE capPeriods[j].reserved
  BY <1>1 DEF Release, StoreTypeOK, PeriodRow
<1>3. ContractPeriods' = [ContractPeriods EXCEPT ![k].reserved = ContractPeriods[k].reserved - a]
  <2> HIDE DEF k, a
  <2> QED
    BY <1>1, <1>2, ContractKeysType DEF ContractPeriods, ContractKeys
<1>5. reservations' = [reservations EXCEPT ![i].status = "RELEASED"]
  BY DEF Release
<1>6. \A j \in DOMAIN reservations :
        /\ reservations'[j].cycle = reservations[j].cycle
        /\ reservations'[j].period = reservations[j].period
        /\ reservations'[j].amount = reservations[j].amount
        /\ reservations'[j].status = IF j = i THEN "RELEASED" ELSE reservations[j].status
  BY <1>5 DEF StoreTypeOK, Reservation
<1>7. Live' = Live \ {i} /\ DOMAIN reservations' = DOMAIN reservations
  BY <1>5, <1>6 DEF Live
<1>8. ContractHeld' = Contract!Without(i)
  BY <1>6, <1>7 DEF ContractHeld, Contract!Without, Live
<1>9. UNCHANGED ContractSettled
  BY <1>6, <1>7 DEF ContractSettled
<1>10. QED
  BY <1>1, <1>3, <1>8, <1>9 DEF Contract!ContractRelease

\* Every step of the store is a step of the contract or a stutter.
LEMMA StepImplements ==
  ASSUME StoreTypeOK, RowsCarryCap, [StoreNext]_storeVars
  PROVE  [Contract!ContractNext]_<<ContractPeriods, ContractHeld, ContractSettled>>
<1>1. CASE UNCHANGED storeVars
  BY <1>1 DEF storeVars, ContractPeriods, ContractHeld, ContractSettled, Live
<1>2. ASSUME NEW i \in ReservationIds, NEW c \in Cycles, NEW m \in Periods, NEW a \in Amounts,
             Reserve(i, c, m, a)
      PROVE  Contract!ContractNext
  BY <1>2, ReserveImplements DEF Contract!ContractNext
<1>3. ASSUME NEW c \in Cycles, NEW m \in Periods, NEW a \in Amounts, RefuseReserve(c, m, a)
      PROVE  UNCHANGED <<ContractPeriods, ContractHeld, ContractSettled>>
  BY <1>3, RefuseImplements
<1>4. ASSUME NEW i \in DOMAIN reservations, reservations[i].status = "RESERVED",
             Settle(i) \/ Release(i)
      PROVE  Contract!ContractNext
  BY <1>4, SettleImplements, ReleaseImplements DEF Contract!ContractNext, StoreTypeOK
<1>5. QED
  BY <1>1, <1>2, <1>3, <1>4 DEF StoreNext

\* The SQL ledger has the semantics of the in-memory store it replaces, whatever
\* the caps, prices and order of calls, for callers that finish a reservation once
\* (sqliteCapStore.ts:3-5).
THEOREM StoreImplementsContract == StoreSpec => CapStoreContract
<1>1. StoreInit => Contract!ContractInit /\ RowsCarryCap /\ ReservedRowsOpen
  BY ContractKeysType DEF StoreInit, Contract!ContractInit, ContractPeriods, ContractHeld, Live,
     ContractSettled, RowsCarryCap, ReservedRowsOpen, NoPeriodRow, ContractKeys
<1>2. StoreTypeOK /\ RowsCarryCap /\ ReservedRowsOpen /\ [StoreNext]_storeVars
        => RowsCarryCap' /\ ReservedRowsOpen'
  BY RowsCarryCapStep, ReservedRowsOpenStep
<1>3. StoreTypeOK /\ RowsCarryCap /\ [StoreNext]_storeVars
        => [Contract!ContractNext]_(Contract!contractVars)
  BY StepImplements DEF Contract!contractVars
<1>4. QED
  BY <1>1, <1>2, <1>3, StoreTypeCorrect, PTL
  DEF StoreSpec, CapStoreContract, Contract!ContractSpec

-----------------------------------------------------------------------------
(* Sums over finite sets.  MapThenSumSet is defined by a recursion that    *)
(* takes the elements in the order CHOOSE picks them; here it is shown     *)
(* that the order does not matter.  The induction theorems of the library  *)
(* take the property as an operator, which the provers cannot instantiate: *)
(* the proofs below use the existence of minimal elements instead.         *)

\* The sum of f over the set S.
Total(f, S) == MapThenSumSet(LAMBDA x : f[x], S)

\* The element that MapThenSumSet takes from s first.
chosen(s) == CHOOSE x \in s : TRUE

\* it sums f over each set of the collection D.
Sums(f, D, it) ==
  it = [s \in D |-> IF s = {} THEN 0 ELSE f[chosen(s)] + it[s \ {chosen(s)}]]

\* What holds of a subset of a finite set whenever it holds of all smaller ones
\* holds of all subsets.
LEMMA SubsetInduction ==
  ASSUME NEW S, IsFiniteSet(S), NEW G,
         \A A \in SUBSET S : (\A B \in SUBSET A : B # A => B \in G) => A \in G
  PROVE  SUBSET S \subseteq G
<1> DEFINE bad == (SUBSET S) \ G
<1> SUFFICES ASSUME NEW Z \in SUBSET S, Z \notin G PROVE FALSE
  BY Zenon
<1>0. bad # {}
  <2>1. Z \in bad
    OBVIOUS
  <2> QED
    BY <2>1
<1>1. IsWellFoundedOn(StrictSubsetOrdering(S), SUBSET S)
  <2>1. FiniteSubsetsOf(S) = SUBSET S
    BY FS_FiniteSubsetsOfFinite
  <2>2. IsWellFoundedOn(StrictSubsetOrdering(S), FiniteSubsetsOf(S))
    BY FS_StrictSubsetOrderingWellFounded
  <2> QED
    BY <2>1, <2>2
<1> HIDE DEF bad
<1>2. bad \subseteq SUBSET S
  BY DEF bad
<1>3. PICK A \in bad : \A B \in bad : ~(<<B, A>> \in StrictSubsetOrdering(S))
  BY <1>0, <1>1, <1>2, WFMin
<1>4. \A B \in SUBSET A : B # A => B \in G
  BY <1>2, <1>3 DEF StrictSubsetOrdering, bad
<1>5. A \in SUBSET S /\ A \notin G
  BY <1>3 DEF bad
<1> QED
  BY <1>4, <1>5, Zenon

\* There is a function that sums f over all subsets of a finite set: built for
\* subsets of at most n elements, for one n after the other.
LEMMA SumExists ==
  ASSUME NEW S, IsFiniteSet(S), NEW f
  PROVE  \E it : Sums(f, SUBSET S, it)
<1> DEFINE Upto(n) == {s \in SUBSET S : Cardinality(s) <= n}
           bad == {n \in Nat : ~\E it : Sums(f, Upto(n), it)}
<1>1. \A s \in SUBSET S : IsFiniteSet(s) /\ Cardinality(s) \in Nat /\ Cardinality(s) <= Cardinality(S)
  BY FS_Subset, FS_CardinalityType
<1>2. bad = {}
  <2> SUFFICES ASSUME bad # {} PROVE FALSE
    OBVIOUS
  <2> HIDE DEF bad
  <2>1. PICK n \in bad : \A m \in bad : ~(<<m, n>> \in OpToRel(<, Nat))
    <3>1. bad \subseteq Nat
      BY DEF bad
    <3> QED
      BY <3>1, WFMin, NatLessThanWellFounded
  <2>2. n \in Nat /\ \A m \in Nat : m < n => m \notin bad
    BY <2>1 DEF bad, OpToRel
  <2>3. CASE n = 0
    <3>1. \A s \in Upto(0) : s = {}
      BY <1>1, FS_EmptySet
    <3>2. Sums(f, Upto(0), [s \in Upto(0) |-> 0])
      BY <3>1 DEF Sums
    <3> QED
      BY <2>1, <2>3, <3>2 DEF bad
  <2>4. CASE n # 0
    <3>1. n - 1 \in Nat /\ n - 1 \notin bad
      BY <2>2, <2>4
    <3>2. PICK it : Sums(f, Upto(n - 1), it)
      BY <3>1 DEF bad
    <3> DEFINE new == [s \in Upto(n) |->
                         IF s = {} THEN 0 ELSE f[chosen(s)] + it[s \ {chosen(s)}]]
    <3>3. \A s \in Upto(n - 1) : s \in Upto(n) /\ new[s] = it[s]
      <4> SUFFICES ASSUME NEW s \in Upto(n - 1)
                   PROVE  s \in Upto(n) /\ new[s] = it[s]
        OBVIOUS
      <4>1. s \in Upto(n)
        BY <1>1, <2>2
      <4>2. it[s] = IF s = {} THEN 0 ELSE f[chosen(s)] + it[s \ {chosen(s)}]
        BY <3>2 DEF Sums
      <4> HIDE DEF Upto
      <4> QED
        BY <4>1, <4>2
    <3>4. \A s \in Upto(n) : s # {} => s \ {chosen(s)} \in Upto(n - 1)
      <4> SUFFICES ASSUME NEW s \in Upto(n), s # {}
                   PROVE  s \ {chosen(s)} \in Upto(n - 1)
        OBVIOUS
      <4>1. chosen(s) \in s
        BY DEF chosen
      <4>2. Cardinality(s \ {chosen(s)}) = Cardinality(s) - 1
        BY <1>1, <4>1, FS_RemoveElement
      <4> QED
        BY <1>1, <2>2, <4>2
    <3>5. Sums(f, Upto(n), new)
      BY <3>3, <3>4 DEF Sums
    <3> QED
      BY <2>1, <3>5 DEF bad
  <2> QED
    BY <2>3, <2>4
<1>3. Cardinality(S) \in Nat /\ Upto(Cardinality(S)) = SUBSET S
  BY <1>1, FS_CardinalityType
<1> QED
  BY <1>2, <1>3

\* Two such functions agree where what they sum agrees.
LEMMA SumUnique ==
  ASSUME NEW S, IsFiniteSet(S), NEW f, NEW g, \A x \in S : f[x] = g[x],
         NEW D, NEW E, SUBSET S \subseteq D, SUBSET S \subseteq E,
         NEW it, NEW jt, Sums(f, D, it), Sums(g, E, jt)
  PROVE  it[S] = jt[S]
<1> DEFINE G == {s \in SUBSET S : it[s] = jt[s]}
<1>1. ASSUME NEW A \in SUBSET S, \A B \in SUBSET A : B # A => B \in G
      PROVE  A \in G
  <2>1. CASE A = {}
    BY <2>1 DEF Sums
  <2>2. CASE A # {}
    <3>1. chosen(A) \in A
      BY <2>2 DEF chosen
    <3>2. it[A \ {chosen(A)}] = jt[A \ {chosen(A)}]
      BY <1>1, <3>1
    <3>3. A \in D /\ A \in E
      OBVIOUS
    <3>4. it[A] = f[chosen(A)] + it[A \ {chosen(A)}]
      BY <2>2, <3>3 DEF Sums
    <3>5. jt[A] = g[chosen(A)] + jt[A \ {chosen(A)}]
      BY <2>2, <3>3 DEF Sums
    <3> QED
      BY <3>1, <3>2, <3>4, <3>5
  <2> QED
    BY <2>1, <2>2
<1> HIDE DEF G
<1>2. SUBSET S \subseteq G
  BY <1>1, SubsetInduction
<1> QED
  BY <1>2 DEF G

\* MapThenSumSet is such a function.
LEMMA TotalSums ==
  ASSUME NEW S, IsFiniteSet(S), NEW f
  PROVE  \E it : Sums(f, SUBSET S, it) /\ Total(f, S) = it[S]
<1> DEFINE it == CHOOSE iter : iter = [s \in SUBSET S |->
                    IF s = {} THEN 0 ELSE f[chosen(s)] + iter[s \ {chosen(s)}]]
<1>1. Total(f, S) = it[S]
  BY DEF Total, MapThenSumSet, MapThenFoldSet, chosen
<1>2. Sums(f, SUBSET S, it)
  <2>1. \E iter : iter = [s \in SUBSET S |->
                    IF s = {} THEN 0 ELSE f[chosen(s)] + iter[s \ {chosen(s)}]]
    <3>1. \E jt : Sums(f, SUBSET S, jt)
      BY SumExists
    <3> HIDE DEF it
    <3> QED
      BY <3>1, Zenon DEF Sums
  <2>2. it = [s \in SUBSET S |-> IF s = {} THEN 0 ELSE f[chosen(s)] + it[s \ {chosen(s)}]]
    BY <2>1, Zenon
  <2> HIDE DEF it
  <2> QED
    BY <2>2 DEF Sums
<1> QED
  BY <1>1, <1>2

\* It is the only one, up to the values outside S.
LEMMA SumIsTotal ==
  ASSUME NEW S, IsFiniteSet(S), NEW f, NEW g, \A x \in S : f[x] = g[x],
         NEW it, Sums(f, SUBSET S, it)
  PROVE  it[S] = Total(g, S)
<1>1. PICK jt : Sums(g, SUBSET S, jt) /\ Total(g, S) = jt[S]
  BY TotalSums
<1> QED
  BY <1>1, SumUnique

\* Sums depend on nothing but the values summed.
LEMMA TotalSame ==
  ASSUME NEW S, IsFiniteSet(S), NEW f, NEW g, \A x \in S : f[x] = g[x]
  PROVE  Total(f, S) = Total(g, S)
<1>1. PICK it : Sums(f, SUBSET S, it) /\ Total(f, S) = it[S]
  BY TotalSums
<1>2. PICK jt : Sums(g, SUBSET S, jt) /\ Total(g, S) = jt[S]
  BY TotalSums
<1> QED
  BY <1>1, <1>2, SumUnique

\* Nothing sums to 0.
LEMMA TotalEmpty ==
  ASSUME NEW f
  PROVE  Total(f, {}) = 0
  BY TotalSums, FS_EmptySet DEF Sums

\* The recursion.
LEMMA TotalChosen ==
  ASSUME NEW S, IsFiniteSet(S), S # {}, NEW f
  PROVE  Total(f, S) = f[chosen(S)] + Total(f, S \ {chosen(S)})
<1> DEFINE R == S \ {chosen(S)}
<1>1. PICK it : Sums(f, SUBSET S, it) /\ Total(f, S) = it[S]
  BY TotalSums
<1>2. IsFiniteSet(R) /\ SUBSET R \subseteq SUBSET S
  BY FS_RemoveElement
<1>3. PICK jt : Sums(f, SUBSET R, jt) /\ Total(f, R) = jt[R]
  BY <1>2, TotalSums
<1> HIDE DEF R
<1>4. it[R] = jt[R]
  BY <1>1, <1>2, <1>3, SumUnique
<1>5. it[S] = f[chosen(S)] + it[R]
  BY <1>1 DEF Sums, R
<1> QED
  BY <1>1, <1>3, <1>4, <1>5 DEF R

\* A sum of integers is one, a sum of naturals too.
LEMMA TotalType ==
  ASSUME NEW S, IsFiniteSet(S), NEW f
  PROVE  /\ (\A x \in S : f[x] \in Int) => Total(f, S) \in Int
         /\ (\A x \in S : f[x] \in Nat) => Total(f, S) \in Nat
<1>1. ASSUME NEW N, 0 \in N, \A a, b \in N : a + b \in N, \A x \in S : f[x] \in N
      PROVE  Total(f, S) \in N
  <2> DEFINE G == {A \in SUBSET S : Total(f, A) \in N}
  <2>1. ASSUME NEW A \in SUBSET S, \A B \in SUBSET A : B # A => B \in G
        PROVE  A \in G
    <3>1. CASE A = {}
      BY <1>1, <3>1, TotalEmpty
    <3>2. CASE A # {}
      <4>1. chosen(A) \in A
        BY <3>2 DEF chosen
      <4>2. Total(f, A \ {chosen(A)}) \in N
        BY <2>1, <4>1
      <4>3. Total(f, A) = f[chosen(A)] + Total(f, A \ {chosen(A)})
        BY <3>2, FS_Subset, TotalChosen
      <4> QED
        BY <1>1, <4>1, <4>2, <4>3
    <3> QED
      BY <3>1, <3>2
  <2> HIDE DEF G
  <2>2. SUBSET S \subseteq G
    BY <2>1, SubsetInduction
  <2> QED
    BY <2>2 DEF G
<1>2. /\ 0 \in Int /\ \A a, b \in Int : a + b \in Int
      /\ 0 \in Nat /\ \A a, b \in Nat : a + b \in Nat
  OBVIOUS
<1>3. (\A x \in S : f[x] \in Int) => Total(f, S) \in Int
  BY <1>1, <1>2
<1>4. (\A x \in S : f[x] \in Nat) => Total(f, S) \in Nat
  BY <1>1, <1>2
<1> QED
  BY <1>3, <1>4

\* Any element may be taken first.
LEMMA TotalTake ==
  ASSUME NEW S, IsFiniteSet(S), NEW f, \A x \in S : f[x] \in Int, NEW x \in S
  PROVE  Total(f, S) = f[x] + Total(f, S \ {x})
<1> DEFINE G == {A \in SUBSET S : \A y \in A : Total(f, A) = f[y] + Total(f, A \ {y})}
<1>1. ASSUME NEW A \in SUBSET S, \A B \in SUBSET A : B # A => B \in G
      PROVE  A \in G
  <2> SUFFICES ASSUME NEW y \in A
               PROVE  Total(f, A) = f[y] + Total(f, A \ {y})
    OBVIOUS
  <2> DEFINE z == chosen(A)
             R == A \ {y, z}
  <2>1. z \in A
    BY DEF chosen
  <2>2. Total(f, A) = f[z] + Total(f, A \ {z})
    BY FS_Subset, TotalChosen
  <2> HIDE DEF z
  <2>3. CASE y = z
    BY <2>2, <2>3
  <2>4. CASE y # z
    <3>1. A \ {z} \in G /\ y \in A \ {z}
      BY <1>1, <2>1, <2>4
    <3>2. A \ {y} \in G /\ z \in A \ {y}
      BY <1>1, <2>1, <2>4
    <3>3. R = (A \ {z}) \ {y} /\ R = (A \ {y}) \ {z}
      OBVIOUS
    <3> HIDE DEF R
    <3>4. Total(f, A \ {z}) = f[y] + Total(f, R)
      BY <3>1, <3>3
    <3>5. Total(f, A \ {y}) = f[z] + Total(f, R)
      BY <3>2, <3>3
    <3>6. f[y] \in Int /\ f[z] \in Int /\ Total(f, R) \in Int
      <4>1. R \in SUBSET S /\ IsFiniteSet(R)
        BY FS_Subset DEF R
      <4> QED
        BY <2>1, <4>1, TotalType
    <3> HIDE DEF G
    <3> QED
      BY <2>2, <3>4, <3>5, <3>6
  <2> QED
    BY <2>3, <2>4
<1> HIDE DEF G
<1>2. SUBSET S \subseteq G
  BY <1>1, SubsetInduction
<1> QED
  BY <1>2 DEF G

\* A new element adds its value.
LEMMA TotalAdd ==
  ASSUME NEW S, IsFiniteSet(S), NEW x, x \notin S, NEW f, \A y \in S \cup {x} : f[y] \in Int
  PROVE  Total(f, S \cup {x}) = Total(f, S) + f[x]
<1>1. IsFiniteSet(S \cup {x}) /\ S = (S \cup {x}) \ {x}
  BY FS_AddElement
<1>2. Total(f, S \cup {x}) = f[x] + Total(f, (S \cup {x}) \ {x})
  BY <1>1, TotalTake
<1>3. Total(f, S) \in Int /\ f[x] \in Int
  <2>1. \A y \in S : f[y] \in Int
    OBVIOUS
  <2> QED
    BY <2>1, TotalType
<1>4. Total(f, (S \cup {x}) \ {x}) = Total(f, S)
  BY <1>1, Zenon
<1> QED
  BY <1>2, <1>3, <1>4

\* A sum is at most that over a set its own maps into one to one, value by value.
LEMMA TotalInjection ==
  ASSUME NEW S, IsFiniteSet(S), NEW T, IsFiniteSet(T), NEW h,
         \A x \in S : h[x] \in T, \A x, y \in S : h[x] = h[y] => x = y,
         NEW f, NEW g, \A x \in S : f[x] \in Nat /\ f[x] <= g[h[x]], \A x \in T : g[x] \in Nat
  PROVE  Total(f, S) <= Total(g, T)
<1> DEFINE Into(A, B) == \A x \in A : h[x] \in B
           G == {A \in SUBSET S : \A B \in SUBSET T : Into(A, B) => Total(f, A) <= Total(g, B)}
<1>1. ASSUME NEW A \in SUBSET S, \A C \in SUBSET A : C # A => C \in G
      PROVE  A \in G
  <2> SUFFICES ASSUME NEW B \in SUBSET T, Into(A, B)
               PROVE  Total(f, A) <= Total(g, B)
    OBVIOUS
  <2>0. IsFiniteSet(A) /\ IsFiniteSet(B)
    BY FS_Subset
  <2>1. CASE A = {}
    <3>1. Total(f, A) = 0 /\ Total(g, B) \in Nat
      BY <2>0, <2>1, TotalEmpty, TotalType
    <3> QED
      BY <3>1
  <2>2. CASE A # {}
    <3>1. PICK x : x \in A
      BY <2>2
    <3>2. h[x] \in B /\ Into(A \ {x}, B \ {h[x]})
      BY <3>1
    <3>3. Total(f, A \ {x}) <= Total(g, B \ {h[x]})
      <4>1. A \ {x} \in G
        BY <1>1, <3>1
      <4>2. B \ {h[x]} \in SUBSET T
        OBVIOUS
      <4> HIDE DEF Into
      <4> QED
        BY <3>2, <4>1, <4>2
    <3>4. Total(f, A) = f[x] + Total(f, A \ {x})
      BY <2>0, <3>1, TotalTake
    <3>5. Total(g, B) = g[h[x]] + Total(g, B \ {h[x]})
      BY <2>0, <3>2, TotalTake
    <3>6. Total(f, A \ {x}) \in Nat /\ Total(g, B \ {h[x]}) \in Nat
      <4>1. IsFiniteSet(A \ {x}) /\ IsFiniteSet(B \ {h[x]})
        BY <2>0, FS_RemoveElement
      <4>2. (\A y \in A \ {x} : f[y] \in Nat) /\ (\A y \in B \ {h[x]} : g[y] \in Nat)
        OBVIOUS
      <4> QED
        BY <4>1, <4>2, TotalType
    <3>7. f[x] \in Nat /\ g[h[x]] \in Nat /\ f[x] <= g[h[x]]
      BY <3>1
    <3> HIDE DEF G, Into
    <3> QED
      BY <3>3, <3>4, <3>5, <3>6, <3>7
  <2> QED
    BY <2>1, <2>2
<1> HIDE DEF G
<1>2. S \in G
  BY <1>1, SubsetInduction
<1> QED
  BY <1>2 DEF G

\* The sum over two sets that share nothing.
LEMMA TotalUnion ==
  ASSUME NEW S, IsFiniteSet(S), NEW T, IsFiniteSet(T), S \cap T = {},
         NEW f, \A x \in S \cup T : f[x] \in Int
  PROVE  Total(f, S \cup T) = Total(f, S) + Total(f, T)
<1> DEFINE G == {A \in SUBSET T : Total(f, S \cup A) = Total(f, S) + Total(f, A)}
<1>1. ASSUME NEW A \in SUBSET T, \A B \in SUBSET A : B # A => B \in G
      PROVE  A \in G
  <2>0. IsFiniteSet(A) /\ IsFiniteSet(S \cup A) /\ Total(f, S) \in Int
    <3>1. \A x \in S : f[x] \in Int
      OBVIOUS
    <3> QED
      BY <3>1, FS_Subset, FS_Union, TotalType
  <2>1. CASE A = {}
    <3>1. S \cup A = S /\ Total(f, A) = 0
      BY <2>1, TotalEmpty
    <3>2. Total(f, S \cup A) = Total(f, S)
      BY <3>1, Zenon
    <3> QED
      BY <2>0, <3>1, <3>2
  <2>2. CASE A # {}
    <3>1. PICK x : x \in A
      BY <2>2
    <3> DEFINE B == A \ {x}
    <3>2. Total(f, S \cup B) = Total(f, S) + Total(f, B)
      BY <1>1, <3>1
    <3>3. IsFiniteSet(B) /\ x \notin B /\ A = B \cup {x} /\ x \notin S \cup B
          /\ S \cup A = (S \cup B) \cup {x}
      BY <2>0, <3>1, FS_RemoveElement
    <3>4. /\ IsFiniteSet(S \cup B)
          /\ \A y \in B \cup {x} : f[y] \in Int
          /\ \A y \in (S \cup B) \cup {x} : f[y] \in Int
      BY <3>1, <3>3, FS_Union
    <3> HIDE DEF B
    <3>5. Total(f, A) = Total(f, B) + f[x]
      BY <3>3, <3>4, TotalAdd
    <3>6. Total(f, S \cup A) = Total(f, S \cup B) + f[x]
      BY <3>3, <3>4, TotalAdd
    <3>7. Total(f, B) \in Int /\ f[x] \in Int
      <4>1. \A y \in B : f[y] \in Int
        BY <3>4
      <4> QED
        BY <3>3, <3>4, <4>1, TotalType
    <3> QED
      BY <2>0, <3>2, <3>5, <3>6, <3>7
  <2> QED
    BY <2>1, <2>2
<1> HIDE DEF G
<1>2. SUBSET T \subseteq G
  BY <1>1, SubsetInduction
<1> QED
  BY <1>2 DEF G

-----------------------------------------------------------------------------
(* The counters are the sums of the rows they stand for.  What follows is   *)
(* said of any table R of reservations, so that it can be used of the table *)
(* before and after a call.                                                 *)

\* The amounts of R by id, and the ids that a counter with these statuses
\* stands for in the month of key k.
amounts(R) == [i \in DOMAIN R |-> R[i].amount]
Counted(R, k, statuses) ==
  {i \in DOMAIN R : Key(R[i].cycle, R[i].period) = k /\ R[i].status \in statuses}

\* The sum over rows that AmountIn speaks of, as a total.
LEMMA AmountsTotal ==
  ASSUME NEW R, NEW S, S \subseteq DOMAIN R, IsFiniteSet(S)
  PROVE  MapThenSumSet(LAMBDA i : R[i].amount, S) = Total(amounts(R), S)
<1> DEFINE f == [i \in S |-> R[i].amount]
           it == CHOOSE iter : iter = [s \in SUBSET S |->
                   IF s = {} THEN 0 ELSE R[chosen(s)].amount + iter[s \ {chosen(s)}]]
<1>1. MapThenSumSet(LAMBDA i : R[i].amount, S) = it[S]
  BY DEF MapThenSumSet, MapThenFoldSet, chosen
<1>2. \A s \in SUBSET S : s # {} => R[chosen(s)].amount = f[chosen(s)]
  BY DEF chosen
<1>3. \E jt : jt = [s \in SUBSET S |->
                IF s = {} THEN 0 ELSE R[chosen(s)].amount + jt[s \ {chosen(s)}]]
  <2>1. PICK jt : Sums(f, SUBSET S, jt)
    BY SumExists
  <2>2. jt = [s \in SUBSET S |-> IF s = {} THEN 0 ELSE f[chosen(s)] + jt[s \ {chosen(s)}]]
    BY <2>1 DEF Sums
  <2>3. jt = [s \in SUBSET S |->
                IF s = {} THEN 0 ELSE R[chosen(s)].amount + jt[s \ {chosen(s)}]]
    BY <1>2, <2>2
  <2> QED
    BY <2>3
<1>4. it = [s \in SUBSET S |-> IF s = {} THEN 0 ELSE R[chosen(s)].amount + it[s \ {chosen(s)}]]
  BY <1>3, Zenon
<1> HIDE DEF it, f
<1>5. it = [s \in SUBSET S |-> IF s = {} THEN 0 ELSE f[chosen(s)] + it[s \ {chosen(s)}]]
  BY <1>2, <1>4
<1>6. Sums(f, SUBSET S, it)
  BY <1>5 DEF Sums
<1>7. \A x \in S : f[x] = amounts(R)[x]
  BY DEF f, amounts
<1>8. it[S] = Total(amounts(R), S)
  BY <1>6, <1>7, SumIsTotal
<1> QED
  BY <1>1, <1>8

\* The model's sums are these.
LEMMA AmountInTotal ==
  ASSUME IsFiniteSet(DOMAIN reservations), NEW k, NEW statuses
  PROVE  AmountIn(k, statuses) = Total(amounts(reservations), Counted(reservations, k, statuses))
<1>1. Counted(reservations, k, statuses) \subseteq DOMAIN reservations
  BY DEF Counted
<1>2. IsFiniteSet(Counted(reservations, k, statuses))
  BY <1>1, FS_Subset
<1> QED
  BY <1>1, <1>2, AmountsTotal DEF AmountIn, Counted, KeyOf

\* What the counter of key k with these statuses must show for table R.
Shown(R, k, statuses) == Total(amounts(R), Counted(R, k, statuses))

\* A finite table with amounts.
Countable(R) == IsFiniteSet(DOMAIN R) /\ \A i \in DOMAIN R : R[i].amount \in Nat

\* What a counter stands for is finite and sums to a natural number.
LEMMA CountedFinite ==
  ASSUME NEW R, Countable(R), NEW k, NEW statuses
  PROVE  /\ IsFiniteSet(Counted(R, k, statuses))
         /\ Shown(R, k, statuses) \in Nat
<1>1. Counted(R, k, statuses) \subseteq DOMAIN R
  BY DEF Counted
<1>2. IsFiniteSet(Counted(R, k, statuses))
  BY <1>1, FS_Subset DEF Countable
<1>3. \A i \in Counted(R, k, statuses) : amounts(R)[i] \in Nat
  BY <1>1 DEF Countable, amounts
<1> QED
  BY <1>2, <1>3, TotalType DEF Shown

\* A new row is counted where it belongs.
LEMMA PutCounts ==
  ASSUME NEW R, Countable(R), NEW i, i \notin DOMAIN R, NEW row, row.amount \in Nat,
         NEW G, G = Put(R, i, row), NEW k, NEW statuses
  PROVE  /\ Countable(G)
         /\ Key(row.cycle, row.period) = k /\ row.status \in statuses
              => Shown(G, k, statuses) = Shown(R, k, statuses) + row.amount
         /\ ~(Key(row.cycle, row.period) = k /\ row.status \in statuses)
              => Shown(G, k, statuses) = Shown(R, k, statuses)
<1> DEFINE S == Counted(R, k, statuses)
<1>1. /\ DOMAIN G = DOMAIN R \cup {i} /\ G[i] = row
      /\ \A j \in DOMAIN R : G[j] = R[j]
  BY DEF Put
<1>2. Countable(G)
  BY <1>1, FS_AddElement DEF Countable
<1>3. IsFiniteSet(S) /\ S \subseteq DOMAIN R /\ i \notin S
  BY CountedFinite DEF Counted
<1>4. Total(amounts(G), S) = Shown(R, k, statuses)
  <2>1. \A j \in S : amounts(G)[j] = amounts(R)[j]
    BY <1>1, <1>3 DEF amounts
  <2> QED
    BY <1>3, <2>1, TotalSame DEF Shown
<1>5. CASE Key(row.cycle, row.period) = k /\ row.status \in statuses
  <2>1. Counted(G, k, statuses) = S \cup {i}
    BY <1>1, <1>5 DEF Counted
  <2>2. /\ \A j \in S \cup {i} : amounts(G)[j] \in Int
        /\ amounts(G)[i] = row.amount
    BY <1>1, <1>2, <1>3 DEF Countable, amounts
  <2>3. Total(amounts(G), S \cup {i}) = Total(amounts(G), S) + amounts(G)[i]
    BY <1>3, <2>2, TotalAdd
  <2> QED
    BY <1>2, <1>4, <1>5, <2>1, <2>2, <2>3 DEF Shown
<1>6. CASE ~(Key(row.cycle, row.period) = k /\ row.status \in statuses)
  <2>1. Counted(G, k, statuses) = S
    BY <1>1, <1>6 DEF Counted
  <2> QED
    BY <1>2, <1>4, <1>6, <2>1 DEF Shown
<1> QED
  BY <1>5, <1>6

\* A row that changes its status moves from one counter to another.
LEMMA StatusCounts ==
  ASSUME NEW R, Countable(R), NEW i \in DOMAIN R, NEW G, DOMAIN G = DOMAIN R,
         \A j \in DOMAIN R : j # i => G[j] = R[j],
         G[i].cycle = R[i].cycle, G[i].period = R[i].period, G[i].amount = R[i].amount,
         NEW k, NEW statuses
  PROVE  /\ Countable(G)
         /\ \/ Key(R[i].cycle, R[i].period) # k
            \/ R[i].status \in statuses <=> G[i].status \in statuses
            => Shown(G, k, statuses) = Shown(R, k, statuses)
         /\ /\ Key(R[i].cycle, R[i].period) = k
            /\ R[i].status \in statuses /\ G[i].status \notin statuses
            => Shown(G, k, statuses) = Shown(R, k, statuses) - R[i].amount
         /\ /\ Key(R[i].cycle, R[i].period) = k
            /\ R[i].status \notin statuses /\ G[i].status \in statuses
            => Shown(G, k, statuses) = Shown(R, k, statuses) + R[i].amount
<1> DEFINE S == Counted(R, k, statuses)
           V == Counted(G, k, statuses)
<1>1. Countable(G)
  BY DEF Countable
<1>2. \A j \in DOMAIN R : amounts(G)[j] = amounts(R)[j] /\ amounts(R)[j] \in Int
  BY DEF Countable, amounts
<1>3. /\ IsFiniteSet(S) /\ IsFiniteSet(V) /\ S \subseteq DOMAIN R /\ V \subseteq DOMAIN R
      /\ Shown(R, k, statuses) \in Nat /\ Shown(G, k, statuses) \in Nat
  <2>1. S \subseteq DOMAIN R /\ V \subseteq DOMAIN R
    BY DEF Counted
  <2>2. IsFiniteSet(S) /\ Shown(R, k, statuses) \in Nat
    BY CountedFinite
  <2>3. IsFiniteSet(V) /\ Shown(G, k, statuses) \in Nat
    BY <1>1, CountedFinite
  <2> QED
    BY <2>1, <2>2, <2>3
<1>4. Shown(G, k, statuses) = Total(amounts(R), V) /\ Shown(R, k, statuses) = Total(amounts(R), S)
  <2>1. \A j \in V : amounts(G)[j] = amounts(R)[j]
    BY <1>2, <1>3
  <2> QED
    BY <1>3, <2>1, TotalSame DEF Shown
<1>5. R[i].amount \in Nat /\ amounts(R)[i] = R[i].amount
  BY DEF Countable, amounts
<1>6. CASE \/ Key(R[i].cycle, R[i].period) # k
           \/ R[i].status \in statuses <=> G[i].status \in statuses
  <2>1. S = V
    BY <1>6 DEF Counted
  <2> QED
    BY <1>1, <1>4, <1>6, <2>1
<1>7. CASE /\ Key(R[i].cycle, R[i].period) = k
           /\ R[i].status \in statuses /\ G[i].status \notin statuses
  <2>1. i \notin V /\ S = V \cup {i}
    BY <1>7 DEF Counted
  <2>2. \A j \in V \cup {i} : amounts(R)[j] \in Int
    BY <1>2, <1>3
  <2>3. Total(amounts(R), V \cup {i}) = Total(amounts(R), V) + amounts(R)[i]
    BY <1>3, <2>1, <2>2, TotalAdd
  <2> HIDE DEF S, V
  <2> QED
    BY <1>1, <1>3, <1>4, <1>5, <1>7, <2>1, <2>3
<1>8. CASE /\ Key(R[i].cycle, R[i].period) = k
           /\ R[i].status \notin statuses /\ G[i].status \in statuses
  <2>1. i \notin S /\ V = S \cup {i}
    BY <1>8 DEF Counted
  <2>2. \A j \in S \cup {i} : amounts(R)[j] \in Int
    BY <1>2, <1>3
  <2>3. Total(amounts(R), S \cup {i}) = Total(amounts(R), S) + amounts(R)[i]
    BY <1>3, <2>1, <2>2, TotalAdd
  <2> HIDE DEF S, V
  <2> QED
    BY <1>1, <1>3, <1>4, <1>5, <1>8, <2>1, <2>3
<1> QED
  BY <1>6, <1>7, <1>8

\* The counters show what they stand for.
CountersShow ==
  \A k \in Obligations \X Periods :
    /\ capPeriods[k].reserved = Shown(reservations, k, {"RESERVED"})
    /\ capPeriods[k].spent = Shown(reservations, k, {"SETTLED"})

ReservationsFinite == IsFiniteSet(DOMAIN reservations)

\* The table of reservations is countable.
LEMMA ReservationsCountable ==
  ASSUME StoreTypeOK, ReservationsFinite
  PROVE  Countable(reservations)
  BY AmountsNat DEF StoreTypeOK, ReservationsFinite, Countable, Reservation

\* reserve() adds the new row to the counter it belongs to.
LEMMA ReserveExact ==
  ASSUME StoreTypeOK, RowsCarryCap, ReservationsFinite, CountersShow,
         NEW i, NEW c \in Cycles, NEW m \in Periods, NEW a \in Amounts, Reserve(i, c, m, a)
  PROVE  ReservationsFinite' /\ CountersShow'
<1> DEFINE new == [cycle |-> c, period |-> m, amount |-> a, status |-> "RESERVED"]
           row == InitPeriod(c, m)
<1>1. /\ i \notin DOMAIN reservations /\ reservations' = Put(reservations, i, new)
      /\ capPeriods' = [capPeriods EXCEPT ![Key(c, m)] = [row EXCEPT !.reserved = row.reserved + a]]
  BY DEF Reserve
<1>2. /\ row.spent = capPeriods[Key(c, m)].spent
      /\ row.reserved = capPeriods[Key(c, m)].reserved /\ row \in PeriodRow
  BY InitPeriodSame, InitPeriodType
<1>3. /\ new.cycle = c /\ new.period = m /\ new.amount = a /\ new.status = "RESERVED" /\ a \in Nat
  BY AmountsNat
<1>4. Countable(reservations)
  BY ReservationsCountable
<1> HIDE DEF new
<1>5. \A k, statuses :
        /\ Countable(reservations')
        /\ Key(c, m) = k /\ "RESERVED" \in statuses
             => Shown(reservations', k, statuses) = Shown(reservations, k, statuses) + a
        /\ ~(Key(c, m) = k /\ "RESERVED" \in statuses)
             => Shown(reservations', k, statuses) = Shown(reservations, k, statuses)
  BY <1>1, <1>3, <1>4, PutCounts
<1>6. ASSUME NEW k \in Obligations \X Periods
      PROVE  /\ capPeriods'[k].reserved = Shown(reservations', k, {"RESERVED"})
             /\ capPeriods'[k].spent = Shown(reservations', k, {"SETTLED"})
  <2> HIDE DEF row
  <2>1. CASE k = Key(c, m)
    <3>1. /\ capPeriods'[k].reserved = capPeriods[k].reserved + a
          /\ capPeriods'[k].spent = capPeriods[k].spent
      BY <1>1, <1>2, <2>1 DEF StoreTypeOK, PeriodRow
    <3> QED
      BY <1>5, <2>1, <3>1 DEF CountersShow
  <2>2. CASE k # Key(c, m)
    <3>1. capPeriods'[k] = capPeriods[k]
      BY <1>1, <2>2 DEF StoreTypeOK
    <3> QED
      BY <1>5, <2>2, <3>1 DEF CountersShow
  <2> QED
    BY <2>1, <2>2
<1> QED
  BY <1>5, <1>6 DEF CountersShow, ReservationsFinite, Countable

\* A refusal leaves both counters as they are.
LEMMA RefuseExact ==
  ASSUME StoreTypeOK, RowsCarryCap, ReservationsFinite, CountersShow,
         NEW c \in Cycles, NEW m \in Periods, NEW a, RefuseReserve(c, m, a)
  PROVE  ReservationsFinite' /\ CountersShow'
<1>1. /\ UNCHANGED reservations
      /\ capPeriods' = [capPeriods EXCEPT ![Key(c, m)] = InitPeriod(c, m)]
  BY DEF RefuseReserve
<1>2. \A k \in Obligations \X Periods :
        capPeriods'[k].spent = capPeriods[k].spent /\ capPeriods'[k].reserved = capPeriods[k].reserved
  BY <1>1, InitPeriodSame DEF StoreTypeOK
<1> QED
  BY <1>1, <1>2 DEF CountersShow, ReservationsFinite

\* A RESERVED row that is finished leaves one counter, and enters the other if
\* it is settled.
LEMMA FinishExact ==
  ASSUME StoreTypeOK, ReservationsFinite, CountersShow,
         NEW i \in DOMAIN reservations, reservations[i].status = "RESERVED",
         Settle(i) \/ Release(i)
  PROVE  ReservationsFinite' /\ CountersShow'
<1> DEFINE old == reservations[i]
           a == old.amount
<1>1. Countable(reservations) /\ old \in Reservation /\ a \in Nat
  BY ReservationsCountable DEF StoreTypeOK, Countable
<1>2. /\ DOMAIN reservations' = DOMAIN reservations
      /\ \A j \in DOMAIN reservations : j # i => reservations'[j] = reservations[j]
      /\ reservations'[i].cycle = old.cycle /\ reservations'[i].period = old.period
      /\ reservations'[i].amount = a
      /\ Settle(i) => reservations'[i].status = "SETTLED"
      /\ Release(i) => reservations'[i].status = "RELEASED"
  BY <1>1 DEF Settle, Release, Reservation
<1>3. \A k, statuses :
         /\ \/ KeyOf(i) # k
            \/ "RESERVED" \in statuses <=> reservations'[i].status \in statuses
            => Shown(reservations', k, statuses) = Shown(reservations, k, statuses)
         /\ /\ KeyOf(i) = k
            /\ "RESERVED" \in statuses /\ reservations'[i].status \notin statuses
            => Shown(reservations', k, statuses) = Shown(reservations, k, statuses) - a
         /\ /\ KeyOf(i) = k
            /\ "RESERVED" \notin statuses /\ reservations'[i].status \in statuses
            => Shown(reservations', k, statuses) = Shown(reservations, k, statuses) + a
  BY <1>1, <1>2, StatusCounts DEF KeyOf
<1>4. ASSUME NEW k \in Obligations \X Periods
      PROVE  /\ capPeriods'[k].reserved = Shown(reservations', k, {"RESERVED"})
             /\ capPeriods'[k].spent = Shown(reservations', k, {"SETTLED"})
  <2>1. CASE k # KeyOf(i)
    <3>1. capPeriods'[k] = capPeriods[k]
      BY <2>1 DEF Settle, Release, StoreTypeOK
    <3>2. /\ Shown(reservations', k, {"RESERVED"}) = Shown(reservations, k, {"RESERVED"})
          /\ Shown(reservations', k, {"SETTLED"}) = Shown(reservations, k, {"SETTLED"})
      BY <1>3, <2>1
    <3> QED
      BY <3>1, <3>2 DEF CountersShow
  <2>2. CASE k = KeyOf(i) /\ Settle(i)
    <3>1. /\ capPeriods'[k].reserved = capPeriods[k].reserved - a
          /\ capPeriods'[k].spent = capPeriods[k].spent + a
      BY <2>2 DEF Settle, Booked, StoreTypeOK
    <3>2. /\ Shown(reservations', k, {"RESERVED"}) = Shown(reservations, k, {"RESERVED"}) - a
          /\ Shown(reservations', k, {"SETTLED"}) = Shown(reservations, k, {"SETTLED"}) + a
      BY <1>2, <1>3, <2>2
    <3> QED
      BY <3>1, <3>2 DEF CountersShow
  <2>3. CASE k = KeyOf(i) /\ Release(i)
    <3>1. /\ capPeriods'[k].reserved = capPeriods[k].reserved - a
          /\ capPeriods'[k].spent = capPeriods[k].spent
      BY <2>3 DEF Release, StoreTypeOK, PeriodRow
    <3>2. /\ Shown(reservations', k, {"RESERVED"}) = Shown(reservations, k, {"RESERVED"}) - a
          /\ Shown(reservations', k, {"SETTLED"}) = Shown(reservations, k, {"SETTLED"})
      BY <1>2, <1>3, <2>3
    <3> QED
      BY <3>1, <3>2 DEF CountersShow
  <2> QED
    BY <2>1, <2>2, <2>3
<1> QED
  BY <1>2, <1>4 DEF CountersShow, ReservationsFinite

\* What is known of the two tables at any moment.
Kept == RowsCarryCap /\ ReservedRowsOpen /\ ReservationsFinite /\ CountersShow

\* It holds, for callers that finish a reservation once.
LEMMA KeptHolds == StoreSpec => []Kept
<1>1. StoreInit => Kept
  <2> SUFFICES ASSUME StoreInit PROVE Kept
    OBVIOUS
  <2>1. DOMAIN reservations = {}
    BY DEF StoreInit
  <2>2. \A k, statuses : Shown(reservations, k, statuses) = 0
    <3>1. \A k, statuses : Counted(reservations, k, statuses) = {}
      BY <2>1 DEF Counted
    <3> QED
      BY <3>1, TotalEmpty DEF Shown
  <2> QED
    BY <2>1, <2>2, FS_EmptySet
    DEF Kept, StoreInit, RowsCarryCap, ReservedRowsOpen, ReservationsFinite, CountersShow,
        NoPeriodRow
<1>2. StoreTypeOK /\ Kept /\ [StoreNext]_storeVars => Kept'
  <2> SUFFICES ASSUME StoreTypeOK, Kept, [StoreNext]_storeVars
               PROVE  ReservationsFinite' /\ CountersShow'
    BY RowsCarryCapStep, ReservedRowsOpenStep DEF Kept
  <2>1. CASE UNCHANGED storeVars
    BY <2>1 DEF storeVars, Kept, ReservationsFinite, CountersShow
  <2> QED
    BY <2>1, ReserveExact, RefuseExact, FinishExact DEF StoreNext, Kept
<1> QED
  BY <1>1, <1>2, StoreTypeCorrect, PTL DEF StoreSpec

\* Both counters of every month are the sums over the reservations they stand
\* for: nothing is counted twice, dropped, or left reserved, whatever the order
\* of calls, for callers that finish a reservation once (sqliteCapStore.ts:47-116).
THEOREM CountersExact == StoreSpec => []LedgerExact
<1>1. Kept => LedgerExact
  BY AmountInTotal DEF Kept, ReservationsFinite, CountersShow, LedgerExact, Shown
<1> QED
  BY <1>1, KeptHolds, PTL

\* All that is reserved or spent of a month is within the obligation's cap.
LEMMA CountedWithinCap ==
  ASSUME StoreTypeOK, Kept, WithinCap, NEW k \in Obligations \X Periods
  PROVE  Shown(reservations, k, {"RESERVED", "SETTLED"}) <= Cap[k[1]]
<1> DEFINE S == Counted(reservations, k, {"RESERVED"})
           T == Counted(reservations, k, {"SETTLED"})
<1>1. Countable(reservations)
  BY ReservationsCountable DEF Kept
<1>2. IsFiniteSet(S) /\ IsFiniteSet(T)
  BY <1>1, CountedFinite
<1>3. S \cap T = {} /\ Counted(reservations, k, {"RESERVED", "SETTLED"}) = S \cup T
  BY DEF Counted
<1>4. \A i \in S \cup T : amounts(reservations)[i] \in Int
  BY <1>1 DEF Countable, Counted, amounts
<1>5. Total(amounts(reservations), S \cup T)
        = Total(amounts(reservations), S) + Total(amounts(reservations), T)
  <2> HIDE DEF S, T
  <2> QED
    BY <1>2, <1>3, <1>4, TotalUnion
<1>6. Shown(reservations, k, {"RESERVED", "SETTLED"})
        = capPeriods[k].reserved + capPeriods[k].spent
  BY <1>3, <1>5 DEF Kept, CountersShow, Shown
<1>7. capPeriods[k] \in PeriodRow /\ capPeriods[k].spent + capPeriods[k].reserved <= capPeriods[k].cap
  BY DEF StoreTypeOK, WithinCap
<1>8. capPeriods[k].cap <= Cap[k[1]] /\ Cap[k[1]] \in Nat
  BY StoreAssumption DEF Kept, RowsCarryCap, NoPeriodRow
<1> QED
  BY <1>6, <1>7, <1>8 DEF PeriodRow
=============================================================================
