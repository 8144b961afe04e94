--------------------------- MODULE PaymentCycles ---------------------------
(***************************************************************************)
(* The life of recurring payments: scheduler runs (scheduler/*.ts), the    *)
(* decision loop (domain/decisionLoop.ts), execution and user approval     *)
(* (engine/quoteEngine.ts, http/routes/obligations.ts), over the cap       *)
(* ledger of SqliteCapStore, the cycles table, the wallet service and the  *)
(* chain.                                                                  *)
(*                                                                         *)
(* The server is one Node process.  What runs between two awaits is one    *)
(* step; several handlers are interleaved at their awaits.  A handler      *)
(* works on copies of rows it read before, and saveCycle() overwrites the  *)
(* row with the copy.  A crash loses the handlers and keeps the tables,    *)
(* the requests already sent, and the chain.                               *)
(***************************************************************************)
EXTENDS SqliteCapStore, CycleStateMachine

CONSTANTS Runners,      \* runs of runDueCycles() that may overlap
          Clients,      \* user requests that may be in flight at once
          TransferIds,  \* the hashes of the transfers that are ever sent
          MaxAusdCost,  \* maxAusdCost of every obligation
          MaxFeeAusd,   \* maxFeeAusd of every obligation
          Balances,     \* what the wallet may hold when it is looked at
          Linked,       \* obligations whose owner has a wallet linked at the start
          Allowlisted,  \* obligations whose recipient is ACTIVE
          MaxCrashes,   \* bound: crashes of the server
          MaxLost,      \* bound: send calls that throw although they arrived
          None          \* absence of an id

Procs == Runners \cup Clients

ASSUME CyclesAssumption ==
  /\ Runners \cap Clients = {}
  /\ None \notin Cycles \cup ReservationIds \cup TransferIds
  /\ MaxAusdCost \in Nat /\ MaxFeeAusd \in Nat
  /\ Balances \subseteq Nat
  /\ Linked \subseteq Obligations /\ Allowlisted \subseteq Obligations
  /\ MaxCrashes \in Nat /\ MaxLost \in Nat

VARIABLES rows,         \* table cycles
          status,       \* status of each obligation
          linked,       \* obligations whose owner has a wallet linked
          lapsed,       \* quotes past their expiresAt, named by their reservation
          clock,        \* the month, and the due dates that have passed
          transfers,    \* requests to the wallet service and what became of them
          pc,           \* where each handler awaits
          copy,         \* the Cycle object a handler works on
          request,      \* the transfer a handler waits for
          asOf,         \* `now' as read at the start of a run
          stuck,        \* a run's list of EXECUTING rows still to re-check
          due,          \* a run's list of due cycles still to process
          faults        \* crashes and lost responses so far

localVars == <<pc, copy, request, asOf, stuck, due>>
worldVars == <<status, linked, lapsed, clock, transfers, faults>>
vars == <<capPeriods, reservations, rows, worldVars, localVars>>

RowStates == CycleStates \cup {"ABSENT"}

Row == [state : RowStates, reservation : ReservationIds \cup {None},
        hash : TransferIds \cup {None}]

\* A Cycle object in memory: the row and the id.
Copy == [cycle : Cycles \cup {None}, state : RowStates,
         reservation : ReservationIds \cup {None}, hash : TransferIds \cup {None}]

Transfer == [cycle : Cycles, reservation : ReservationIds,
             status : {"REQUESTED", "REJECTED", "BROADCAST", "LANDED", "REVERTED"}]

Clock == [period : Periods, dates : SUBSET Cycles]

TypeOK ==
  /\ StoreTypeOK
  /\ rows \in [Cycles -> Row]
  /\ status \in [Obligations -> {"ACTIVE", "PAUSED"}]
  /\ linked \subseteq Obligations
  /\ lapsed \subseteq ReservationIds
  /\ clock \in Clock
  /\ DOMAIN transfers \subseteq TransferIds
  /\ transfers \in [DOMAIN transfers -> Transfer]
  /\ pc \in [Procs -> {"idle", "reconciling", "batch", "sending", "confirming", "saving"}]
  /\ copy \in [Procs -> Copy]
  /\ request \in [Procs -> TransferIds \cup {None}]
  /\ asOf \in [Runners -> Clock]
  /\ stuck \in [Runners -> SUBSET Copy]
  /\ due \in [Runners -> SUBSET Cycles]
  /\ faults \in [crashes : 0 .. MaxCrashes, lost : 0 .. MaxLost]

NoRow == [state |-> "ABSENT", reservation |-> None, hash |-> None]
NoCopy == [cycle |-> None, state |-> "ABSENT", reservation |-> None, hash |-> None]
Midnight == [period |-> 1, dates |-> {}]

Init ==
  /\ StoreInit
  /\ rows = [c \in Cycles |-> NoRow]
  /\ status = [o \in Obligations |-> "ACTIVE"]
  /\ linked = Linked
  /\ lapsed = {}
  /\ clock = Midnight
  /\ transfers = [t \in {} |-> 0]
  /\ pc = [p \in Procs |-> "idle"]
  /\ copy = [p \in Procs |-> NoCopy]
  /\ request = [p \in Procs |-> None]
  /\ asOf = [r \in Runners |-> Midnight]
  /\ stuck = [r \in Runners |-> {}]
  /\ due = [r \in Runners |-> {}]
  /\ faults = [crashes |-> 0, lost |-> 0]

\* The object rowToCycle() makes of a row, and a row's new content.
CopyOf(c) == [cycle |-> c, state |-> rows[c].state,
              reservation |-> rows[c].reservation, hash |-> rows[c].hash]

saveCycle(object) ==
  rows' = [rows EXCEPT ![object.cycle] =
             [state |-> object.state, reservation |-> object.reservation,
              hash |-> object.hash]]

-----------------------------------------------------------------------------
(* Time and the user's stop. *)

\* The due date of a cycle passes.
DueDatePasses(c) ==
  /\ c \notin clock.dates
  /\ clock' = [clock EXCEPT !.dates = @ \cup {c}]
  /\ UNCHANGED <<storeVars, rows, status, linked, lapsed, transfers, faults, localVars>>

MonthEnds ==
  /\ clock.period < LastPeriod
  /\ clock' = [clock EXCEPT !.period = @ + 1]
  /\ UNCHANGED <<storeVars, rows, status, linked, lapsed, transfers, faults, localVars>>

\* A quote's lifetime ends.  Only approveCycle() looks at it, so it matters
\* for the quote of a row that waits for approval.
QuoteLapses(c) ==
  /\ rows[c].state = "REQUIRES_APPROVAL"
  /\ rows[c].reservation \in ReservationIds \ lapsed
  /\ lapsed' = lapsed \cup {rows[c].reservation}
  /\ UNCHANGED <<storeVars, rows, status, linked, clock, transfers, faults, localVars>>

\* POST /obligations/:id/kill-switch, as far as the scheduler can see it.
KillSwitch(o) ==
  /\ status[o] = "ACTIVE"
  /\ status' = [status EXCEPT ![o] = "PAUSED"]
  /\ UNCHANGED <<storeVars, rows, linked, lapsed, clock, transfers, faults, localVars>>

\* POST /users/sync finds the owner's wallet.
LinkWallet(o) ==
  /\ o \notin linked
  /\ linked' = linked \cup {o}
  /\ UNCHANGED <<storeVars, rows, status, lapsed, clock, transfers, faults, localVars>>

-----------------------------------------------------------------------------
(* The wallet service and the chain. *)

TransferMoves(t, from, to) ==
  /\ t \in DOMAIN transfers
  /\ transfers[t].status = from
  /\ transfers' = [transfers EXCEPT ![t].status = to]
  /\ UNCHANGED <<storeVars, rows, status, linked, lapsed, clock, faults, localVars>>

\* The policy, an expired grant or a missing signer refuses the request.
Rejected(t) == TransferMoves(t, "REQUESTED", "REJECTED")
Broadcast(t) == TransferMoves(t, "REQUESTED", "BROADCAST")
Landed(t) == TransferMoves(t, "BROADCAST", "LANDED")
Reverted(t) == TransferMoves(t, "BROADCAST", "REVERTED")

-----------------------------------------------------------------------------
(* Sending: executeApprovedCycle() and the executor it awaits. *)

\* The request leaves; the transition to EXECUTING is in memory only.
StartTransfer(p, c, i, t) ==
  /\ t \in TransferIds \ DOMAIN transfers
  /\ transfers' = Put(transfers, t, [cycle |-> c, reservation |-> i, status |-> "REQUESTED"])
  /\ copy' = [copy EXCEPT ![p] = [cycle |-> c, state |-> "EXECUTING",
                                  reservation |-> i, hash |-> None]]
  /\ request' = [request EXCEPT ![p] = t]
  /\ pc' = [pc EXCEPT ![p] = "sending"]

\* The handler is done with the cycle but for saveCycle().
Concludes(p, object) ==
  /\ copy' = [copy EXCEPT ![p] = object]
  /\ request' = [request EXCEPT ![p] = None]
  /\ pc' = [pc EXCEPT ![p] = "saving"]

\* The catch block: whatever was thrown, the reservation is released.
SendThrows(p) ==
  /\ Release(copy[p].reservation)
  /\ Concludes(p, [copy[p] EXCEPT !.state = "FAILED"])
  /\ UNCHANGED <<rows, status, linked, lapsed, clock, transfers, asOf, stuck, due>>

SendRefused(p) ==
  /\ pc[p] = "sending"
  /\ transfers[request[p]].status = "REJECTED"
  /\ SendThrows(p)
  /\ UNCHANGED faults

\* The call throws (a timeout, a broken connection) although the request
\* arrived: the catch block cannot tell this from a refusal.
ResponseLost(p) ==
  /\ pc[p] = "sending"
  /\ transfers[request[p]].status # "REJECTED"
  /\ faults.lost < MaxLost
  /\ faults' = [faults EXCEPT !.lost = @ + 1]
  /\ SendThrows(p)

\* sendTransaction() returns the hash; the wait for the receipt begins.
SendAccepted(p) ==
  /\ pc[p] = "sending"
  /\ transfers[request[p]].status \in {"BROADCAST", "LANDED", "REVERTED"}
  /\ copy' = [copy EXCEPT ![p].hash = request[p]]
  /\ pc' = [pc EXCEPT ![p] = "confirming"]
  /\ UNCHANGED <<storeVars, rows, worldVars, request, asOf, stuck, due>>

\* A landed transfer whose allowance is given back as if it had failed.
FaultyReceiptLanded(p) ==
  /\ pc[p] = "confirming"
  /\ transfers[request[p]].status = "LANDED"
  /\ Release(copy[p].reservation)
  /\ Concludes(p, [copy[p] EXCEPT !.state = "SETTLED"])
  /\ UNCHANGED <<rows, worldVars, asOf, stuck, due>>

ReceiptLanded(p) ==
  /\ pc[p] = "confirming"
  /\ transfers[request[p]].status = "LANDED"
  /\ Settle(copy[p].reservation)
  /\ Concludes(p, [copy[p] EXCEPT !.state = "SETTLED"])
  /\ UNCHANGED <<rows, worldVars, asOf, stuck, due>>

ReceiptReverted(p) ==
  /\ pc[p] = "confirming"
  /\ transfers[request[p]].status = "REVERTED"
  /\ Release(copy[p].reservation)
  /\ Concludes(p, [copy[p] EXCEPT !.state = "FAILED"])
  /\ UNCHANGED <<rows, worldVars, asOf, stuck, due>>

\* A timeout taken for a failure: the reservation is given back at once.
FaultyReceiptTimeout(p) ==
  /\ pc[p] = "confirming"
  /\ Release(copy[p].reservation)
  /\ Concludes(p, [copy[p] EXCEPT !.state = "FAILED"])
  /\ UNCHANGED <<rows, worldVars, asOf, stuck, due>>

\* The same state saved without the hash.
FaultyHashKept(p) ==
  /\ pc[p] = "confirming"
  /\ Concludes(p, [copy[p] EXCEPT !.hash = None])
  /\ UNCHANGED <<storeVars, rows, worldVars, asOf, stuck, due>>

\* No receipt in time, mined or not: PENDING_CONFIRMATION keeps EXECUTING, the
\* hash and the reservation.
ReceiptTimeout(p) ==
  /\ pc[p] = "confirming"
  /\ Concludes(p, copy[p])
  /\ UNCHANGED <<storeVars, rows, worldVars, asOf, stuck, due>>

\* saveCycle() after the await of runCycle() or approveCycle().  A run goes on
\* with its batch, a request is answered.
Save(p) ==
  /\ pc[p] = "saving"
  /\ saveCycle(copy[p])
  /\ copy' = [copy EXCEPT ![p] = NoCopy]
  /\ pc' = [pc EXCEPT ![p] = IF p \in Runners THEN "batch" ELSE "idle"]
  /\ UNCHANGED <<storeVars, worldVars, request, asOf, stuck, due>>

-----------------------------------------------------------------------------
(* reconcilePendingCycles(), the first thing a run does. *)

\* A list of the rows without a hash instead.
FaultyStuckRows == {c \in Cycles : rows[c].state = "EXECUTING" /\ rows[c].hash = None}

\* listStuckExecutingCycles(): broadcast and still EXECUTING.  The grace period
\* is short against the waits of a run, so rows of any age are listed.
StuckRows == {c \in Cycles : rows[c].state = "EXECUTING" /\ rows[c].hash # None}

StartRun(r) ==
  /\ pc[r] = "idle"
  /\ asOf' = [asOf EXCEPT ![r] = clock]
  /\ stuck' = [stuck EXCEPT ![r] = {CopyOf(c) : c \in StuckRows}]
  /\ pc' = [pc EXCEPT ![r] = "reconciling"]
  /\ UNCHANGED <<storeVars, rows, worldVars, copy, request, due>>

NextStuck(r, s) ==
  /\ pc[r] = "reconciling"
  /\ s \in stuck[r]
  /\ stuck' = [stuck EXCEPT ![r] = @ \ {s}]

\* checkReceipt() sees no receipt, or any error: left for the next run.
StillPending(r, s) ==
  /\ NextStuck(r, s)
  /\ UNCHANGED <<storeVars, rows, worldVars, pc, copy, request, asOf, due>>

\* Reconciliation that takes any receipt for a success.
FaultyFinished(s) ==
  IF transfers[s.hash].status \in {"LANDED", "REVERTED"}
  THEN Settle(s.reservation) ELSE FALSE

\* A receipt: the ledger is brought up to date.
Finished(s) ==
  \/ transfers[s.hash].status = "LANDED" /\ Settle(s.reservation)
  \/ transfers[s.hash].status = "REVERTED" /\ Release(s.reservation)

\* ... and in the same step the row.
FinishStuck(r, s) ==
  /\ NextStuck(r, s)
  /\ Finished(s)
  /\ saveCycle([s EXCEPT !.state = IF transfers[s.hash].status = "LANDED"
                                   THEN "SETTLED" ELSE "FAILED"])
  /\ UNCHANGED <<worldVars, pc, copy, request, asOf, due>>

-----------------------------------------------------------------------------
(* generateDueCycles() and the batch. *)

\* Every date that has passed gets a row, as if none had been made before.
FaultyGenerated(r) == {c \in asOf[r].dates : status[ObligationOf[c]] = "ACTIVE"}

Generated(r) == {c \in asOf[r].dates : rows[c].state = "ABSENT"
                                       /\ status[ObligationOf[c]] = "ACTIVE"}

\* A list that leaves out only what was or is being paid.
FaultyIsDue(row) == row.state \notin {"EXECUTING", "SETTLED"}

\* listDueCycles(): WHERE c.state = 'PENDING_QUOTE' ...
IsDue(row) == row.state = "PENDING_QUOTE"

\* The rows of every due date that has none yet, then the list of due cycles.
ListDue(r) ==
  /\ pc[r] = "reconciling"
  /\ stuck[r] = {}
  /\ rows' = [c \in Cycles |-> IF c \in Generated(r)
                               THEN [rows[c] EXCEPT !.state = "PENDING_QUOTE"] ELSE rows[c]]
  /\ due' = [due EXCEPT ![r] = {c \in asOf[r].dates : IsDue(rows'[c])
                                                      /\ status[ObligationOf[c]] = "ACTIVE"}]
  /\ pc' = [pc EXCEPT ![r] = "batch"]
  /\ UNCHANGED <<storeVars, worldVars, copy, request, asOf, stuck>>

NextDue(r, c) ==
  /\ pc[r] = "batch"
  /\ c \in due[r]
  /\ due' = [due EXCEPT ![r] = @ \ {c}]

\* A lookup that fails is passed over as if no wallet were linked.
FaultyLeaveDue(r, c) ==
  /\ NextDue(r, c)
  /\ UNCHANGED <<storeVars, rows, worldVars, pc, copy, request, asOf, stuck>>

\* No wallet linked yet: the cycle stays due.
LeaveDue(r, c) ==
  /\ NextDue(r, c)
  /\ ObligationOf[c] \notin linked
  /\ UNCHANGED <<storeVars, rows, worldVars, pc, copy, request, asOf, stuck>>

\* The listed row, as the decision loop sees it after the balance was awaited:
\* a PENDING_QUOTE row holds no reservation and no hash.
Listed(c) == [cycle |-> c, state |-> "PENDING_QUOTE", reservation |-> None, hash |-> None]

Skips(r, c) == Concludes(r, [Listed(c) EXCEPT !.state = "SKIPPED"])

\* Gate 1 or the balance check refuses, before anything is reserved.
SkipUnfunded(r, c) ==
  /\ NextDue(r, c)
  /\ ObligationOf[c] \in linked
  /\ \/ ObligationOf[c] \notin Allowlisted
     \/ \E price \in Prices, balance \in Balances : balance < Cost(price)
  /\ Skips(r, c)
  /\ UNCHANGED <<storeVars, rows, worldVars, asOf, stuck>>

\* The gates that are passed before the cap is asked.
Quotable(c, price) ==
  /\ ObligationOf[c] \in linked \cap Allowlisted
  /\ \E balance \in Balances : balance >= Cost(price)

SkipUnreserved(r, c) ==
  /\ NextDue(r, c)
  /\ \E price \in Prices :
       /\ Quotable(c, price)
       /\ RefuseReserve(c, asOf[r].period, Cost(price))
  /\ Skips(r, c)
  /\ UNCHANGED <<rows, worldVars, asOf, stuck>>

WithinTolerance(price) == price.principal <= MaxAusdCost /\ price.fee <= MaxFeeAusd

\* Reserved and beyond the user's limits: REQUIRES_APPROVAL.
AskApproval(r, c) ==
  /\ NextDue(r, c)
  /\ \E price \in Prices, i \in ReservationIds :
       /\ Quotable(c, price)
       /\ ~WithinTolerance(price)
       /\ Reserve(i, c, asOf[r].period, Cost(price))
       /\ Concludes(r, [Listed(c) EXCEPT !.state = "REQUIRES_APPROVAL", !.reservation = i])
  /\ UNCHANGED <<rows, worldVars, asOf, stuck>>

\* Reserved and within the limits: AUTO_APPROVED, and the request leaves.
AutoApprove(r, c) ==
  /\ NextDue(r, c)
  /\ \E price \in Prices, i \in ReservationIds, t \in TransferIds :
       /\ Quotable(c, price)
       /\ WithinTolerance(price)
       /\ Reserve(i, c, asOf[r].period, Cost(price))
       /\ StartTransfer(r, c, i, t)
  /\ UNCHANGED <<rows, status, linked, lapsed, clock, faults, asOf, stuck>>

\* A balance lookup throws: the rest of the batch is dropped with the run.
AbortRun(r) ==
  /\ pc[r] = "batch"
  /\ due[r] # {}
  /\ due' = [due EXCEPT ![r] = {}]
  /\ pc' = [pc EXCEPT ![r] = "idle"]
  /\ UNCHANGED <<storeVars, rows, worldVars, copy, request, asOf, stuck>>

EndRun(r) ==
  /\ pc[r] = "batch"
  /\ due[r] = {}
  /\ pc' = [pc EXCEPT ![r] = "idle"]
  /\ UNCHANGED <<storeVars, rows, worldVars, copy, request, asOf, stuck, due>>

-----------------------------------------------------------------------------
(* The user's answer to a REQUIRES_APPROVAL quote. *)

\* An approval that trusts the screen: the row's state is not looked at.
FaultyAnswerable(u, c) ==
  /\ pc[u] = "idle"
  /\ rows[c].reservation # None
  /\ ObligationOf[c] \in linked

\* getCycle() and approveCycle()'s checks.
Answerable(u, c) ==
  /\ pc[u] = "idle"
  /\ rows[c].state = "REQUIRES_APPROVAL"
  /\ rows[c].reservation # None
  /\ ObligationOf[c] \in linked

\* Approval in time: the quoted amount is sent under the reservation that the
\* decision loop made.
Approve(u, c) ==
  /\ Answerable(u, c)
  /\ rows[c].reservation \notin lapsed
  /\ \E t \in TransferIds : StartTransfer(u, c, rows[c].reservation, t)
  /\ UNCHANGED <<storeVars, rows, status, linked, lapsed, clock, faults, asOf, stuck, due>>

\* An expired quote closed without giving its reservation back.
FaultyApproveLapsed(u, c) ==
  /\ Answerable(u, c)
  /\ rows[c].reservation \in lapsed
  /\ Concludes(u, [CopyOf(c) EXCEPT !.state = "EXPIRED"])
  /\ UNCHANGED <<storeVars, rows, worldVars, asOf, stuck, due>>

ApproveLapsed(u, c) ==
  /\ Answerable(u, c)
  /\ rows[c].reservation \in lapsed
  /\ Release(rows[c].reservation)
  /\ Concludes(u, [CopyOf(c) EXCEPT !.state = "EXPIRED"])
  /\ UNCHANGED <<rows, worldVars, asOf, stuck, due>>

\* skipCycle() and saveCycle() without an await between them.
Skip(u, c) ==
  /\ pc[u] = "idle"
  /\ rows[c].state = "REQUIRES_APPROVAL"
  /\ Release(rows[c].reservation)
  /\ saveCycle([CopyOf(c) EXCEPT !.state = "SKIPPED"])
  /\ UNCHANGED <<worldVars, localVars>>

-----------------------------------------------------------------------------
(* Crashes. *)

LosesHandlers ==
  /\ faults.crashes < MaxCrashes
  /\ faults' = [faults EXCEPT !.crashes = @ + 1]
  /\ pc' = [p \in Procs |-> "idle"]
  /\ copy' = [p \in Procs |-> NoCopy]
  /\ request' = [p \in Procs |-> None]
  /\ stuck' = [r \in Runners |-> {}]
  /\ due' = [r \in Runners |-> {}]
  /\ UNCHANGED <<status, linked, lapsed, clock, transfers, asOf>>

\* The process dies while its handlers wait, or between the ledger's
\* transaction and the saveCycle() that follows an await.
Crash ==
  /\ \E p \in Procs : pc[p] # "idle"
  /\ LosesHandlers
  /\ UNCHANGED <<storeVars, rows>>

\* It dies between the two statements of a reconciliation, which no
\* transaction holds together: the ledger is updated, the row is not.
CrashInReconcile(r) ==
  /\ pc[r] = "reconciling"
  /\ \E s \in stuck[r] : Finished(s)
  /\ LosesHandlers
  /\ UNCHANGED rows

-----------------------------------------------------------------------------
(* The specification. *)

Execution(p) ==
  \/ SendRefused(p) \/ ResponseLost(p) \/ SendAccepted(p)
  \/ ReceiptLanded(p) \/ ReceiptReverted(p) \/ ReceiptTimeout(p)
  \/ Save(p)

Decide(r, c) ==
  \/ LeaveDue(r, c) \/ SkipUnfunded(r, c) \/ SkipUnreserved(r, c)
  \/ AskApproval(r, c) \/ AutoApprove(r, c)

Run(r) ==
  \/ StartRun(r)
  \/ \E s \in stuck[r] : StillPending(r, s) \/ FinishStuck(r, s)
  \/ ListDue(r)
  \/ \E c \in due[r] : Decide(r, c)
  \/ AbortRun(r) \/ EndRun(r)

Answer(u, c) == Approve(u, c) \/ ApproveLapsed(u, c) \/ Skip(u, c)

Environment ==
  \/ \E c \in Cycles : DueDatePasses(c) \/ QuoteLapses(c)
  \/ MonthEnds
  \/ \E o \in Obligations : KillSwitch(o) \/ LinkWallet(o)
  \/ \E t \in DOMAIN transfers : Rejected(t) \/ Broadcast(t) \/ Landed(t) \/ Reverted(t)

Next ==
  \/ \E p \in Procs : Execution(p)
  \/ \E r \in Runners : Run(r) \/ CrashInReconcile(r)
  \/ \E u \in Clients, c \in Cycles : Answer(u, c)
  \/ Environment
  \/ Crash

Spec == Init /\ [][Next]_vars

\* A trigger keeps firing, calls return (an answer or an exception), the
\* service and the chain decide.  A balance or receipt lookup may fail any
\* number of times, but not for ever for the same cycle: strong fairness.
\* Nothing is assumed of the user.
Fairness ==
  /\ \A r \in Runners :
       /\ WF_vars(StartRun(r)) /\ WF_vars(ListDue(r)) /\ WF_vars(EndRun(r))
       /\ WF_vars(\E s \in stuck[r] : StillPending(r, s))
       /\ \A c \in Cycles :
            /\ SF_vars(\E s \in stuck[r] : s.cycle = c /\ FinishStuck(r, s))
            /\ SF_vars(Decide(r, c))
  /\ \A p \in Procs :
       /\ WF_vars(SendRefused(p)) /\ WF_vars(SendAccepted(p)) /\ WF_vars(Save(p))
       /\ WF_vars(ReceiptLanded(p) \/ ReceiptReverted(p) \/ ReceiptTimeout(p))
  /\ \A t \in TransferIds :
       /\ WF_vars(Rejected(t) \/ Broadcast(t))
       /\ WF_vars(Landed(t) \/ Reverted(t))

FairSpec == Spec /\ Fairness
=============================================================================
