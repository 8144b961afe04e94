---------------------- MODULE PaymentCyclesProperties ----------------------
(***************************************************************************)
(* What PaymentCycles is for.  Which deployment keeps which promise is the *)
(* business of the configurations; see the README.                         *)
(***************************************************************************)
EXTENDS PaymentCycles

\* A transfer that moved money or still may.
InPlay(t) == transfers[t].status \in {"REQUESTED", "BROADCAST", "LANDED"}

\* No cycle is ever paid twice: whatever runs overlap or crash, of all the
\* transfers sent for a cycle at most one can still move, or has moved, money
\* (reservation.ts:25-37, types.ts:92).
AtMostOneTransfer ==
  \A t, u \in DOMAIN transfers :
    InPlay(t) /\ InPlay(u) /\ transfers[t].cycle = transfers[u].cycle => t = u

\* Money on its way is never given back to the month's budget before its fate
\* is known, and stays booked once it has landed (quoteEngine.ts:45-54).
TransferBacked ==
  \A t \in DOMAIN transfers :
    InPlay(t) => /\ transfers[t].reservation \in DOMAIN reservations
                 /\ reservations[transfers[t].reservation].status # "RELEASED"

\* A cycle is only called SETTLED, and its amount only booked as spent, for
\* money that did land: the ledger cannot run ahead of the chain
\* (quoteEngine.ts:118-130, reconcilePendingCycles.ts:66-79).
SettledHasLanded ==
  /\ \A i \in DOMAIN reservations : reservations[i].status = "SETTLED" =>
       \E t \in DOMAIN transfers :
         transfers[t].reservation = i /\ transfers[t].status = "LANDED"
  /\ \A c \in Cycles : rows[c].state = "SETTLED" =>
       rows[c].hash \in DOMAIN transfers /\ transfers[rows[c].hash].status = "LANDED"

\* What has left the wallet for an obligation within a month, counted on the
\* chain and not in the ledger, stays within its cumulative cap
\* (reservation.ts:4-10).
PaidWithinCap ==
  \A k \in Obligations \X Periods :
    MapThenSumSet(LAMBDA t : reservations[transfers[t].reservation].amount,
                  {t \in DOMAIN transfers : transfers[t].status = "LANDED"
                                            /\ KeyOf(transfers[t].reservation) = k})
      <= Cap[k[1]]

\* A row that tells the user nothing was paid tells the truth: no transfer of a
\* SKIPPED, EXPIRED or FAILED cycle has landed or still can (decisionLoop.ts:41-85,
\* quoteEngine.ts:118-141; shown by the app as "nothing was charged").
UnpaidMeansUnpaid ==
  \A c \in Cycles : rows[c].state \in {"SKIPPED", "EXPIRED", "FAILED"} =>
    \A t \in DOMAIN transfers : transfers[t].cycle = c => ~InPlay(t)

\* No allowance is reserved for nobody: whoever holds one is a handler at work,
\* a quote the user can still answer, or a transfer reconciliation will find
\* (quoteEngine.ts:132-137, listStuckExecutingCycles).
ReservationsReachable ==
  \A i \in DOMAIN reservations : reservations[i].status = "RESERVED" =>
    LET c == reservations[i].cycle IN
    \/ \E p \in Procs : copy[p].cycle = c /\ copy[p].reservation = i
    \/ rows[c].reservation = i /\ rows[c].state = "REQUIRES_APPROVAL"
    \/ rows[c].reservation = i /\ rows[c].state = "EXECUTING" /\ rows[c].hash # None

\* What was broadcast can be traced: its hash is in the cycle's row, or in the
\* hands of the handler that will save it (quoteEngine.ts:105-110, types.ts:205-213).
BroadcastTraceable ==
  \A t \in DOMAIN transfers :
    transfers[t].status \in {"BROADCAST", "LANDED", "REVERTED"} =>
      \/ rows[transfers[t].cycle].hash = t
      \/ \E p \in Procs : request[p] = t \/ copy[p].hash = t

\* Rows only move along the edges of the state machine: a closed cycle is never
\* reopened or overwritten, and a hash or reservation once saved is never
\* replaced (cycleStateMachine.ts:3-7, types.ts:205-213).
RowsOnlyAdvance ==
  [][\A c \in Cycles : rows'[c] # rows[c] =>
       /\ rows[c].state # "ABSENT" =>
            /\ ~isTerminal(rows[c].state)
            /\ Reachable(rows[c].state, rows'[c].state)
       /\ rows[c].hash # None => rows'[c].hash = rows[c].hash
       /\ rows[c].reservation # None => rows'[c].reservation = rows[c].reservation]_vars

\* What the user skipped is never paid: once a cycle waits for approval, only an
\* approval sends money for it (quoteEngine.ts:175-188).
OnlyApprovedIsSent ==
  [][\A t \in DOMAIN transfers' \ DOMAIN transfers :
       LET c == transfers'[t].cycle IN
       rows[c].state # "PENDING_QUOTE" =>
         rows[c].state = "REQUIRES_APPROVAL" /\ \E u \in Clients : request'[u] = t]_vars

\* A due cycle is decided, however often lookups fail and whatever else is
\* due, through crashes and lost responses: it leaves PENDING_QUOTE once its owner
\* has a wallet, unless the owner stops it
\* (runDueCycles.ts:129-213).
DueIsDecided ==
  \A c \in Cycles :
    c \in clock.dates /\ ObligationOf[c] \in linked
      ~> \/ rows[c].state \notin {"ABSENT", "PENDING_QUOTE"}
         \/ status[ObligationOf[c]] = "PAUSED"

\* No cycle is stuck in EXECUTING for ever, whatever crashes (reconcilePendingCycles.ts:1-17).
ExecutingIsResolved ==
  \A c \in Cycles : rows[c].state = "EXECUTING" ~> rows[c].state \in {"SETTLED", "FAILED"}

\* Every transfer that is sent is accounted for in the end, unless the server
\* crashed: its allowance is spent or free again (quoteEngine.ts:91-142, reconcilePendingCycles.ts:46-83).
TransferIsBooked ==
  \A t \in TransferIds :
    t \in DOMAIN transfers
      ~> /\ t \in DOMAIN transfers
         /\ \/ reservations[transfers[t].reservation].status \in {"SETTLED", "RELEASED"}
            \/ faults.crashes > 0

-----------------------------------------------------------------------------
(* Why AtMostOneTransfer holds: the inductive invariant of its proof. *)

\* Every transfer was sent under a reservation made for its cycle.
TransfersReserved ==
  \A t \in DOMAIN transfers :
    /\ transfers[t].reservation \in DOMAIN reservations
    /\ reservations[transfers[t].reservation].cycle = transfers[t].cycle

\* Without user approvals no reservation is sent twice.
SentOnce ==
  \A t, u \in DOMAIN transfers : transfers[t].reservation = transfers[u].reservation => t = u

\* A handler that waits for a transfer holds the reservation it was sent under.
HandlersKnow ==
  \A p \in Procs : pc[p] \in {"sending", "confirming"} =>
    request[p] \in DOMAIN transfers
    /\ copy[p].reservation = transfers[request[p]].reservation

\* A hash stands next to the reservation its transfer was sent under.
Matches(object) ==
  object.hash # None =>
    object.hash \in DOMAIN transfers
    /\ transfers[object.hash].reservation = object.reservation

HashesMatch ==
  /\ \A c \in Cycles : Matches(rows[c])
  /\ \A p \in Procs : Matches(copy[p])
  /\ \A r \in Runners : \A s \in stuck[r] : s.hash # None /\ Matches(s)

LedgerInv == OneReservationPerCycle /\ TransfersReserved /\ SentOnce /\ TransferBacked

IInv == TypeOK /\ LedgerInv /\ HandlersKnow /\ HashesMatch

\* Why SettledHasLanded holds, whoever overlaps: a handler moves on to SETTLED
\* from the transfer it waits for, and with the hash of that transfer.
HasLanded(T, t) == t \in DOMAIN T /\ T[t].status = "LANDED"

CopiesTell ==
  \A p \in Procs :
    /\ pc[p] \in {"sending", "confirming"} => copy[p].state = "EXECUTING"
    /\ pc[p] = "confirming" => copy[p].hash = request[p]
    /\ copy[p].state = "SETTLED" => HasLanded(transfers, copy[p].hash)

SettledInv == TypeOK /\ HandlersKnow /\ HashesMatch /\ CopiesTell /\ SettledHasLanded
=============================================================================
