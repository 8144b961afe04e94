------------------------ MODULE PaymentCyclesProofs ------------------------
(***************************************************************************)
(* PaymentCycles for any number of cycles and obligations.  The first part *)
(* lets runs overlap and servers crash: type correctness, that nothing is  *)
(* called SETTLED that did not land, and, when nobody answers quotes, that *)
(* no cycle has two transfers that moved or can move money.  The second    *)
(* part is the deployment for one user: one scheduler whose runs do not    *)
(* overlap, one request of the user at a time, a server that stays up and  *)
(* send calls that report what happened.  There the rows, the ledger and   *)
(* the chain tell one story.                                               *)
(***************************************************************************)
EXTENDS PaymentCyclesProperties, SqliteCapStoreProofs

-----------------------------------------------------------------------------
(* Type correctness. *)

\* A price the market may quote costs an amount the store knows.
LEMMA CostType ==
  ASSUME NEW price \in Prices
  PROVE  Cost(price) \in Amounts
  BY DEF Amounts

\* The ledger as it was is well typed still.
LEMMA StoreSame ==
  ASSUME StoreTypeOK, UNCHANGED storeVars
  PROVE  StoreTypeOK'
  BY DEF StoreTypeOK, storeVars

\* What concludes a cycle keeps the handlers' variables well typed.
LEMMA ConcludesType ==
  ASSUME TypeOK, NEW p \in Procs, NEW object \in Copy, Concludes(p, object)
  PROVE  /\ copy' \in [Procs -> Copy]
         /\ request' \in [Procs -> TransferIds \cup {None}]
         /\ pc' \in [Procs -> {"idle", "reconciling", "batch", "sending", "confirming", "saving"}]
  BY DEF TypeOK, Concludes

\* saveCycle() writes a well-typed row.
LEMMA SaveType ==
  ASSUME TypeOK, NEW object \in Copy, saveCycle(object)
  PROVE  rows' \in [Cycles -> Row]
  BY DEF TypeOK, saveCycle, Copy, Row

\* The object made of a row is well typed.
LEMMA CopyType ==
  ASSUME TypeOK, NEW c \in Cycles
  PROVE  CopyOf(c) \in Copy
  BY DEF TypeOK, CopyOf, Copy, Row

\* So is an object whose state a handler has moved on.
LEMMA ObjectType ==
  ASSUME NEW object \in Copy, NEW s \in RowStates
  PROVE  [object EXCEPT !.state = s] \in Copy
  BY DEF Copy

\* The states handlers conclude with are states of rows.
LEMMA StatesType ==
  {"SETTLED", "FAILED", "SKIPPED", "EXPIRED", "EXECUTING", "REQUIRES_APPROVAL",
   "PENDING_QUOTE", "ABSENT"} \subseteq RowStates
  BY DEF RowStates, CycleStates

\* A request that leaves keeps transfers and handlers well typed.
LEMMA StartTransferType ==
  ASSUME TypeOK, NEW p \in Procs, NEW c \in Cycles, NEW i \in ReservationIds, NEW t,
         StartTransfer(p, c, i, t)
  PROVE  /\ DOMAIN transfers' \subseteq TransferIds
         /\ transfers' \in [DOMAIN transfers' -> Transfer]
         /\ copy' \in [Procs -> Copy]
         /\ request' \in [Procs -> TransferIds \cup {None}]
         /\ pc' \in [Procs -> {"idle", "reconciling", "batch", "sending", "confirming", "saving"}]
<1> DEFINE sent == [cycle |-> c, reservation |-> i, status |-> "REQUESTED"]
           object == [cycle |-> c, state |-> "EXECUTING", reservation |-> i, hash |-> None]
<1>1. sent \in Transfer /\ object \in Copy
  BY StatesType DEF Transfer, Copy
<1>2. t \in TransferIds /\ transfers' = Put(transfers, t, sent)
  BY DEF StartTransfer
<1>3. /\ DOMAIN Put(transfers, t, sent) \subseteq TransferIds
      /\ Put(transfers, t, sent) \in [DOMAIN Put(transfers, t, sent) -> Transfer]
  <2> HIDE DEF sent
  <2> QED
    BY <1>1, <1>2, PutType DEF TypeOK
<1>4. copy' \in [Procs -> Copy]
  BY <1>1 DEF StartTransfer, TypeOK
<1>5. /\ request' \in [Procs -> TransferIds \cup {None}]
      /\ pc' \in [Procs -> {"idle", "reconciling", "batch", "sending", "confirming", "saving"}]
  BY <1>2 DEF StartTransfer, TypeOK
<1>6. QED
  <2> HIDE DEF sent
  <2> QED
    BY <1>2, <1>3, <1>4, <1>5

\* Executing and saving (quoteEngine.ts:91-142) keep everything well typed.
LEMMA ExecutionType ==
  ASSUME TypeOK, NEW p \in Procs, Execution(p)
  PROVE  TypeOK'
<1> USE StatesType
<1>0. copy[p] \in Copy /\ StoreTypeOK
  BY DEF TypeOK
<1>1. ASSUME SendThrows(p), faults' \in [crashes : 0 .. MaxCrashes, lost : 0 .. MaxLost]
      PROVE  TypeOK'
  <2>1. StoreTypeOK'
    BY <1>0, <1>1, ReleaseType DEF SendThrows
  <2>2. [copy[p] EXCEPT !.state = "FAILED"] \in Copy
    BY <1>0, ObjectType
  <2>3. QED
    BY <1>1, <2>1, <2>2, ConcludesType DEF SendThrows, TypeOK
<1>2. CASE SendRefused(p)
  BY <1>1, <1>2 DEF SendRefused, TypeOK
<1>3. CASE ResponseLost(p)
  <2>1. faults' \in [crashes : 0 .. MaxCrashes, lost : 0 .. MaxLost]
    BY <1>3, CyclesAssumption DEF ResponseLost, TypeOK
  <2>2. QED
    BY <1>1, <1>3, <2>1 DEF ResponseLost
<1>4. CASE SendAccepted(p)
  <2>1. [copy[p] EXCEPT !.hash = request[p]] \in Copy
    BY <1>0 DEF Copy, TypeOK
  <2>2. copy' \in [Procs -> Copy]
    BY <1>4, <2>1 DEF SendAccepted, TypeOK
  <2>3. StoreTypeOK'
    BY <1>0, <1>4, StoreSame DEF SendAccepted
  <2>4. QED
    BY <1>4, <2>2, <2>3 DEF SendAccepted, TypeOK, worldVars
<1>5. CASE ReceiptLanded(p)
  <2>1. StoreTypeOK'
    BY <1>0, <1>5, SettleType DEF ReceiptLanded
  <2>2. [copy[p] EXCEPT !.state = "SETTLED"] \in Copy
    BY <1>0, ObjectType
  <2>3. QED
    BY <1>5, <2>1, <2>2, ConcludesType DEF ReceiptLanded, TypeOK, worldVars
<1>6. CASE ReceiptReverted(p)
  <2>1. StoreTypeOK'
    BY <1>0, <1>6, ReleaseType DEF ReceiptReverted
  <2>2. [copy[p] EXCEPT !.state = "FAILED"] \in Copy
    BY <1>0, ObjectType
  <2>3. QED
    BY <1>6, <2>1, <2>2, ConcludesType DEF ReceiptReverted, TypeOK, worldVars
<1>7. CASE ReceiptTimeout(p)
  <2>1. StoreTypeOK'
    BY <1>0, <1>7, StoreSame DEF ReceiptTimeout
  <2>2. QED
    BY <1>0, <1>7, <2>1, ConcludesType DEF ReceiptTimeout, TypeOK, worldVars
<1>8. CASE Save(p)
  <2>1. StoreTypeOK'
    BY <1>0, <1>8, StoreSame DEF Save
  <2>2. rows' \in [Cycles -> Row]
    BY <1>0, <1>8, SaveType DEF Save
  <2>3. NoCopy \in Copy
    BY DEF NoCopy, Copy
  <2>4. QED
    BY <1>8, <2>1, <2>2, <2>3 DEF Save, TypeOK, worldVars
<1>9. QED
  BY <1>2, <1>3, <1>4, <1>5, <1>6, <1>7, <1>8 DEF Execution

\* Re-checking stuck cycles (reconcilePendingCycles.ts:46-83) does, too.
LEMMA FinishedType ==
  ASSUME TypeOK, NEW s, Finished(s)
  PROVE  StoreTypeOK'
  BY SettleType, ReleaseType DEF Finished, TypeOK

\* So does a decision on a due cycle (decisionLoop.ts:32-143).
LEMMA DecideType ==
  ASSUME TypeOK, NEW r \in Runners, NEW c \in Cycles, Decide(r, c)
  PROVE  TypeOK'
<1> USE StatesType
<1>0. StoreTypeOK /\ r \in Procs /\ asOf[r].period \in Periods
  BY DEF TypeOK, Procs, Clock
<1>1. Listed(c) \in Copy
  BY DEF Listed, Copy
<1>2. [Listed(c) EXCEPT !.state = "SKIPPED"] \in Copy
  BY <1>1, ObjectType
<1>3. ASSUME NextDue(r, c)
      PROVE  due' \in [Runners -> SUBSET Cycles]
  BY <1>3 DEF NextDue, TypeOK
<1>4. CASE LeaveDue(r, c)
  BY <1>0, <1>3, <1>4, StoreSame DEF LeaveDue, TypeOK, worldVars
<1>5. CASE SkipUnfunded(r, c)
  <2>1. StoreTypeOK'
    BY <1>0, <1>5, StoreSame DEF SkipUnfunded
  <2>2. QED
    BY <1>0, <1>2, <1>3, <1>5, <2>1, ConcludesType DEF SkipUnfunded, Skips, TypeOK, worldVars
<1>6. CASE SkipUnreserved(r, c)
  <2>1. StoreTypeOK'
    BY <1>0, <1>6, RefuseType, CostType DEF SkipUnreserved
  <2>2. QED
    BY <1>0, <1>2, <1>3, <1>6, <2>1, ConcludesType DEF SkipUnreserved, Skips, TypeOK, worldVars
<1>7. CASE AskApproval(r, c)
  <2>1. PICK price \in Prices, i \in ReservationIds :
          /\ Reserve(i, c, asOf[r].period, Cost(price))
          /\ Concludes(r, [Listed(c) EXCEPT !.state = "REQUIRES_APPROVAL", !.reservation = i])
    BY <1>7 DEF AskApproval
  <2>2. StoreTypeOK'
    BY <1>0, <2>1, ReserveType, CostType
  <2>3. [Listed(c) EXCEPT !.state = "REQUIRES_APPROVAL", !.reservation = i] \in Copy
    BY DEF Listed, Copy
  <2>4. QED
    BY <1>0, <1>3, <1>7, <2>1, <2>2, <2>3, ConcludesType DEF AskApproval, TypeOK, worldVars
<1>8. CASE AutoApprove(r, c)
  <2>1. PICK price \in Prices, i \in ReservationIds, t \in TransferIds :
          /\ Reserve(i, c, asOf[r].period, Cost(price))
          /\ StartTransfer(r, c, i, t)
    BY <1>8 DEF AutoApprove
  <2>2. StoreTypeOK'
    BY <1>0, <2>1, ReserveType, CostType
  <2>3. QED
    BY <1>0, <1>3, <1>8, <2>1, <2>2, StartTransferType DEF AutoApprove, TypeOK, worldVars
<1>9. QED
  BY <1>4, <1>5, <1>6, <1>7, <1>8 DEF Decide

\* Every step of a run keeps the state well typed (runDueCycles.ts:129-213).
LEMMA RunType ==
  ASSUME TypeOK, NEW r \in Runners, Run(r)
  PROVE  TypeOK'
<1> USE StatesType
<1>0. StoreTypeOK /\ r \in Procs
  BY DEF TypeOK, Procs
<1>1. CASE StartRun(r)
  <2>1. {CopyOf(c) : c \in StuckRows} \in SUBSET Copy
    BY CopyType DEF StuckRows
  <2>2. StoreTypeOK'
    BY <1>0, <1>1, StoreSame DEF StartRun
  <2>3. QED
    BY <1>0, <1>1, <2>1, <2>2 DEF StartRun, TypeOK, worldVars
<1>2. ASSUME NEW s \in stuck[r], StillPending(r, s)
      PROVE  TypeOK'
  <2>1. StoreTypeOK'
    BY <1>0, <1>2, StoreSame DEF StillPending
  <2>2. QED
    BY <1>2, <2>1 DEF StillPending, NextStuck, TypeOK, worldVars
<1>3. ASSUME NEW s \in stuck[r], FinishStuck(r, s)
      PROVE  TypeOK'
  <2> DEFINE outcome == IF transfers[s.hash].status = "LANDED" THEN "SETTLED" ELSE "FAILED"
  <2>1. StoreTypeOK'
    BY <1>3, FinishedType DEF FinishStuck
  <2>2. s \in Copy /\ outcome \in RowStates
    BY <1>3 DEF TypeOK
  <2>3. [s EXCEPT !.state = outcome] \in Copy
    BY <2>2, ObjectType
  <2>4. rows' \in [Cycles -> Row]
    BY <1>3, <2>3, SaveType DEF FinishStuck
  <2>5. QED
    BY <1>3, <2>1, <2>4 DEF FinishStuck, NextStuck, TypeOK, worldVars
<1>4. CASE ListDue(r)
  <2>1. StoreTypeOK'
    BY <1>0, <1>4, StoreSame DEF ListDue
  <2>2. rows' \in [Cycles -> Row]
    BY <1>4 DEF ListDue, TypeOK, Row
  <2>3. due' \in [Runners -> SUBSET Cycles]
    BY <1>4 DEF ListDue, TypeOK, Clock
  <2>4. QED
    BY <1>0, <1>4, <2>1, <2>2, <2>3 DEF ListDue, TypeOK, worldVars
<1>5. ASSUME NEW c \in due[r], Decide(r, c)
      PROVE  TypeOK'
  BY <1>5, DecideType DEF TypeOK
<1>6. CASE AbortRun(r) \/ EndRun(r)
  <2>1. StoreTypeOK'
    BY <1>0, <1>6, StoreSame DEF AbortRun, EndRun
  <2>2. QED
    BY <1>0, <1>6, <2>1 DEF AbortRun, EndRun, TypeOK, worldVars
<1>7. QED
  BY <1>1, <1>2, <1>3, <1>4, <1>5, <1>6 DEF Run

\* The user's answers do (quoteEngine.ts:156-188).
LEMMA AnswerType ==
  ASSUME TypeOK, NEW u \in Clients, NEW c \in Cycles, Answer(u, c)
  PROVE  TypeOK'
<1> USE StatesType
<1>0. StoreTypeOK /\ u \in Procs /\ CopyOf(c) \in Copy /\ rows[c] \in Row
  BY CopyType DEF TypeOK, Procs
<1>1. CASE Approve(u, c)
  <2>1. StoreTypeOK' /\ rows[c].reservation \in ReservationIds
    BY <1>0, <1>1, StoreSame DEF Approve, Answerable, Row
  <2>2. QED
    BY <1>0, <1>1, <2>1, StartTransferType DEF Approve, TypeOK, worldVars
<1>2. CASE ApproveLapsed(u, c)
  <2>1. StoreTypeOK'
    BY <1>0, <1>2, ReleaseType DEF ApproveLapsed
  <2>2. [CopyOf(c) EXCEPT !.state = "EXPIRED"] \in Copy
    BY <1>0, ObjectType
  <2>3. QED
    BY <1>0, <1>2, <2>1, <2>2, ConcludesType DEF ApproveLapsed, TypeOK, worldVars
<1>3. CASE Skip(u, c)
  <2>1. StoreTypeOK'
    BY <1>0, <1>3, ReleaseType DEF Skip
  <2>2. [CopyOf(c) EXCEPT !.state = "SKIPPED"] \in Copy
    BY <1>0, ObjectType
  <2>3. rows' \in [Cycles -> Row]
    BY <1>3, <2>2, SaveType DEF Skip
  <2>4. QED
    BY <1>3, <2>1, <2>3 DEF Skip, TypeOK, worldVars, localVars
<1>4. QED
  BY <1>1, <1>2, <1>3 DEF Answer

\* The steps of transfers, with what they leave alone.
LEMMA TransferMovesType ==
  ASSUME TypeOK, NEW t, NEW from, TransferMoves(t, from, "REJECTED")
                   \/ TransferMoves(t, from, "BROADCAST") \/ TransferMoves(t, from, "LANDED")
                   \/ TransferMoves(t, from, "REVERTED")
  PROVE  TypeOK'
<1>1. StoreTypeOK'
  BY StoreSame DEF TransferMoves, TypeOK
<1>2. DOMAIN transfers' = DOMAIN transfers /\ transfers' \in [DOMAIN transfers -> Transfer]
  BY DEF TransferMoves, TypeOK, Transfer
<1>3. QED
  BY <1>1, <1>2 DEF TransferMoves, TypeOK, localVars

\* Time, the user's stop, the wallet service and the chain do.
LEMMA EnvironmentType ==
  ASSUME TypeOK, Environment
  PROVE  TypeOK'
<1>0. StoreTypeOK
  BY DEF TypeOK
<1>1. ASSUME NEW c \in Cycles, DueDatePasses(c)
      PROVE  TypeOK'
  <2>1. StoreTypeOK'
    BY <1>0, <1>1, StoreSame DEF DueDatePasses
  <2>2. clock' \in Clock
    BY <1>1 DEF DueDatePasses, TypeOK, Clock
  <2>3. QED
    BY <1>1, <2>1, <2>2 DEF DueDatePasses, TypeOK, localVars
<1>2. ASSUME NEW c \in Cycles, QuoteLapses(c)
      PROVE  TypeOK'
  <2>1. StoreTypeOK'
    BY <1>0, <1>2, StoreSame DEF QuoteLapses
  <2>2. QED
    BY <1>2, <2>1 DEF QuoteLapses, TypeOK, localVars
<1>3. CASE MonthEnds
  <2>1. StoreTypeOK'
    BY <1>0, <1>3, StoreSame DEF MonthEnds
  <2>2. clock' \in Clock
    BY <1>3, StoreAssumption DEF MonthEnds, TypeOK, Clock, Periods
  <2>3. QED
    BY <1>3, <2>1, <2>2 DEF MonthEnds, TypeOK, localVars
<1>4. ASSUME NEW o \in Obligations, KillSwitch(o) \/ LinkWallet(o)
      PROVE  TypeOK'
  <2>1. StoreTypeOK'
    BY <1>0, <1>4, StoreSame DEF KillSwitch, LinkWallet
  <2>2. QED
    BY <1>4, <2>1 DEF KillSwitch, LinkWallet, TypeOK, localVars
<1>5. ASSUME NEW t \in DOMAIN transfers,
             Rejected(t) \/ Broadcast(t) \/ Landed(t) \/ Reverted(t)
      PROVE  TypeOK'
  BY <1>5, TransferMovesType DEF Rejected, Broadcast, Landed, Reverted
<1>6. QED
  BY <1>1, <1>2, <1>3, <1>4, <1>5 DEF Environment

\* A crash leaves well-typed handlers.
LEMMA LosesHandlersType ==
  ASSUME TypeOK, LosesHandlers, StoreTypeOK', UNCHANGED rows
  PROVE  TypeOK'
<1>1. faults' \in [crashes : 0 .. MaxCrashes, lost : 0 .. MaxLost]
  BY CyclesAssumption DEF LosesHandlers, TypeOK
<1>2. NoCopy \in Copy
  BY StatesType DEF NoCopy, Copy
<1>3. QED
  BY <1>1, <1>2 DEF LosesHandlers, TypeOK

\* Every step does.
LEMMA StepType ==
  ASSUME TypeOK, [Next]_vars
  PROVE  TypeOK'
<1>1. CASE UNCHANGED vars
  BY <1>1, StoreSame DEF vars, worldVars, localVars, TypeOK, storeVars
<1>2. ASSUME NEW p \in Procs, Execution(p)
      PROVE  TypeOK'
  BY <1>2, ExecutionType
<1>3. ASSUME NEW r \in Runners, Run(r)
      PROVE  TypeOK'
  BY <1>3, RunType
<1>4. ASSUME NEW r \in Runners, CrashInReconcile(r)
      PROVE  TypeOK'
  BY <1>4, FinishedType, LosesHandlersType DEF CrashInReconcile
<1>5. ASSUME NEW u \in Clients, NEW c \in Cycles, Answer(u, c)
      PROVE  TypeOK'
  BY <1>5, AnswerType
<1>6. CASE Environment
  BY <1>6, EnvironmentType
<1>7. CASE Crash
  BY <1>7, StoreSame, LosesHandlersType DEF Crash, TypeOK
<1>8. QED
  BY <1>1, <1>2, <1>3, <1>4, <1>5, <1>6, <1>7 DEF Next

\* The empty database, the idle server.
LEMMA InitType == Init => TypeOK
<1> SUFFICES ASSUME Init PROVE TypeOK
  OBVIOUS
<1>1. StoreTypeOK
  BY StoreInitType DEF Init
<1>2. NoRow \in Row /\ NoCopy \in Copy
  BY StatesType DEF NoRow, Row, NoCopy, Copy
<1>3. Midnight \in Clock
  BY StoreAssumption DEF Midnight, Clock, Periods
<1>4. faults \in [crashes : 0 .. MaxCrashes, lost : 0 .. MaxLost]
  BY CyclesAssumption DEF Init
<1>5. QED
  BY <1>1, <1>2, <1>3, <1>4, CyclesAssumption DEF Init, TypeOK

\* The tables, the handlers and the chain are well typed throughout, for all
\* values of the constants.
THEOREM TypeCorrect == Spec => []TypeOK
  BY InitType, StepType, PTL DEF Spec

-----------------------------------------------------------------------------
(* What the handlers know, whoever overlaps and whatever crashes. *)

\* Handlers know the transfers they wait for, and whoever holds a hash the
\* reservation it was sent under.
KnowsInv == TypeOK /\ HandlersKnow /\ HashesMatch

\* A transfer stays, with its reservation; once it has landed it has landed.
LEMMA TransfersStay ==
  ASSUME TypeOK, [Next]_vars, NEW t \in DOMAIN transfers
  PROVE  /\ t \in DOMAIN transfers'
         /\ transfers'[t].reservation = transfers[t].reservation
         /\ transfers[t].status = "LANDED" => transfers'[t].status = "LANDED"
<1>1. ASSUME NEW u \in DOMAIN transfers, NEW to,
             transfers' = [transfers EXCEPT ![u].status = to], transfers[u].status # "LANDED"
      PROVE  /\ t \in DOMAIN transfers'
             /\ transfers'[t].reservation = transfers[t].reservation
             /\ transfers[t].status = "LANDED" => transfers'[t].status = "LANDED"
  BY <1>1 DEF TypeOK, Transfer
<1>2. ASSUME NEW p, NEW c, NEW i, NEW u, StartTransfer(p, c, i, u)
      PROVE  t \in DOMAIN transfers' /\ transfers'[t] = transfers[t]
  BY <1>2 DEF StartTransfer, Put
<1>3. ASSUME NEW p \in Procs, Execution(p)
      PROVE  transfers' = transfers
  BY <1>3 DEF Execution, SendRefused, ResponseLost, SendThrows, SendAccepted, ReceiptLanded,
              ReceiptReverted, ReceiptTimeout, Save, worldVars
<1>4. ASSUME NEW r \in Runners, NEW c \in Cycles, Decide(r, c), transfers' # transfers
      PROVE  t \in DOMAIN transfers' /\ transfers'[t] = transfers[t]
  BY <1>2, <1>4 DEF Decide, LeaveDue, SkipUnfunded, SkipUnreserved, AskApproval, AutoApprove, worldVars
<1>5. ASSUME NEW r \in Runners, Run(r) \/ CrashInReconcile(r), ~\E c \in due[r] : Decide(r, c)
      PROVE  transfers' = transfers
  BY <1>5 DEF Run, CrashInReconcile, LosesHandlers, StartRun, StillPending, FinishStuck, ListDue,
              AbortRun, EndRun, worldVars
<1>6. ASSUME NEW u \in Clients, NEW c \in Cycles, Answer(u, c), transfers' # transfers
      PROVE  t \in DOMAIN transfers' /\ transfers'[t] = transfers[t]
  BY <1>2, <1>6 DEF Answer, Approve, ApproveLapsed, Skip, worldVars
<1>7. ASSUME Environment, transfers' # transfers
      PROVE  \E u \in DOMAIN transfers, to \in {"REJECTED", "BROADCAST", "LANDED", "REVERTED"} :
               transfers' = [transfers EXCEPT ![u].status = to] /\ transfers[u].status # "LANDED"
  BY <1>7 DEF Environment, DueDatePasses, QuoteLapses, MonthEnds, KillSwitch, LinkWallet,
              Rejected, Broadcast, Landed, Reverted, TransferMoves
<1>8. CASE UNCHANGED vars \/ Crash
  BY <1>8 DEF vars, worldVars, Crash, LosesHandlers
<1> QED
  BY <1>1, <1>3, <1>4, <1>5, <1>6, <1>7, <1>8 DEF Next, TypeOK

\* Concluding a cycle with an object whose hash and reservation belong together
\* keeps what the handlers know.
LEMMA ConcludesKnows ==
  ASSUME KnowsInv, NEW p \in Procs, NEW object, Matches(object),
         Concludes(p, object), UNCHANGED <<transfers, rows>>,
         \A r \in Runners : stuck'[r] \subseteq stuck[r]
  PROVE  HandlersKnow' /\ HashesMatch'
  BY DEF KnowsInv, HandlersKnow, HashesMatch, Matches, Concludes, TypeOK

\* Saving such an object does.
LEMMA SaveKnows ==
  ASSUME KnowsInv, NEW object, Matches(object), saveCycle(object),
         UNCHANGED transfers
  PROVE  \A c \in Cycles : Matches(rows[c])'
  BY DEF KnowsInv, HashesMatch, Matches, saveCycle, TypeOK

\* A request that leaves is known to the handler that sent it.
LEMMA StartKnows ==
  ASSUME KnowsInv, NEW p \in Procs, NEW c, NEW i, NEW t, StartTransfer(p, c, i, t),
         UNCHANGED <<rows, stuck>>
  PROVE  HandlersKnow' /\ HashesMatch'
<1>1. /\ \A u \in DOMAIN transfers : u \in DOMAIN transfers' /\ transfers'[u] = transfers[u]
      /\ t \in DOMAIN transfers' /\ transfers'[t].reservation = i
  BY DEF StartTransfer, Put
<1>2. HandlersKnow'
  BY <1>1 DEF StartTransfer, KnowsInv, HandlersKnow, TypeOK
<1>3. HashesMatch'
  BY <1>1 DEF StartTransfer, KnowsInv, HashesMatch, Matches, TypeOK
<1> QED
  BY <1>2, <1>3

\* Awaiting and saving keep what is known.
LEMMA ExecutionKnows ==
  ASSUME KnowsInv, NEW p \in Procs, Execution(p)
  PROVE  HandlersKnow' /\ HashesMatch'
<1>0. Matches(copy[p])
  BY DEF KnowsInv, HashesMatch
<1>1. \A s : Matches([copy[p] EXCEPT !.state = s])
  BY <1>0 DEF KnowsInv, Matches, TypeOK, Copy
<1>2. CASE SendRefused(p) \/ ResponseLost(p)
  BY <1>1, <1>2, ConcludesKnows DEF SendRefused, ResponseLost, SendThrows
<1>3. CASE SendAccepted(p)
  <2>1. /\ request[p] \in DOMAIN transfers
        /\ copy[p].reservation = transfers[request[p]].reservation
    BY <1>3 DEF SendAccepted, KnowsInv, HandlersKnow
  <2>2. \A q \in Procs : /\ copy'[q].reservation = copy[q].reservation
                         /\ copy'[q].hash = IF q = p THEN request[p] ELSE copy[q].hash
    BY <1>3 DEF SendAccepted, KnowsInv, TypeOK, Copy
  <2>3. HandlersKnow'
    BY <1>3, <2>1, <2>2 DEF SendAccepted, KnowsInv, HandlersKnow, TypeOK, worldVars
  <2>4. HashesMatch'
    BY <1>3, <2>1, <2>2 DEF SendAccepted, KnowsInv, HashesMatch, Matches, worldVars
  <2> QED
    BY <2>3, <2>4
<1>4. CASE ReceiptLanded(p) \/ ReceiptReverted(p)
  BY <1>1, <1>4, ConcludesKnows DEF ReceiptLanded, ReceiptReverted, worldVars
<1>5. CASE ReceiptTimeout(p)
  BY <1>0, <1>5, ConcludesKnows DEF ReceiptTimeout, worldVars
<1>6. CASE Save(p)
  <2>1. \A c \in Cycles : Matches(rows[c])'
    BY <1>0, <1>6, SaveKnows DEF Save, worldVars
  <2>2. HashesMatch'
    BY <1>6, <2>1 DEF Save, KnowsInv, HashesMatch, Matches, NoCopy, TypeOK, worldVars
  <2>3. HandlersKnow'
    BY <1>6 DEF Save, KnowsInv, HandlersKnow, TypeOK, worldVars
  <2> QED
    BY <2>2, <2>3
<1> QED
  BY <1>2, <1>3, <1>4, <1>5, <1>6 DEF Execution

\* So do decisions.
LEMMA DecideKnows ==
  ASSUME KnowsInv, NEW r \in Runners, NEW c \in Cycles, Decide(r, c)
  PROVE  HandlersKnow' /\ HashesMatch'
<1>0. r \in Procs
  BY DEF Procs
<1>1. \A s : Matches([Listed(c) EXCEPT !.state = s])
  BY DEF Matches, Listed
<1>2. CASE LeaveDue(r, c)
  BY <1>2 DEF LeaveDue, KnowsInv, HandlersKnow, HashesMatch, Matches, worldVars
<1>3. CASE SkipUnfunded(r, c) \/ SkipUnreserved(r, c)
  BY <1>0, <1>1, <1>3, ConcludesKnows DEF SkipUnfunded, SkipUnreserved, Skips, worldVars
<1>4. CASE AskApproval(r, c)
  <2>1. \A i : Matches([Listed(c) EXCEPT !.state = "REQUIRES_APPROVAL", !.reservation = i])
    BY DEF Matches, Listed
  <2> QED
    BY <1>0, <1>4, <2>1, ConcludesKnows DEF AskApproval, worldVars
<1>5. CASE AutoApprove(r, c)
  BY <1>0, <1>5, StartKnows DEF AutoApprove
<1> QED
  BY <1>2, <1>3, <1>4, <1>5 DEF Decide

\* So does every other step of a run.
LEMMA RunKnows ==
  ASSUME KnowsInv, NEW r \in Runners, Run(r)
  PROVE  HandlersKnow' /\ HashesMatch'
<1>1. CASE StartRun(r)
  <2>1. HandlersKnow'
    BY <1>1 DEF StartRun, KnowsInv, HandlersKnow, TypeOK, worldVars
  <2>2. \A s \in {CopyOf(c) : c \in StuckRows} : s.hash # None /\ Matches(s)
    BY DEF KnowsInv, HashesMatch, Matches, CopyOf, StuckRows
  <2>3. \A q \in Runners : \A s \in stuck'[q] : s.hash # None /\ Matches(s)
    BY <1>1, <2>2 DEF StartRun, KnowsInv, HashesMatch, TypeOK
  <2>4. HashesMatch'
    BY <1>1, <2>3 DEF StartRun, KnowsInv, HashesMatch, Matches, worldVars
  <2> QED
    BY <2>1, <2>4
<1>2. ASSUME NEW s \in stuck[r], StillPending(r, s)
      PROVE  HandlersKnow' /\ HashesMatch'
  <2>1. \A q \in Runners : stuck'[q] \subseteq stuck[q]
    BY <1>2 DEF StillPending, NextStuck, KnowsInv, TypeOK
  <2> QED
    BY <1>2, <2>1 DEF StillPending, KnowsInv, HandlersKnow, HashesMatch, Matches, worldVars
<1>3. ASSUME NEW s \in stuck[r], FinishStuck(r, s)
      PROVE  HandlersKnow' /\ HashesMatch'
  <2> DEFINE outcome == IF transfers[s.hash].status = "LANDED" THEN "SETTLED" ELSE "FAILED"
  <2>1. Matches([s EXCEPT !.state = outcome])
    BY <1>3 DEF KnowsInv, HashesMatch, Matches, TypeOK, Copy
  <2>2. \A c \in Cycles : Matches(rows[c])'
    BY <1>3, <2>1, SaveKnows DEF FinishStuck, worldVars
  <2>3. \A q \in Runners : stuck'[q] \subseteq stuck[q]
    BY <1>3 DEF FinishStuck, NextStuck, KnowsInv, TypeOK
  <2> QED
    BY <1>3, <2>2, <2>3 DEF FinishStuck, KnowsInv, HandlersKnow, HashesMatch, Matches, worldVars
<1>4. CASE ListDue(r)
  <2>1. \A c \in Cycles : rows'[c].hash = rows[c].hash
                          /\ rows'[c].reservation = rows[c].reservation
    BY <1>4 DEF ListDue, KnowsInv, TypeOK, Row
  <2>2. HashesMatch'
    BY <1>4, <2>1 DEF ListDue, KnowsInv, HashesMatch, Matches, worldVars
  <2>3. HandlersKnow'
    BY <1>4 DEF ListDue, KnowsInv, HandlersKnow, TypeOK, worldVars
  <2> QED
    BY <2>2, <2>3
<1>5. ASSUME NEW c \in due[r], Decide(r, c)
      PROVE  HandlersKnow' /\ HashesMatch'
  BY <1>5, DecideKnows DEF KnowsInv, TypeOK
<1>6. CASE AbortRun(r) \/ EndRun(r)
  <2>1. HandlersKnow'
    BY <1>6 DEF AbortRun, EndRun, KnowsInv, HandlersKnow, TypeOK, worldVars
  <2>2. HashesMatch'
    BY <1>6 DEF AbortRun, EndRun, KnowsInv, HashesMatch, Matches, worldVars
  <2> QED
    BY <2>1, <2>2
<1> QED
  BY <1>1, <1>2, <1>3, <1>4, <1>5, <1>6 DEF Run

\* And so do the user's answers.
LEMMA AnswerKnows ==
  ASSUME KnowsInv, NEW u \in Clients, NEW c \in Cycles, Answer(u, c)
  PROVE  HandlersKnow' /\ HashesMatch'
<1>0. u \in Procs
  BY DEF Procs
<1>1. \A s : Matches([CopyOf(c) EXCEPT !.state = s])
  BY DEF KnowsInv, HashesMatch, Matches, CopyOf
<1>2. CASE Approve(u, c)
  BY <1>0, <1>2, StartKnows DEF Approve
<1>3. CASE ApproveLapsed(u, c)
  BY <1>0, <1>1, <1>3, ConcludesKnows DEF ApproveLapsed, worldVars
<1>4. CASE Skip(u, c)
  <2>1. \A d \in Cycles : Matches(rows[d])'
    BY <1>1, <1>4, SaveKnows DEF Skip, worldVars
  <2> QED
    BY <1>4, <2>1 DEF Skip, KnowsInv, HandlersKnow, HashesMatch, Matches, worldVars, localVars
<1> QED
  BY <1>2, <1>3, <1>4 DEF Answer

\* Every step keeps what is known.
LEMMA StepKnows ==
  ASSUME KnowsInv, [Next]_vars
  PROVE  KnowsInv'
<1>1. TypeOK'
  BY StepType DEF KnowsInv
<1>2. CASE UNCHANGED <<rows, localVars>>
  <2>1. HandlersKnow'
    BY <1>2, TransfersStay DEF KnowsInv, HandlersKnow, localVars
  <2>2. HashesMatch'
    BY <1>2, TransfersStay DEF KnowsInv, HashesMatch, Matches, localVars
  <2> QED
    BY <1>1, <2>1, <2>2 DEF KnowsInv
<1>3. CASE UNCHANGED vars \/ Environment
  <2>1. UNCHANGED <<rows, localVars>>
    BY <1>3 DEF vars, Environment, DueDatePasses, QuoteLapses, MonthEnds, KillSwitch, LinkWallet,
                Rejected, Broadcast, Landed, Reverted, TransferMoves
  <2> QED
    BY <1>2, <2>1
<1>4. CASE Crash \/ \E r \in Runners : CrashInReconcile(r)
  <2>1. LosesHandlers /\ UNCHANGED <<rows, transfers>>
    BY <1>4 DEF Crash, CrashInReconcile, LosesHandlers
  <2> QED
    BY <1>1, <2>1 DEF KnowsInv, LosesHandlers, HandlersKnow, HashesMatch, Matches, NoCopy
<1> QED
  BY <1>1, <1>3, <1>4, ExecutionKnows, RunKnows, AnswerKnows DEF Next, KnowsInv

\* Nothing is known at the start.
LEMMA InitKnows == Init => KnowsInv
<1> SUFFICES ASSUME Init PROVE KnowsInv
  OBVIOUS
<1> QED
  BY InitType DEF Init, KnowsInv, HandlersKnow, HashesMatch, Matches, NoRow, NoCopy

-----------------------------------------------------------------------------
(* The ledger does not run ahead of the chain.                             *)
(*                                                                         *)
(* A reservation is settled, and an object called SETTLED, only by one who *)
(* saw the receipt of a transfer sent under that reservation.  Whatever    *)
(* overlaps, crashes or is lost, the transfer has landed for good.         *)

\* A step that books an amount as spent does so for a transfer that landed.
LEMMA BookedBefore ==
  ASSUME KnowsInv, [Next]_vars,
         NEW i \in DOMAIN reservations', reservations'[i].status = "SETTLED"
  PROVE  \/ i \in DOMAIN reservations /\ reservations[i].status = "SETTLED"
         \/ \E t \in DOMAIN transfers : transfers[t].reservation = i /\ transfers[t].status = "LANDED"
<1> DEFINE Before == i \in DOMAIN reservations /\ reservations[i].status = "SETTLED"
           Covered == \E t \in DOMAIN transfers :
                        transfers[t].reservation = i /\ transfers[t].status = "LANDED"
<1>0. reservations \in [DOMAIN reservations -> Reservation]
  BY DEF KnowsInv, TypeOK, StoreTypeOK
<1>1. CASE UNCHANGED reservations
  BY <1>1
<1>2. ASSUME NEW t \in DOMAIN transfers, transfers[t].status = "LANDED", Settle(transfers[t].reservation)
      PROVE  Before \/ Covered
  <2>1. CASE transfers[t].reservation = i
    BY <1>2, <2>1
  <2>2. CASE transfers[t].reservation # i
    BY <1>0, <1>2, <2>2 DEF Settle
  <2> QED
    BY <2>1, <2>2
<1>3. ASSUME NEW j, Release(j)
      PROVE  Before
  BY <1>0, <1>3 DEF Release, Reservation
<1>4. ASSUME NEW j \in ReservationIds, NEW c, NEW m, NEW a, Reserve(j, c, m, a)
      PROVE  Before
  BY <1>4 DEF Reserve, Put
<1>5. ASSUME NEW p \in Procs, Execution(p)
      PROVE  Before \/ Covered
  <2>1. CASE ReceiptLanded(p)
    <3>1. /\ request[p] \in DOMAIN transfers
          /\ copy[p].reservation = transfers[request[p]].reservation
      BY <2>1 DEF ReceiptLanded, KnowsInv, HandlersKnow
    <3> QED
      BY <1>2, <2>1, <3>1 DEF ReceiptLanded
  <2>2. CASE ~ReceiptLanded(p)
    <3>1. UNCHANGED reservations \/ \E j : Release(j)
      BY <1>5, <2>2 DEF Execution, SendRefused, ResponseLost, SendThrows, SendAccepted,
                        ReceiptReverted, ReceiptTimeout, Save, storeVars
    <3> QED
      BY <1>1, <1>3, <3>1
  <2> QED
    BY <2>1, <2>2
<1>6. ASSUME NEW r \in Runners, NEW s \in stuck[r], Finished(s)
      PROVE  Before \/ Covered
  <2>1. s.hash \in DOMAIN transfers /\ transfers[s.hash].reservation = s.reservation
    BY DEF KnowsInv, HashesMatch, Matches
  <2> QED
    BY <1>2, <1>3, <1>6, <2>1 DEF Finished
<1>7. ASSUME NEW r \in Runners, NEW c \in Cycles, Decide(r, c)
      PROVE  Before
  <2>1. UNCHANGED reservations \/ \E j \in ReservationIds : \E m, a : Reserve(j, c, m, a)
    BY <1>7 DEF Decide, LeaveDue, SkipUnfunded, SkipUnreserved, RefuseReserve, AskApproval, AutoApprove, storeVars
  <2> QED
    BY <1>1, <1>4, <2>1
<1>8. ASSUME NEW r \in Runners, Run(r) \/ CrashInReconcile(r)
      PROVE  Before \/ Covered
  <2>1. \/ UNCHANGED reservations
        \/ \E s \in stuck[r] : Finished(s)
        \/ \E c \in Cycles : Decide(r, c)
    BY <1>8 DEF Run, CrashInReconcile, StartRun, StillPending, FinishStuck, ListDue, AbortRun, EndRun,
                storeVars, KnowsInv, TypeOK
  <2> QED
    BY <1>1, <1>6, <1>7, <2>1
<1>9. ASSUME NEW u \in Clients, NEW c \in Cycles, Answer(u, c)
      PROVE  Before
  <2>1. UNCHANGED reservations \/ \E j : Release(j)
    BY <1>9 DEF Answer, Approve, ApproveLapsed, Skip, storeVars
  <2> QED
    BY <1>1, <1>3, <2>1
<1>10. CASE UNCHANGED vars \/ Environment \/ Crash
  BY <1>1, <1>10 DEF vars, Environment, Crash, DueDatePasses, QuoteLapses, MonthEnds, KillSwitch, LinkWallet,
                     Rejected, Broadcast, Landed, Reverted, TransferMoves, storeVars
<1> QED
  BY <1>5, <1>8, <1>9, <1>10 DEF Next

\* A landed transfer has landed after the step, too.
LEMMA LandedStays ==
  ASSUME TypeOK, [Next]_vars, NEW t, HasLanded(transfers, t)
  PROVE  HasLanded(transfers', t)
  BY TransfersStay DEF HasLanded

\* Handlers keep telling of landed transfers only.
LEMMA StepTells ==
  ASSUME KnowsInv, CopiesTell, [Next]_vars
  PROVE  CopiesTell'
<1>0. TypeOK /\ copy \in [Procs -> Copy]
  BY DEF KnowsInv, TypeOK
<1>1. ASSUME NEW p \in Procs, NEW object, Concludes(p, object),
             object.state = "SETTLED" => HasLanded(transfers, object.hash)
      PROVE  CopiesTell'
  <2>1. /\ pc'[p] = "saving" /\ copy'[p] = object
        /\ \A q \in Procs : q # p => pc'[q] = pc[q] /\ copy'[q] = copy[q] /\ request'[q] = request[q]
    BY <1>1 DEF Concludes, KnowsInv, TypeOK
  <2> SUFFICES ASSUME NEW q \in Procs
               PROVE  /\ pc'[q] \in {"sending", "confirming"} => copy'[q].state = "EXECUTING"
                      /\ pc'[q] = "confirming" => copy'[q].hash = request'[q]
                      /\ copy'[q].state = "SETTLED" => HasLanded(transfers', copy'[q].hash)
    BY DEF CopiesTell, HasLanded
  <2>2. CASE q = p
    BY <1>0, <1>1, <2>1, <2>2, LandedStays
  <2>3. CASE q # p
    BY <1>0, <2>1, <2>3, LandedStays DEF CopiesTell
  <2> QED
    BY <2>2, <2>3
<1>2. ASSUME NEW p \in Procs, NEW c, NEW i, NEW t, StartTransfer(p, c, i, t)
      PROVE  CopiesTell'
  <2>1. /\ pc'[p] = "sending" /\ copy'[p].state = "EXECUTING"
        /\ \A q \in Procs : q # p => pc'[q] = pc[q] /\ copy'[q] = copy[q] /\ request'[q] = request[q]
    BY <1>2 DEF StartTransfer, KnowsInv, TypeOK
  <2> SUFFICES ASSUME NEW q \in Procs, q # p
               PROVE  copy'[q].state = "SETTLED" => HasLanded(transfers', copy'[q].hash)
    BY <2>1 DEF CopiesTell, HasLanded
  <2> QED
    BY <1>0, <2>1, LandedStays DEF CopiesTell
<1>3. CASE UNCHANGED <<copy, request>> /\ \A p \in Procs : pc'[p] = pc[p] \/ pc'[p] \in {"idle", "reconciling", "batch"}
  <2> SUFFICES ASSUME NEW q \in Procs
               PROVE  copy'[q].state = "SETTLED" => HasLanded(transfers', copy'[q].hash)
    BY <1>3 DEF CopiesTell, HasLanded
  <2> QED
    BY <1>0, <1>3, LandedStays DEF CopiesTell
<1>4. ASSUME NEW p \in Procs, SendAccepted(p)
      PROVE  CopiesTell'
  <2>1. /\ pc'[p] = "confirming" /\ copy'[p].state = "EXECUTING" /\ copy'[p].hash = request'[p]
        /\ \A q \in Procs : q # p => pc'[q] = pc[q] /\ copy'[q] = copy[q] /\ request'[q] = request[q]
    BY <1>0, <1>4 DEF SendAccepted, KnowsInv, TypeOK, CopiesTell, Copy
  <2> SUFFICES ASSUME NEW q \in Procs, q # p
               PROVE  copy'[q].state = "SETTLED" => HasLanded(transfers', copy'[q].hash)
    BY <2>1 DEF CopiesTell, HasLanded
  <2> QED
    BY <1>0, <2>1, LandedStays DEF CopiesTell
<1>5. ASSUME NEW p \in Procs, Execution(p), ~SendAccepted(p), ~Save(p)
      PROVE  CopiesTell'
  <2>1. \A s \in {"FAILED"} : [copy[p] EXCEPT !.state = s].state # "SETTLED"
    BY <1>0 DEF Copy
  <2>2. CASE ReceiptLanded(p)
    <3>1. request[p] \in DOMAIN transfers /\ HasLanded(transfers, request[p])
      BY <2>2 DEF ReceiptLanded, KnowsInv, HandlersKnow, HasLanded
    <3>2. [copy[p] EXCEPT !.state = "SETTLED"].hash = request[p]
      BY <1>0, <2>2 DEF ReceiptLanded, CopiesTell, Copy
    <3> QED
      BY <1>1, <2>2, <3>1, <3>2 DEF ReceiptLanded
  <2>3. CASE ReceiptTimeout(p)
    BY <1>1, <2>3 DEF ReceiptTimeout, CopiesTell
  <2>4. CASE SendRefused(p) \/ ResponseLost(p) \/ ReceiptReverted(p)
    BY <1>1, <2>1, <2>4 DEF SendRefused, ResponseLost, SendThrows, ReceiptReverted
  <2> QED
    BY <1>5, <2>2, <2>3, <2>4 DEF Execution
<1>6. ASSUME NEW p \in Procs, Save(p)
      PROVE  CopiesTell'
  <2>1. /\ pc'[p] \in {"batch", "idle"} /\ copy'[p] = NoCopy
        /\ \A q \in Procs : q # p => pc'[q] = pc[q] /\ copy'[q] = copy[q] /\ request'[q] = request[q]
    BY <1>6 DEF Save, KnowsInv, TypeOK
  <2> SUFFICES ASSUME NEW q \in Procs, q # p
               PROVE  copy'[q].state = "SETTLED" => HasLanded(transfers', copy'[q].hash)
    BY <2>1 DEF CopiesTell, HasLanded, NoCopy
  <2> QED
    BY <1>0, <2>1, LandedStays DEF CopiesTell
<1>7. ASSUME NEW r \in Runners, NEW c \in Cycles, Decide(r, c)
      PROVE  CopiesTell'
  <2>0. r \in Procs
    BY DEF Procs
  <2>1. /\ [Listed(c) EXCEPT !.state = "SKIPPED"].state # "SETTLED"
        /\ \A i : [Listed(c) EXCEPT !.state = "REQUIRES_APPROVAL", !.reservation = i].state # "SETTLED"
    BY DEF Listed
  <2>2. CASE LeaveDue(r, c)
    BY <1>3, <2>2 DEF LeaveDue
  <2>3. CASE SkipUnfunded(r, c) \/ SkipUnreserved(r, c) \/ AskApproval(r, c)
    BY <1>1, <2>0, <2>1, <2>3 DEF SkipUnfunded, SkipUnreserved, AskApproval, Skips
  <2>4. CASE AutoApprove(r, c)
    BY <1>2, <2>0, <2>4 DEF AutoApprove
  <2> QED
    BY <1>7, <2>2, <2>3, <2>4 DEF Decide
<1>8. ASSUME NEW r \in Runners, Run(r), ~\E c \in due[r] : Decide(r, c)
      PROVE  CopiesTell'
  <2>1. UNCHANGED <<copy, request>> /\ \A p \in Procs : pc'[p] = pc[p] \/ pc'[p] \in {"idle", "reconciling", "batch"}
    BY <1>8 DEF Run, StartRun, StillPending, FinishStuck, ListDue, AbortRun, EndRun, KnowsInv, TypeOK
  <2> QED
    BY <1>3, <2>1
<1>9. ASSUME NEW u \in Clients, NEW c \in Cycles, Answer(u, c)
      PROVE  CopiesTell'
  <2>0. u \in Procs /\ [CopyOf(c) EXCEPT !.state = "EXPIRED"].state # "SETTLED"
    BY DEF Procs, CopyOf
  <2>1. CASE Approve(u, c)
    BY <1>2, <2>0, <2>1 DEF Approve
  <2>2. CASE ApproveLapsed(u, c)
    BY <1>1, <2>0, <2>2 DEF ApproveLapsed
  <2>3. CASE Skip(u, c)
    BY <1>3, <2>3 DEF Skip, localVars
  <2> QED
    BY <1>9, <2>1, <2>2, <2>3 DEF Answer
<1>10. CASE UNCHANGED vars \/ Environment
  BY <1>3, <1>10 DEF vars, localVars, Environment, DueDatePasses, QuoteLapses, MonthEnds, KillSwitch, LinkWallet,
                     Rejected, Broadcast, Landed, Reverted, TransferMoves
<1>11. CASE Crash \/ \E r \in Runners : CrashInReconcile(r)
  BY <1>11 DEF Crash, CrashInReconcile, LosesHandlers, CopiesTell, NoCopy
<1> QED
  BY <1>4, <1>5, <1>6, <1>7, <1>8, <1>9, <1>10, <1>11 DEF Next, Run, KnowsInv, TypeOK

\* A row is called SETTLED only with the hash of a transfer that landed.
LEMMA RowsTell ==
  ASSUME KnowsInv, CopiesTell, [Next]_vars, NEW c \in Cycles, rows'[c].state = "SETTLED"
  PROVE  (rows'[c].state = rows[c].state /\ rows'[c].hash = rows[c].hash) \/ HasLanded(transfers, rows'[c].hash)
<1>0. TypeOK /\ rows \in [Cycles -> Row]
  BY DEF KnowsInv, TypeOK
<1>1. ASSUME NEW object, saveCycle(object), object.state = "SETTLED" => HasLanded(transfers, object.hash)
      PROVE  rows'[c] = rows[c] \/ HasLanded(transfers, rows'[c].hash)
  <2>1. CASE object.cycle = c
    BY <1>0, <1>1, <2>1 DEF saveCycle
  <2>2. CASE object.cycle # c
    BY <1>0, <1>1, <2>2 DEF saveCycle
  <2> QED
    BY <2>1, <2>2
<1>2. ASSUME NEW p \in Procs, Save(p)
      PROVE  rows'[c] = rows[c] \/ HasLanded(transfers, rows'[c].hash)
  BY <1>1, <1>2 DEF Save, CopiesTell
<1>3. ASSUME NEW r \in Runners, NEW s \in stuck[r], FinishStuck(r, s)
      PROVE  rows'[c] = rows[c] \/ HasLanded(transfers, rows'[c].hash)
  <2> DEFINE outcome == IF transfers[s.hash].status = "LANDED" THEN "SETTLED" ELSE "FAILED"
             object == [s EXCEPT !.state = outcome]
  <2>1. /\ s.hash \in DOMAIN transfers /\ s \in Copy
    BY DEF KnowsInv, HashesMatch, Matches, TypeOK
  <2>2. object.state = outcome /\ object.hash = s.hash
    BY <2>1 DEF Copy
  <2>3. outcome = "SETTLED" => HasLanded(transfers, s.hash)
    BY <2>1 DEF HasLanded
  <2>4. saveCycle(object)
    BY <1>3 DEF FinishStuck
  <2> HIDE DEF object, outcome
  <2> QED
    BY <1>1, <2>2, <2>3, <2>4
<1>4. ASSUME NEW r \in Runners, ListDue(r)
      PROVE  rows'[c] = rows[c]
  BY <1>0, <1>4 DEF ListDue, Row
<1>5. ASSUME NEW u \in Clients, NEW d \in Cycles, Skip(u, d)
      PROVE  rows'[c] = rows[c] \/ HasLanded(transfers, rows'[c].hash)
  <2>1. [CopyOf(d) EXCEPT !.state = "SKIPPED"].state # "SETTLED"
    BY DEF CopyOf
  <2> QED
    BY <1>1, <1>5, <2>1 DEF Skip
<1>6. ASSUME NEW p \in Procs, Execution(p), ~Save(p)
      PROVE  rows' = rows
  BY <1>6 DEF Execution, SendRefused, ResponseLost, SendThrows, SendAccepted, ReceiptLanded,
              ReceiptReverted, ReceiptTimeout
<1>7. ASSUME NEW r \in Runners, Run(r) \/ CrashInReconcile(r), ~ListDue(r), ~\E s \in stuck[r] : FinishStuck(r, s)
      PROVE  rows' = rows
  BY <1>7 DEF Run, CrashInReconcile, StartRun, StillPending, Decide, LeaveDue, SkipUnfunded, SkipUnreserved,
              AskApproval, AutoApprove, AbortRun, EndRun
<1>8. ASSUME NEW u \in Clients, NEW d \in Cycles, Answer(u, d), ~Skip(u, d)
      PROVE  rows' = rows
  BY <1>8 DEF Answer, Approve, ApproveLapsed
<1>9. CASE UNCHANGED vars \/ Environment \/ Crash
  BY <1>9 DEF vars, Environment, Crash, DueDatePasses, QuoteLapses, MonthEnds, KillSwitch, LinkWallet,
              Rejected, Broadcast, Landed, Reverted, TransferMoves
<1> QED
  BY <1>2, <1>3, <1>4, <1>5, <1>6, <1>7, <1>8, <1>9 DEF Next

\* So a step keeps the whole invariant.
LEMMA StepSettled ==
  ASSUME SettledInv, [Next]_vars
  PROVE  SettledInv'
<1>1. KnowsInv
  BY DEF SettledInv, KnowsInv
<1>2. KnowsInv' /\ CopiesTell'
  BY <1>1, StepKnows, StepTells DEF SettledInv
<1>3. ASSUME NEW i \in DOMAIN reservations', reservations'[i].status = "SETTLED"
      PROVE  \E t \in DOMAIN transfers' : transfers'[t].reservation = i /\ transfers'[t].status = "LANDED"
  <2>1. PICK t \in DOMAIN transfers : transfers[t].reservation = i /\ transfers[t].status = "LANDED"
    BY <1>1, <1>3, BookedBefore DEF SettledInv, SettledHasLanded
  <2> QED
    BY <2>1, TransfersStay DEF SettledInv
<1>4. ASSUME NEW c \in Cycles, rows'[c].state = "SETTLED"
      PROVE  rows'[c].hash \in DOMAIN transfers' /\ transfers'[rows'[c].hash].status = "LANDED"
  <2>1. HasLanded(transfers, rows'[c].hash)
    BY <1>1, <1>4, RowsTell DEF SettledInv, SettledHasLanded, HasLanded
  <2> QED
    BY <2>1, TransfersStay DEF SettledInv, HasLanded
<1>5. SettledHasLanded'
  BY <1>3, <1>4 DEF SettledHasLanded
<1> QED
  BY <1>2, <1>5 DEF SettledInv, KnowsInv

\* In no deployment, with any number of overlapping runs, of requests of the
\* user, of crashes and of lost responses, is a cycle called SETTLED or an amount
\* booked as spent for money that did not land.
THEOREM SettledMeansLanded == Spec => []SettledHasLanded
<1>1. Init => SettledInv
  <2> SUFFICES ASSUME Init PROVE SettledInv
    OBVIOUS
  <2>1. CopiesTell /\ SettledHasLanded
    BY DEF Init, StoreInit, CopiesTell, SettledHasLanded, NoCopy, NoRow
  <2> QED
    BY <2>1, InitKnows DEF SettledInv, KnowsInv
<1>2. SettledInv /\ [Next]_vars => SettledInv'
  BY StepSettled
<1>3. SettledInv => SettledHasLanded
  BY DEF SettledInv
<1> QED
  BY <1>1, <1>2, <1>3, PTL DEF Spec

-----------------------------------------------------------------------------
(* At most one transfer per cycle.                                         *)
(*                                                                         *)
(* reserve() admits one unreleased reservation per cycle, a run sends it   *)
(* once, and releases it only for a transfer that is rejected or reverted. *)
(* So two transfers in play for a cycle would stand under two unreleased   *)
(* reservations of it.  Runs that overlap and crashes change which rows    *)
(* are up to date, and nothing of this.                                    *)

\* Settling the reservation of a landed transfer keeps the ledger's invariant,
\* done once or again (quoteEngine.ts:128, reconcilePendingCycles.ts:75).
LEMMA SettleLanded ==
  ASSUME TypeOK, LedgerInv, NEW t \in DOMAIN transfers,
         transfers[t].status = "LANDED", Settle(transfers[t].reservation),
         UNCHANGED transfers
  PROVE  LedgerInv'
<1> DEFINE i == transfers[t].reservation
<1>1. /\ i \in DOMAIN reservations
      /\ reservations[i].status # "RELEASED"
  BY DEF LedgerInv, TransferBacked, InPlay
<1>2. reservations' = [reservations EXCEPT ![i].status = "SETTLED"]
  BY DEF Settle
<1>3. OneReservationPerCycle'
  BY <1>1, SettleUnique DEF TypeOK, LedgerInv
<1>4. /\ DOMAIN reservations' = DOMAIN reservations
      /\ \A j \in DOMAIN reservations :
           /\ reservations'[j].cycle = reservations[j].cycle
           /\ reservations'[j].status = "RELEASED" => reservations[j].status = "RELEASED"
  BY <1>1, <1>2 DEF TypeOK, StoreTypeOK, Reservation
<1>5. (TransfersReserved /\ SentOnce)'
  BY <1>4 DEF LedgerInv, TransfersReserved, SentOnce
<1>6. TransferBacked'
  BY <1>4 DEF LedgerInv, TransferBacked, InPlay
<1>7. QED
  BY <1>3, <1>5, <1>6 DEF LedgerInv

\* Releasing the reservation of a transfer that will never land does, too: no
\* other transfer was sent under it (quoteEngine.ts:122 and 137,
\* reconcilePendingCycles.ts:67).
LEMMA ReleaseDead ==
  ASSUME TypeOK, LedgerInv, NEW t \in DOMAIN transfers, ~InPlay(t),
         Release(transfers[t].reservation), UNCHANGED transfers
  PROVE  LedgerInv'
<1> DEFINE i == transfers[t].reservation
<1>1. /\ i \in DOMAIN reservations
      /\ reservations' = [reservations EXCEPT ![i].status = "RELEASED"]
  BY DEF Release
<1>2. OneReservationPerCycle'
  BY ReleaseUnique DEF TypeOK, LedgerInv
<1>3. /\ DOMAIN reservations' = DOMAIN reservations
      /\ \A j \in DOMAIN reservations :
           /\ reservations'[j].cycle = reservations[j].cycle
           /\ j # i => reservations'[j] = reservations[j]
  BY <1>1 DEF TypeOK, StoreTypeOK, Reservation
<1>4. (TransfersReserved /\ SentOnce)'
  BY <1>3 DEF LedgerInv, TransfersReserved, SentOnce
<1>5. TransferBacked'
  <2> SUFFICES ASSUME NEW u \in DOMAIN transfers, InPlay(u)
               PROVE  /\ transfers[u].reservation \in DOMAIN reservations'
                      /\ reservations'[transfers[u].reservation].status # "RELEASED"
    BY DEF TransferBacked, InPlay
  <2>1. transfers[u].reservation # i
    BY DEF LedgerInv, SentOnce
  <2>2. QED
    BY <1>3, <2>1 DEF LedgerInv, TransferBacked
<1>6. QED
  BY <1>2, <1>4, <1>5 DEF LedgerInv

\* A reservation that no transfer was sent under yet keeps it
\* (sqliteCapStore.ts:47-89).
LEMMA ReserveLedger ==
  ASSUME TypeOK, LedgerInv, NEW i \in ReservationIds, NEW c \in Cycles, NEW m \in Periods,
         NEW a \in Amounts, Reserve(i, c, m, a), UNCHANGED transfers
  PROVE  LedgerInv'
<1>1. OneReservationPerCycle'
  BY ReserveUnique DEF TypeOK, LedgerInv
<1>2. /\ DOMAIN reservations \subseteq DOMAIN reservations'
      /\ \A j \in DOMAIN reservations : reservations'[j] = reservations[j]
  BY DEF Reserve, Put
<1>3. QED
  BY <1>1, <1>2 DEF LedgerInv, TransfersReserved, SentOnce, TransferBacked, InPlay

\* And so does the reservation that a run makes and sends in one step
\* (decisionLoop.ts:75, quoteEngine.ts:80).
LEMMA ReserveAndSend ==
  ASSUME TypeOK, LedgerInv, NEW r, NEW i \in ReservationIds, NEW c \in Cycles,
         NEW m \in Periods, NEW a \in Amounts, NEW t,
         Reserve(i, c, m, a), StartTransfer(r, c, i, t)
  PROVE  LedgerInv'
<1>1. OneReservationPerCycle'
  BY ReserveUnique DEF TypeOK, LedgerInv
<1>2. /\ i \notin DOMAIN reservations
      /\ DOMAIN reservations' = DOMAIN reservations \cup {i}
      /\ \A j \in DOMAIN reservations : reservations'[j] = reservations[j]
      /\ reservations'[i].cycle = c
      /\ reservations'[i].status = "RESERVED"
  BY DEF Reserve, Put
<1>3. /\ t \notin DOMAIN transfers
      /\ DOMAIN transfers' = DOMAIN transfers \cup {t}
      /\ \A u \in DOMAIN transfers : transfers'[u] = transfers[u]
      /\ transfers'[t].cycle = c
      /\ transfers'[t].reservation = i
  BY DEF StartTransfer, Put
<1>4. \A u \in DOMAIN transfers : transfers[u].reservation # i
  BY <1>2 DEF LedgerInv, TransfersReserved
<1>5. TransfersReserved'
  BY <1>2, <1>3 DEF LedgerInv, TransfersReserved
<1>6. SentOnce'
  BY <1>3, <1>4 DEF LedgerInv, SentOnce
<1>7. TransferBacked'
  BY <1>2, <1>3 DEF LedgerInv, TransferBacked, InPlay
<1>8. QED
  BY <1>1, <1>5, <1>6, <1>7 DEF LedgerInv

\* A step that leaves the ledger and the transfers alone leaves their invariant.
LEMMA LedgerSame ==
  ASSUME LedgerInv, UNCHANGED <<storeVars, transfers>>
  PROVE  LedgerInv'
  BY DEF LedgerInv, OneReservationPerCycle, TransfersReserved, SentOnce, TransferBacked,
         InPlay, storeVars

\* Awaiting and saving keep the ledger's invariant when no response is ever lost.
LEMMA ExecutionSafe ==
  ASSUME MaxLost = 0, IInv, NEW p \in Procs, Execution(p)
  PROVE  LedgerInv'
<1> USE DEF IInv
<1>1. CASE SendRefused(p)
  <2>1. /\ request[p] \in DOMAIN transfers /\ ~InPlay(request[p])
        /\ copy[p].reservation = transfers[request[p]].reservation
    BY <1>1 DEF SendRefused, HandlersKnow, InPlay
  <2> QED
    BY <1>1, <2>1, ReleaseDead DEF SendRefused, SendThrows
<1>2. CASE ResponseLost(p)
  BY <1>2 DEF ResponseLost, TypeOK
<1>3. CASE ReceiptLanded(p)
  <2>1. /\ request[p] \in DOMAIN transfers
        /\ copy[p].reservation = transfers[request[p]].reservation
    BY <1>3 DEF ReceiptLanded, HandlersKnow
  <2> QED
    BY <1>3, <2>1, SettleLanded DEF ReceiptLanded, worldVars
<1>4. CASE ReceiptReverted(p)
  <2>1. /\ request[p] \in DOMAIN transfers /\ ~InPlay(request[p])
        /\ copy[p].reservation = transfers[request[p]].reservation
    BY <1>4 DEF ReceiptReverted, HandlersKnow, InPlay
  <2> QED
    BY <1>4, <2>1, ReleaseDead DEF ReceiptReverted, worldVars
<1>5. CASE SendAccepted(p) \/ ReceiptTimeout(p) \/ Save(p)
  BY <1>5, LedgerSame DEF SendAccepted, ReceiptTimeout, Save, worldVars
<1>6. QED
  BY <1>1, <1>2, <1>3, <1>4, <1>5 DEF Execution

\* The ledger's part of a reconciliation: the receipt is that of a transfer sent
\* under the reservation which is settled or released.
LEMMA FinishedSafe ==
  ASSUME IInv, NEW r \in Runners, NEW s \in stuck[r], Finished(s), UNCHANGED transfers
  PROVE  LedgerInv'
<1>1. /\ s.hash \in DOMAIN transfers
      /\ transfers[s.hash].reservation = s.reservation
  BY DEF IInv, HashesMatch, Matches
<1>2. CASE transfers[s.hash].status = "LANDED" /\ Settle(s.reservation)
  BY <1>1, <1>2, SettleLanded DEF IInv
<1>3. CASE transfers[s.hash].status = "REVERTED" /\ Release(s.reservation)
  BY <1>1, <1>3, ReleaseDead DEF IInv, InPlay
<1>4. QED
  BY <1>2, <1>3 DEF Finished

\* A decision keeps it: it sends only what it reserves.
LEMMA DecideSafe ==
  ASSUME IInv, NEW r \in Runners, NEW c \in Cycles, Decide(r, c)
  PROVE  LedgerInv'
<1> USE DEF IInv
<1>0. asOf[r].period \in Periods
  BY DEF TypeOK, Clock
<1>1. CASE LeaveDue(r, c) \/ SkipUnfunded(r, c)
  BY <1>1, LedgerSame DEF LeaveDue, SkipUnfunded, worldVars
<1>2. CASE SkipUnreserved(r, c)
  <2>1. UNCHANGED reservations
    BY <1>2 DEF SkipUnreserved, RefuseReserve
  <2> QED
    BY <1>2, <2>1 DEF SkipUnreserved, LedgerInv, OneReservationPerCycle, TransfersReserved,
                      SentOnce, TransferBacked, InPlay, worldVars
<1>3. CASE AskApproval(r, c)
  BY <1>0, <1>3, CostType, ReserveLedger DEF AskApproval, worldVars
<1>4. CASE AutoApprove(r, c)
  BY <1>0, <1>4, CostType, ReserveAndSend DEF AutoApprove
<1>5. QED
  BY <1>1, <1>2, <1>3, <1>4 DEF Decide

\* Every step of a run keeps it.
LEMMA RunSafe ==
  ASSUME IInv, NEW r \in Runners, Run(r)
  PROVE  LedgerInv'
<1>1. CASE StartRun(r) \/ ListDue(r) \/ AbortRun(r) \/ EndRun(r)
  BY <1>1, LedgerSame DEF IInv, StartRun, ListDue, AbortRun, EndRun, worldVars
<1>2. ASSUME NEW s \in stuck[r], StillPending(r, s)
      PROVE  LedgerInv'
  BY <1>2, LedgerSame DEF IInv, StillPending, worldVars
<1>3. ASSUME NEW s \in stuck[r], FinishStuck(r, s)
      PROVE  LedgerInv'
  BY <1>3, FinishedSafe DEF FinishStuck, worldVars
<1>4. ASSUME NEW c \in due[r], Decide(r, c)
      PROVE  LedgerInv'
  BY <1>4, DecideSafe DEF IInv, TypeOK
<1>5. QED
  BY <1>1, <1>2, <1>3, <1>4 DEF Run

\* A transfer that moves on was in play before if it is in play after.
LEMMA TransferMovesSafe ==
  ASSUME IInv, NEW t \in DOMAIN transfers,
         Rejected(t) \/ Broadcast(t) \/ Landed(t) \/ Reverted(t)
  PROVE  LedgerInv'
<1> USE DEF IInv, Rejected, Broadcast, Landed, Reverted, TransferMoves
<1>1. /\ DOMAIN transfers' = DOMAIN transfers
      /\ \A u \in DOMAIN transfers :
           /\ transfers'[u].reservation = transfers[u].reservation
           /\ transfers'[u].cycle = transfers[u].cycle
           /\ transfers'[u].status \in {"REQUESTED", "BROADCAST", "LANDED"} => InPlay(u)
  BY DEF TypeOK, Transfer, InPlay
<1>2. QED
  BY <1>1 DEF LedgerInv, OneReservationPerCycle, TransfersReserved, SentOnce,
              TransferBacked, InPlay, storeVars

\* The environment keeps it.
LEMMA EnvironmentSafe ==
  ASSUME IInv, Environment
  PROVE  LedgerInv'
<1>1. CASE UNCHANGED <<storeVars, transfers>>
  BY <1>1, LedgerSame DEF IInv
<1>2. QED
  BY <1>1, TransferMovesSafe DEF Environment, DueDatePasses, QuoteLapses, MonthEnds, KillSwitch, LinkWallet

\* A crash keeps it, between two calls or between a reconciliation's two
\* statements.
LEMMA CrashSafe ==
  ASSUME IInv, Crash \/ \E r \in Runners : CrashInReconcile(r)
  PROVE  LedgerInv'
<1>1. CASE Crash
  BY <1>1, LedgerSame DEF IInv, Crash, LosesHandlers
<1>2. CASE \E r \in Runners : CrashInReconcile(r)
  BY <1>2, FinishedSafe DEF CrashInReconcile, LosesHandlers
<1>3. QED
  BY <1>1, <1>2

\* Nothing is reserved, sent or known at the start.
LEMMA InitSafe == Init => IInv
<1> SUFFICES ASSUME Init PROVE IInv
  OBVIOUS
<1>1. LedgerInv
  BY DEF Init, StoreInit, LedgerInv, OneReservationPerCycle, TransfersReserved,
         SentOnce, TransferBacked
<1>2. QED
  BY <1>1, InitKnows DEF IInv, KnowsInv

\* Where only runs act, and no send call fails after it arrived, every step
\* keeps the invariant.
LEMMA StepSafe ==
  ASSUME Clients = {}, MaxLost = 0, IInv, [Next]_vars
  PROVE  IInv'
<1>1. KnowsInv'
  BY StepKnows DEF IInv, KnowsInv
<1>2. CASE UNCHANGED vars
  BY <1>1, <1>2, LedgerSame DEF IInv, KnowsInv, vars, worldVars, storeVars
<1>3. CASE Next
  <2>1. LedgerInv'
    BY <1>3, ExecutionSafe, RunSafe, CrashSafe, EnvironmentSafe DEF Next
  <2> QED
    BY <1>1, <2>1 DEF IInv, KnowsInv
<1>4. QED
  BY <1>2, <1>3

\* Two transfers in play for a cycle are backed by the cycle's one live or spent
\* reservation, and that was sent once.
LEMMA SafeOnce == IInv => AtMostOneTransfer
<1> SUFFICES ASSUME IInv, NEW t \in DOMAIN transfers, NEW u \in DOMAIN transfers,
                    InPlay(t), InPlay(u), transfers[t].cycle = transfers[u].cycle
             PROVE  t = u
  BY DEF AtMostOneTransfer
<1>1. transfers[t].reservation = transfers[u].reservation
  BY DEF IInv, LedgerInv, TransfersReserved, TransferBacked, OneReservationPerCycle
<1>2. QED
  BY <1>1 DEF IInv, LedgerInv, SentOnce

\* No cycle is paid twice, by any number of overlapping runs and through any
\* number of crashes, as long as no user approves and no send call throws for a
\* request that arrived: the cap ledger's duplicate check is enough.
THEOREM OneTransferPerCycle ==
  ASSUME Clients = {}, MaxLost = 0
  PROVE  Spec => []AtMostOneTransfer
<1>1. Init => IInv
  BY InitSafe
<1>2. IInv /\ [Next]_vars => IInv'
  BY StepSafe
<1>3. IInv => AtMostOneTransfer
  BY SafeOnce
<1>4. QED
  BY <1>1, <1>2, <1>3, PTL DEF Spec

\* Under the same conditions the allowance of money on its way is held until
\* its fate is known, and booked once it has landed.
THEOREM TransfersStayBacked ==
  ASSUME Clients = {}, MaxLost = 0
  PROVE  Spec => []TransferBacked
<1>1. Init => IInv
  BY InitSafe
<1>2. IInv /\ [Next]_vars => IInv'
  BY StepSafe
<1>3. IInv => TransferBacked
  BY DEF IInv, LedgerInv
<1>4. QED
  BY <1>1, <1>2, <1>3, PTL DEF Spec

\* A step either leaves the month rows alone or is one call of the ledger.
LEMMA StepWithinCap ==
  ASSUME TypeOK, WithinCap, [Next]_vars
  PROVE  WithinCap'
<1>1. CASE UNCHANGED capPeriods
  BY <1>1 DEF WithinCap
<1>2. ASSUME NEW i, Settle(i) \/ Release(i)
      PROVE  WithinCap'
  BY <1>2, SettleWithinCap, ReleaseWithinCap DEF TypeOK
<1>3. ASSUME NEW p \in Procs, Execution(p)
      PROVE  WithinCap'
  BY <1>1, <1>2, <1>3 DEF Execution, SendRefused, ResponseLost, SendThrows, SendAccepted,
                          ReceiptLanded, ReceiptReverted, ReceiptTimeout, Save, storeVars
<1>4. ASSUME NEW r \in Runners, Run(r) \/ CrashInReconcile(r)
      PROVE  WithinCap'
  <2>1. ASSUME NEW c \in due[r], Decide(r, c)
        PROVE  WithinCap'
    <3>1. c \in Cycles /\ asOf[r].period \in Periods
      BY DEF TypeOK, Clock
    <3>2. \A price \in Prices : Cost(price) \in Amounts
      BY DEF Amounts
    <3>3. ASSUME NEW price \in Prices, NEW i \in ReservationIds,
                 Reserve(i, c, asOf[r].period, Cost(price))
          PROVE  WithinCap'
      BY <3>1, <3>2, <3>3, ReserveWithinCap DEF TypeOK
    <3>4. ASSUME NEW price \in Prices, RefuseReserve(c, asOf[r].period, Cost(price))
          PROVE  WithinCap'
      BY <3>1, <3>2, <3>4, RefuseWithinCap DEF TypeOK
    <3>5. QED
      BY <1>1, <2>1, <3>3, <3>4 DEF Decide, LeaveDue, SkipUnfunded, SkipUnreserved,
                                    AskApproval, AutoApprove, storeVars
  <2>2. ASSUME NEW s \in stuck[r], Finished(s)
        PROVE  WithinCap'
    BY <1>2, <2>2 DEF Finished
  <2>3. QED
    BY <1>1, <1>4, <2>1, <2>2 DEF Run, CrashInReconcile, StartRun, StillPending, FinishStuck,
                                  ListDue, AbortRun, EndRun, storeVars
<1>5. ASSUME NEW u \in Clients, NEW c \in Cycles, Answer(u, c)
      PROVE  WithinCap'
  BY <1>1, <1>2, <1>5 DEF Answer, Approve, ApproveLapsed, Skip, storeVars
<1>6. CASE Environment \/ Crash
  BY <1>1, <1>6 DEF Environment, Crash, DueDatePasses, QuoteLapses, MonthEnds, KillSwitch, LinkWallet,
                    Rejected, Broadcast, Landed, Reverted, TransferMoves, storeVars
<1>7. QED
  BY <1>1, <1>3, <1>4, <1>5, <1>6 DEF Next, vars

\* The ledger never commits more of a month than its cap, whatever handlers
\* overlap, crash, or finish a reservation twice: the conditional UPDATE needs no
\* help from its callers (sqliteCapStore.ts:63-75).
THEOREM LedgerWithinCap == Spec => []WithinCap
<1>1. Init => WithinCap
  BY DEF Init, StoreInit, WithinCap, NoPeriodRow
<1>2. TypeOK /\ WithinCap /\ [Next]_vars => WithinCap'
  BY StepWithinCap
<1>3. QED
  BY <1>1, <1>2, TypeCorrect, PTL DEF Spec

-----------------------------------------------------------------------------
(* One scheduler, one client, no crash and no lost response. *)

\* The deployment.  The runs overlapping_runs, double_approval and
\* crash_after_broadcast show what is lost without one or the other.
OneOfEach ==
  /\ \A r, s \in Runners : r = s
  /\ \A u, v \in Clients : u = v
  /\ MaxCrashes = 0 /\ MaxLost = 0

-----------------------------------------------------------------------------
(* The inductive invariant: what is known of a cycle from its row, or from *)
(* the object in the hands of the one handler that works on it.  R is the  *)
(* table of reservations, T the transfers.                                 *)

\* No row of table F belongs to cycle c.
Without(F, c) == \A x \in DOMAIN F : F[x].cycle # c

\* x is the one row of cycle c in table F, and its status is in S.
Only(F, c, x, S) ==
  /\ x \in DOMAIN F /\ F[x].cycle = c /\ F[x].status \in S
  /\ \A y \in DOMAIN F : F[y].cycle = c => y = x

\* t is the one transfer of cycle c, and was sent under i.
Sends(T, c, i, t, S) == Only(T, c, t, S) /\ T[t].reservation = i

Answered == {"BROADCAST", "LANDED", "REVERTED"}

\* What row or object o of cycle c says is what the ledger and the chain say.
TellsUnsent(R, T, c, o) ==
  /\ o.hash = None /\ Without(T, c)
  /\ \/ o.state \in {"ABSENT", "PENDING_QUOTE", "SKIPPED", "EXPIRED"}
        /\ o.reservation = None /\ Without(R, c)
     \/ o.state \in {"SKIPPED", "EXPIRED"} /\ Only(R, c, o.reservation, {"RELEASED"})
     \/ o.state = "REQUIRES_APPROVAL" /\ Only(R, c, o.reservation, {"RESERVED"})

TellsSent(R, T, c, o) ==
  \/ /\ o.state = "EXECUTING" /\ Only(R, c, o.reservation, {"RESERVED"})
     /\ Sends(T, c, o.reservation, o.hash, Answered)
  \/ /\ o.state = "SETTLED" /\ Only(R, c, o.reservation, {"SETTLED"})
     /\ Sends(T, c, o.reservation, o.hash, {"LANDED"})
  \/ /\ o.state = "FAILED" /\ Only(R, c, o.reservation, {"RELEASED"})
     /\ \E t \in TransferIds : /\ Sends(T, c, o.reservation, t, {"REJECTED", "REVERTED"})
                               /\ o.hash \in {None, t}

Tells(R, T, c, o) == TellsUnsent(R, T, c, o) \/ TellsSent(R, T, c, o)

\* The row handler p will overwrite: a run's is as it was listed, the user's as
\* it was answered.
RowBehind(p, o, row) ==
  /\ row.hash = None
  /\ p \in Runners => row.state = "PENDING_QUOTE" /\ row.reservation = None
  /\ p \in Clients => row.state = "REQUIRES_APPROVAL" /\ row.reservation = o.reservation

\* What handler p may save.
Outcomes(p) == {"EXECUTING", "SETTLED", "FAILED"}
               \cup IF p \in Runners THEN {"SKIPPED", "REQUIRES_APPROVAL"} ELSE {"EXPIRED"}

\* Handler p at step `at' holds object o and waits for transfer t.
Works(R, T, p, at, o, t) ==
  \/ /\ at = "sending" /\ o.state = "EXECUTING" /\ o.hash = None
     /\ Only(R, o.cycle, o.reservation, {"RESERVED"})
     /\ Sends(T, o.cycle, o.reservation, t, {"REQUESTED", "REJECTED"} \cup Answered)
  \/ /\ at = "confirming" /\ o.state = "EXECUTING" /\ o.hash = t
     /\ TellsSent(R, T, o.cycle, o)
  \/ /\ at = "saving" /\ o.state \in Outcomes(p)
     /\ Tells(R, T, o.cycle, o)

Idles(p) == IF p \in Runners THEN {"idle", "reconciling", "batch"} ELSE {"idle"}

HandlerOK(p) ==
  \/ copy[p] = NoCopy /\ pc[p] \in Idles(p)
  \/ /\ copy[p].cycle \in Cycles
     /\ RowBehind(p, copy[p], rows[copy[p].cycle])
     /\ Works(reservations, transfers, p, pc[p], copy[p], request[p])

RowOK(c) ==
  (\A p \in Procs : copy[p].cycle # c) => Tells(reservations, transfers, c, rows[c])

\* A run's lists are as good as the table.
ListsOK(r) ==
  /\ \A s \in stuck[r] : s.cycle \in Cycles /\ s = CopyOf(s.cycle)
                         /\ s.state = "EXECUTING" /\ s.hash # None
  /\ \A c \in due[r] : rows[c].state = "PENDING_QUOTE" /\ copy[r].cycle # c

Story ==
  /\ \A p \in Procs : HandlerOK(p)
  /\ \A c \in Cycles : RowOK(c)
  /\ \A r \in Runners : ListsOK(r)

OneStory == TypeOK /\ Story

-----------------------------------------------------------------------------
(* Tables. *)

\* Tables F and G have the same rows of cycle c.
Same(F, G, c) ==
  /\ \A x \in DOMAIN F : F[x].cycle = c => x \in DOMAIN G /\ G[x] = F[x]
  /\ \A x \in DOMAIN G : G[x].cycle = c => x \in DOMAIN F /\ F[x].cycle = c

\* Neither do the words that describe a cycle's rows.
LEMMA OnlySame ==
  ASSUME NEW F, NEW G, NEW c, Same(F, G, c)
  PROVE  /\ Without(F, c) => Without(G, c)
         /\ \A x, S : Only(F, c, x, S) => Only(G, c, x, S)
         /\ \A i, x, S : Sends(F, c, i, x, S) => Sends(G, c, i, x, S)
  BY DEF Same, Without, Only, Sends

\* Nothing said of a cycle changes with the rows of others.
LEMMA TellsSame ==
  ASSUME NEW R, NEW T, NEW Q, NEW U, NEW c, Same(R, Q, c), Same(T, U, c)
  PROVE  /\ \A o : TellsUnsent(R, T, c, o) => TellsUnsent(Q, U, c, o)
         /\ \A o : TellsSent(R, T, c, o) => TellsSent(Q, U, c, o)
         /\ \A o : Tells(R, T, c, o) => Tells(Q, U, c, o)
         /\ \A p, at, o, t : o.cycle = c /\ Works(R, T, p, at, o, t) => Works(Q, U, p, at, o, t)
<1>1. \A o : TellsUnsent(R, T, c, o) => TellsUnsent(Q, U, c, o)
  BY OnlySame DEF TellsUnsent
<1>2. \A o : TellsSent(R, T, c, o) => TellsSent(Q, U, c, o)
  BY OnlySame DEF TellsSent
<1>3. \A o : Tells(R, T, c, o) => Tells(Q, U, c, o)
  BY <1>1, <1>2 DEF Tells
<1>4. \A p, at, o, t : o.cycle = c /\ Works(R, T, p, at, o, t) => Works(Q, U, p, at, o, t)
  BY <1>2, <1>3, OnlySame DEF Works
<1> QED
  BY <1>1, <1>2, <1>3, <1>4

\* A new row of cycle c is its one row, if it had none.
LEMMA PutOnly ==
  ASSUME NEW F, NEW x, x \notin DOMAIN F, NEW row, NEW c, row.cycle = c, NEW G, G = Put(F, x, row)
  PROVE  /\ \A d : d # c => Same(F, G, d)
         /\ \A S : Without(F, c) /\ row.status \in S => Only(G, c, x, S)
         /\ G[x] = row
  BY DEF Put, Same, Without, Only

\* settle() and release() leave the other cycles alone, and this one with its one
\* reservation.
LEMMA SettleOnly ==
  ASSUME TypeOK, NEW c, NEW i, NEW S, Only(reservations, c, i, S), Settle(i) \/ Release(i)
  PROVE  /\ \A d : d # c => Same(reservations, reservations', d)
         /\ Settle(i) => Only(reservations', c, i, {"SETTLED"})
         /\ Release(i) => Only(reservations', c, i, {"RELEASED"})
<1>1. /\ DOMAIN reservations' = DOMAIN reservations
      /\ \A y \in DOMAIN reservations : y # i => reservations'[y] = reservations[y]
      /\ reservations'[i].cycle = c
      /\ Settle(i) => reservations'[i].status = "SETTLED"
      /\ Release(i) => reservations'[i].status = "RELEASED"
  BY DEF Only, Settle, Release, TypeOK, StoreTypeOK, Reservation
<1> QED
  BY <1>1 DEF Only, Same

\* So does reserve().
LEMMA ReserveOnly ==
  ASSUME NEW i, NEW c, NEW m, NEW a, Reserve(i, c, m, a)
  PROVE  /\ \A d : d # c => Same(reservations, reservations', d)
         /\ Without(reservations, c) => Only(reservations', c, i, {"RESERVED"})
<1> DEFINE row == [cycle |-> c, period |-> m, amount |-> a, status |-> "RESERVED"]
<1>1. i \notin DOMAIN reservations /\ reservations' = Put(reservations, i, row)
  BY DEF Reserve
<1>2. row.cycle = c /\ row.status \in {"RESERVED"}
  OBVIOUS
<1> HIDE DEF row
<1>3. /\ \A d : d # c => Same(reservations, reservations', d)
      /\ \A S : Without(reservations, c) /\ row.status \in S => Only(reservations', c, i, S)
  BY <1>1, <1>2, PutOnly
<1> QED
  BY <1>2, <1>3

\* A request that leaves is the one transfer of its cycle, if it had none.
LEMMA StartOnly ==
  ASSUME NEW p, NEW c, NEW i, NEW t, StartTransfer(p, c, i, t)
  PROVE  /\ \A d : d # c => Same(transfers, transfers', d)
         /\ Without(transfers, c) => Sends(transfers', c, i, t, {"REQUESTED"})
<1> DEFINE row == [cycle |-> c, reservation |-> i, status |-> "REQUESTED"]
<1>1. t \notin DOMAIN transfers /\ transfers' = Put(transfers, t, row)
  BY DEF StartTransfer
<1>2. row.cycle = c /\ row.status \in {"REQUESTED"} /\ row.reservation = i
  OBVIOUS
<1> HIDE DEF row
<1>3. /\ \A d : d # c => Same(transfers, transfers', d)
      /\ \A S : Without(transfers, c) /\ row.status \in S => Only(transfers', c, t, S)
      /\ transfers'[t] = row
  BY <1>1, <1>2, PutOnly
<1> QED
  BY <1>2, <1>3 DEF Sends

-----------------------------------------------------------------------------
(* Who works on what. *)

\* With one runner and one client no two handlers work on the same cycle: they
\* would differ about its row.
LEMMA AtWorkAlone ==
  ASSUME OneOfEach, OneStory, NEW p \in Procs, NEW q \in Procs, p # q,
         copy[p].cycle \in Cycles
  PROVE  copy[q].cycle # copy[p].cycle
<1> SUFFICES ASSUME copy[q].cycle = copy[p].cycle
             PROVE  FALSE
  OBVIOUS
<1>1. NoCopy.cycle \notin Cycles
  BY CyclesAssumption DEF NoCopy
<1>2. RowBehind(p, copy[p], rows[copy[p].cycle]) /\ RowBehind(q, copy[q], rows[copy[p].cycle])
  BY <1>1 DEF OneStory, Story, HandlerOK
<1>3. \/ p \in Runners /\ q \in Clients
      \/ p \in Clients /\ q \in Runners
  BY DEF OneOfEach, Procs
<1> QED
  BY <1>2, <1>3 DEF RowBehind

\* Handlers that a step does not touch, and that work on other cycles than the
\* one it is about, are as right as before.
LEMMA OthersOK ==
  ASSUME OneStory, NEW c,
         \A d \in Cycles : d # c => /\ Same(reservations, reservations', d)
                                    /\ Same(transfers, transfers', d)
                                    /\ rows'[d] = rows[d]
  PROVE  \A q \in Procs :
           copy[q].cycle # c /\ copy'[q] = copy[q] /\ pc'[q] = pc[q] /\ request'[q] = request[q]
             => HandlerOK(q)'
<1> SUFFICES ASSUME NEW q \in Procs, copy[q].cycle # c, copy'[q] = copy[q], pc'[q] = pc[q],
                    request'[q] = request[q]
             PROVE  HandlerOK(q)'
  OBVIOUS
<1>1. HandlerOK(q)
  BY DEF OneStory, Story
<1>2. CASE copy[q] = NoCopy /\ pc[q] \in Idles(q)
  BY <1>2 DEF HandlerOK, Idles
<1>3. CASE /\ copy[q].cycle \in Cycles
           /\ RowBehind(q, copy[q], rows[copy[q].cycle])
           /\ Works(reservations, transfers, q, pc[q], copy[q], request[q])
  <2>1. Works(reservations', transfers', q, pc[q], copy[q], request[q])
    BY <1>3, TellsSame
  <2> QED
    BY <1>3, <2>1 DEF HandlerOK
<1> QED
  BY <1>1, <1>2, <1>3 DEF HandlerOK

\* So are the rows of other cycles.
LEMMA OtherRowsOK ==
  ASSUME OneStory, NEW c,
         \A d \in Cycles : d # c => /\ Same(reservations, reservations', d)
                                    /\ Same(transfers, transfers', d)
                                    /\ rows'[d] = rows[d],
         \A q \in Procs : copy'[q].cycle = copy[q].cycle \/ {copy[q].cycle, copy'[q].cycle} \subseteq {c, None}
  PROVE  \A d \in Cycles : d # c => RowOK(d)'
<1> SUFFICES ASSUME NEW d \in Cycles, d # c, \A q \in Procs : copy'[q].cycle # d
             PROVE  Tells(reservations', transfers', d, rows'[d])
  BY DEF RowOK
<1>1. \A q \in Procs : copy[q].cycle # d
  BY CyclesAssumption
<1>2. Tells(reservations, transfers, d, rows[d])
  BY <1>1 DEF OneStory, Story, RowOK
<1> QED
  BY <1>2, TellsSame

\* Lists that only shrink stay right for rows that stay as they are.
LEMMA ListsKept ==
  ASSUME OneStory, NEW r \in Runners, stuck'[r] \subseteq stuck[r], due'[r] \subseteq due[r],
         \A s \in stuck'[r] : rows'[s.cycle] = rows[s.cycle],
         \A d \in due'[r] : rows'[d] = rows[d] /\ copy'[r].cycle # d
  PROVE  ListsOK(r)'
  BY DEF OneStory, Story, ListsOK, CopyOf

\* The handlers but p wait where they waited, for what they waited for.
OthersWait(p) ==
  \A q \in Procs : q # p => copy'[q] = copy[q] /\ pc'[q] = pc[q] /\ request'[q] = request[q]

\* Tables and rows of other cycles than c are as they were.
About(c) ==
  \A d \in Cycles : d # c => /\ Same(reservations, reservations', d)
                             /\ Same(transfers, transfers', d)
                             /\ rows'[d] = rows[d]

\* Handler p is at work on a cycle.
LEMMA AtWork ==
  ASSUME OneStory, NEW p \in Procs, pc[p] \in {"sending", "confirming", "saving"}
  PROVE  /\ copy[p] \in Copy /\ copy[p].cycle \in Cycles
         /\ RowBehind(p, copy[p], rows[copy[p].cycle])
         /\ Works(reservations, transfers, p, pc[p], copy[p], request[p])
<1>1. pc[p] \notin Idles(p)
  BY DEF Idles
<1> QED
  BY <1>1 DEF OneStory, Story, HandlerOK, TypeOK

\* It goes on with it.
LEMMA WorkGoesOn ==
  ASSUME OneOfEach, OneStory, NEW p \in Procs, copy[p].cycle \in Cycles,
         About(copy[p].cycle), OthersWait(p), rows' = rows,
         copy'[p].cycle = copy[p].cycle, HandlerOK(p)', UNCHANGED <<stuck, due>>
  PROVE  Story'
<1> DEFINE c == copy[p].cycle
<1>1. \A q \in Procs : q # p => copy[q].cycle # c
  BY AtWorkAlone
<1>2. \A q \in Procs : HandlerOK(q)'
  BY <1>1, OthersOK DEF About, OthersWait
<1>3. \A d \in Cycles : RowOK(d)'
  <2>1. \A d \in Cycles : d # c => RowOK(d)'
    BY OtherRowsOK DEF About, OthersWait
  <2>2. RowOK(c)'
    BY DEF RowOK
  <2> QED
    BY <2>1, <2>2
<1>4. \A r \in Runners : ListsOK(r)'
  <2> SUFFICES ASSUME NEW r \in Runners PROVE ListsOK(r)'
    OBVIOUS
  <2>1. copy'[r].cycle = copy[r].cycle
    BY DEF OthersWait, Procs
  <2>2. \A d \in due[r] : copy[r].cycle # d
    BY DEF OneStory, Story, ListsOK
  <2> QED
    BY <2>1, <2>2, ListsKept
<1> QED
  BY <1>2, <1>3, <1>4 DEF Story

\* What Concludes() leaves of a handler.
LEMMA ConcludesOnly ==
  ASSUME TypeOK, NEW p \in Procs, NEW object, Concludes(p, object)
  PROVE  /\ copy'[p] = object /\ pc'[p] = "saving"
         /\ OthersWait(p)
  BY DEF Concludes, TypeOK, OthersWait

\* A handler concludes with an object that tells the story.
LEMMA ConcludesOK ==
  ASSUME OneOfEach, OneStory, NEW p \in Procs, copy[p].cycle \in Cycles,
         RowBehind(p, copy[p], rows[copy[p].cycle]),
         NEW object, object.cycle = copy[p].cycle, object.reservation = copy[p].reservation,
         object.state \in Outcomes(p), Concludes(p, object),
         Tells(reservations', transfers', object.cycle, object),
         About(object.cycle), UNCHANGED <<rows, stuck, due>>
  PROVE  Story'
<1>1. copy'[p] = object /\ pc'[p] = "saving" /\ OthersWait(p)
  BY ConcludesOnly DEF OneStory
<1>2. RowBehind(p, object, rows[object.cycle])
  BY DEF RowBehind
<1>3. HandlerOK(p)'
  BY <1>1, <1>2 DEF HandlerOK, Works, Outcomes
<1> QED
  BY <1>1, <1>3, WorkGoesOn

-----------------------------------------------------------------------------
(* Sending and waiting. *)

\* A refused request is given back and FAILED.
LEMMA SendRefusedOK ==
  ASSUME OneOfEach, OneStory, NEW p \in Procs, SendRefused(p)
  PROVE  Story'
<1> DEFINE o == copy[p]
           new == [o EXCEPT !.state = "FAILED"]
<1>1. /\ o \in Copy /\ o.cycle \in Cycles /\ RowBehind(p, o, rows[o.cycle])
      /\ o.hash = None /\ Only(reservations, o.cycle, o.reservation, {"RESERVED"})
      /\ \E S : Sends(transfers, o.cycle, o.reservation, request[p], S)
  BY AtWork DEF SendRefused, Works
<1>2. /\ new.cycle = o.cycle /\ new.reservation = o.reservation
      /\ new.hash = None /\ new.state = "FAILED"
  BY <1>1 DEF Copy
<1>3. Release(o.reservation) /\ Concludes(p, new)
      /\ UNCHANGED <<rows, transfers, stuck, due>>
  BY DEF SendRefused, SendThrows
<1>4. About(o.cycle) /\ Only(reservations', o.cycle, o.reservation, {"RELEASED"})
  <2>1. /\ \A d : d # o.cycle => Same(reservations, reservations', d)
        /\ Only(reservations', o.cycle, o.reservation, {"RELEASED"})
    BY <1>1, <1>3, SettleOnly DEF OneStory
  <2> QED
    BY <1>3, <2>1 DEF About, Same
<1>5. Sends(transfers', o.cycle, o.reservation, request[p], {"REJECTED", "REVERTED"})
      /\ request[p] \in TransferIds
  BY <1>1, <1>3 DEF SendRefused, Sends, Only, OneStory, TypeOK
<1>6. Tells(reservations', transfers', o.cycle, new)
  BY <1>2, <1>4, <1>5 DEF Tells, TellsSent
<1> HIDE DEF new
<1> QED
  BY <1>1, <1>2, <1>3, <1>4, <1>6, ConcludesOK DEF Outcomes

\* The hash is known.
LEMMA SendAcceptedOK ==
  ASSUME OneOfEach, OneStory, NEW p \in Procs, SendAccepted(p)
  PROVE  Story'
<1> DEFINE o == copy[p]
<1>1. /\ o \in Copy /\ o.cycle \in Cycles /\ RowBehind(p, o, rows[o.cycle])
      /\ o.state = "EXECUTING"
      /\ Only(reservations, o.cycle, o.reservation, {"RESERVED"})
      /\ \E S : Sends(transfers, o.cycle, o.reservation, request[p], S)
  BY AtWork DEF SendAccepted, Works
<1>2. copy'[p] = [o EXCEPT !.hash = request[p]] /\ pc'[p] = "confirming" /\ OthersWait(p)
      /\ request'[p] = request[p]
  BY DEF SendAccepted, OneStory, TypeOK, OthersWait
<1>3. /\ copy'[p].cycle = o.cycle /\ copy'[p].state = "EXECUTING"
      /\ copy'[p].reservation = o.reservation /\ copy'[p].hash = request[p]
  BY <1>1, <1>2 DEF Copy
<1>4. UNCHANGED <<reservations, transfers, rows, stuck, due>>
  BY DEF SendAccepted, storeVars, worldVars
<1>5. Sends(transfers', o.cycle, o.reservation, request[p], Answered)
  BY <1>1, <1>4 DEF SendAccepted, Sends, Only, Answered
<1>6. TellsSent(reservations', transfers', o.cycle, copy'[p])
  BY <1>1, <1>3, <1>4, <1>5 DEF TellsSent
<1>7. RowBehind(p, copy'[p], rows'[o.cycle])
  BY <1>1, <1>3, <1>4 DEF RowBehind
<1>8. HandlerOK(p)'
  BY <1>1, <1>2, <1>3, <1>6, <1>7 DEF HandlerOK, Works
<1>9. About(o.cycle)
  BY <1>4 DEF About, Same
<1> QED
  BY <1>1, <1>2, <1>3, <1>4, <1>8, <1>9, WorkGoesOn

\* The receipt comes, or it does not in time.
LEMMA ReceiptOK ==
  ASSUME OneOfEach, OneStory, NEW p \in Procs,
         ReceiptLanded(p) \/ ReceiptReverted(p) \/ ReceiptTimeout(p)
  PROVE  Story'
<1> DEFINE o == copy[p]
<1>1. /\ o \in Copy /\ o.cycle \in Cycles /\ RowBehind(p, o, rows[o.cycle])
      /\ o.state = "EXECUTING" /\ o.hash = request[p]
      /\ Only(reservations, o.cycle, o.reservation, {"RESERVED"})
      /\ Sends(transfers, o.cycle, o.reservation, request[p], Answered)
      /\ TellsSent(reservations, transfers, o.cycle, o)
  BY AtWork DEF ReceiptLanded, ReceiptReverted, ReceiptTimeout, Works, TellsSent
<1>2. UNCHANGED <<transfers, rows, stuck, due>>
  BY DEF ReceiptLanded, ReceiptReverted, ReceiptTimeout, worldVars
<1>3. CASE ReceiptLanded(p)
  <2> DEFINE new == [o EXCEPT !.state = "SETTLED"]
  <2>1. Settle(o.reservation) /\ Concludes(p, new)
    BY <1>3 DEF ReceiptLanded
  <2>2. /\ new.cycle = o.cycle /\ new.reservation = o.reservation
        /\ new.hash = request[p] /\ new.state = "SETTLED"
    BY <1>1 DEF Copy
  <2>3. /\ \A d : d # o.cycle => Same(reservations, reservations', d)
        /\ Only(reservations', o.cycle, o.reservation, {"SETTLED"})
    BY <1>1, <2>1, SettleOnly DEF OneStory
  <2>4. Sends(transfers', o.cycle, o.reservation, request[p], {"LANDED"})
    BY <1>1, <1>2, <1>3 DEF ReceiptLanded, Sends, Only
  <2>5. About(o.cycle)
    BY <1>2, <2>3 DEF About, Same
  <2>6. Tells(reservations', transfers', o.cycle, new)
    BY <2>2, <2>3, <2>4 DEF Tells, TellsSent
  <2> HIDE DEF new
  <2> QED
    BY <1>1, <1>2, <2>1, <2>2, <2>5, <2>6, ConcludesOK DEF Outcomes
<1>4. CASE ReceiptReverted(p)
  <2> DEFINE new == [o EXCEPT !.state = "FAILED"]
  <2>1. Release(o.reservation) /\ Concludes(p, new)
    BY <1>4 DEF ReceiptReverted
  <2>2. /\ new.cycle = o.cycle /\ new.reservation = o.reservation
        /\ new.hash = request[p] /\ new.state = "FAILED"
    BY <1>1 DEF Copy
  <2>3. /\ \A d : d # o.cycle => Same(reservations, reservations', d)
        /\ Only(reservations', o.cycle, o.reservation, {"RELEASED"})
    BY <1>1, <2>1, SettleOnly DEF OneStory
  <2>4. Sends(transfers', o.cycle, o.reservation, request[p], {"REJECTED", "REVERTED"})
    BY <1>1, <1>2, <1>4 DEF ReceiptReverted, Sends, Only
  <2>5. About(o.cycle)
    BY <1>2, <2>3 DEF About, Same
  <2>6. request[p] \in TransferIds
    BY <1>1 DEF Sends, Only, OneStory, TypeOK
  <2>7. Tells(reservations', transfers', o.cycle, new)
    BY <2>2, <2>3, <2>4, <2>6 DEF Tells, TellsSent
  <2> HIDE DEF new
  <2> QED
    BY <1>1, <1>2, <2>1, <2>2, <2>5, <2>7, ConcludesOK DEF Outcomes
<1>5. CASE ReceiptTimeout(p)
  <2>1. Concludes(p, o) /\ UNCHANGED reservations
    BY <1>5 DEF ReceiptTimeout, storeVars
  <2>2. About(o.cycle) /\ Tells(reservations', transfers', o.cycle, o)
    BY <1>1, <1>2, <2>1 DEF About, Same, Tells
  <2> QED
    BY <1>1, <1>2, <2>1, <2>2, ConcludesOK DEF Outcomes
<1> QED
  BY <1>3, <1>4, <1>5

-----------------------------------------------------------------------------
(* Saving. *)

\* A row with the content of an object tells what the object told.
LEMMA TellsRow ==
  ASSUME NEW R, NEW T, NEW c, NEW o, NEW row, row.state = o.state,
         row.reservation = o.reservation, row.hash = o.hash, Tells(R, T, c, o)
  PROVE  Tells(R, T, c, row)
  BY DEF Tells, TellsUnsent, TellsSent

\* saveCycle() writes one row.
LEMMA SaveOnly ==
  ASSUME TypeOK, NEW object, object.cycle \in Cycles, saveCycle(object)
  PROVE  /\ \A d \in Cycles : d # object.cycle => rows'[d] = rows[d]
         /\ rows'[object.cycle].state = object.state
         /\ rows'[object.cycle].reservation = object.reservation
         /\ rows'[object.cycle].hash = object.hash
  BY DEF saveCycle, TypeOK

\* A row with neither hash nor PENDING_QUOTE is on no list of a run.
LEMMA NotListed ==
  ASSUME OneStory, NEW r \in Runners, NEW c \in Cycles
  PROVE  /\ rows[c].hash = None => \A s \in stuck[r] : s.cycle # c
         /\ rows[c].state # "PENDING_QUOTE" => c \notin due[r]
  BY DEF OneStory, Story, ListsOK, CopyOf

\* A handler is done with its cycle: the row is what the object was.
LEMMA SaveOK ==
  ASSUME OneOfEach, OneStory, NEW p \in Procs, Save(p)
  PROVE  Story'
<1> DEFINE o == copy[p]
           c == o.cycle
<1>1. c \in Cycles /\ RowBehind(p, o, rows[c]) /\ Tells(reservations, transfers, c, o)
  BY AtWork DEF Save, Works
<1>2. /\ copy'[p] = NoCopy /\ pc'[p] \in Idles(p) /\ OthersWait(p)
      /\ UNCHANGED <<reservations, transfers, stuck, due>>
  BY DEF Save, Idles, OthersWait, OneStory, TypeOK, storeVars, worldVars
<1>3. /\ \A d \in Cycles : d # c => rows'[d] = rows[d]
      /\ rows'[c].state = o.state /\ rows'[c].reservation = o.reservation /\ rows'[c].hash = o.hash
  BY <1>1, SaveOnly DEF Save, OneStory
<1>4. About(c)
  BY <1>2, <1>3 DEF About, Same
<1>5. NoCopy.cycle = None
  BY DEF NoCopy
<1>6. \A q \in Procs : HandlerOK(q)'
  <2>1. HandlerOK(p)'
    BY <1>2 DEF HandlerOK, Idles
  <2>2. \A q \in Procs : q # p => copy[q].cycle # c
    BY <1>1, AtWorkAlone
  <2> QED
    BY <1>2, <1>4, <2>1, <2>2, OthersOK DEF About, OthersWait
<1>7. \A d \in Cycles : RowOK(d)'
  <2>1. \A d \in Cycles : d # c => RowOK(d)'
    BY <1>2, <1>4, <1>5, OtherRowsOK DEF About, OthersWait
  <2>2. Tells(reservations', transfers', c, rows'[c])
    BY <1>1, <1>2, <1>3, TellsRow
  <2> QED
    BY <2>1, <2>2 DEF RowOK
<1>8. \A r \in Runners : ListsOK(r)'
  <2> SUFFICES ASSUME NEW r \in Runners PROVE ListsOK(r)'
    OBVIOUS
  <2>1. r = p \/ p \in Clients
    BY DEF OneOfEach, Procs
  <2>2. c \notin due[r]
    BY <1>1, <2>1, NotListed DEF RowBehind, OneStory, Story, ListsOK
  <2>3. \A s \in stuck[r] : s.cycle \in Cycles /\ s.cycle # c
    BY <1>1, NotListed DEF RowBehind, OneStory, Story, ListsOK
  <2>4. due[r] \subseteq Cycles /\ \A d \in due[r] : copy[r].cycle # d
    BY DEF OneStory, Story, ListsOK, TypeOK
  <2>5. copy'[r].cycle \in {None, copy[r].cycle}
    BY <1>2, <1>5 DEF OthersWait, Procs
  <2>6. \A d \in due'[r] : rows'[d] = rows[d] /\ copy'[r].cycle # d
    BY <1>2, <1>3, <2>2, <2>4, <2>5, CyclesAssumption
  <2>7. \A s \in stuck'[r] : rows'[s.cycle] = rows[s.cycle]
    BY <1>2, <1>3, <2>3
  <2> QED
    BY <1>2, <2>6, <2>7, ListsKept
<1> QED
  BY <1>6, <1>7, <1>8 DEF Story

-----------------------------------------------------------------------------
(* Runs. *)

\* Handlers that await nothing about a cycle may move on.
LEMMA IdleOK ==
  ASSUME OneStory, UNCHANGED <<reservations, transfers, rows, copy, request>>,
         \A q \in Procs : pc'[q] # pc[q] => copy[q] = NoCopy /\ pc'[q] \in Idles(q)
  PROVE  /\ \A q \in Procs : HandlerOK(q)'
         /\ \A d \in Cycles : RowOK(d)'
  BY DEF OneStory, Story, HandlerOK, RowOK, Idles

\* A handler that is idle has no cycle in hand.
LEMMA IdleAlone ==
  ASSUME OneStory, NEW p \in Procs, pc[p] \in {"idle", "reconciling", "batch"}
  PROVE  copy[p] = NoCopy
  BY DEF OneStory, Story, HandlerOK, Works

\* A run that starts lists rows as they are.
LEMMA StartRunOK ==
  ASSUME OneOfEach, OneStory, NEW r \in Runners, StartRun(r)
  PROVE  Story'
<1>1. UNCHANGED <<reservations, transfers, rows, copy, request, due>>
  BY DEF StartRun, storeVars, worldVars
<1>2. \A q \in Procs : pc'[q] # pc[q] => copy[q] = NoCopy /\ pc'[q] \in Idles(q)
  <2>1. copy[r] = NoCopy /\ pc'[r] \in Idles(r)
    BY IdleAlone DEF StartRun, Procs, Idles, OneStory, TypeOK
  <2>2. \A q \in Procs : q # r => pc'[q] = pc[q]
    BY DEF StartRun, OneStory, TypeOK
  <2> QED
    BY <2>1, <2>2
<1>3. stuck'[r] = {CopyOf(c) : c \in StuckRows}
  BY DEF StartRun, OneStory, TypeOK
<1>4. ListsOK(r)'
  <2>1. \A s \in stuck'[r] : s.cycle \in Cycles /\ s = CopyOf(s.cycle)'
                             /\ s.state = "EXECUTING" /\ s.hash # None
    BY <1>1, <1>3 DEF CopyOf, StuckRows
  <2>2. \A c \in due[r] : rows[c].state = "PENDING_QUOTE" /\ copy[r].cycle # c
    BY DEF OneStory, Story, ListsOK
  <2> QED
    BY <1>1, <2>1, <2>2 DEF ListsOK
<1>5. \A q \in Runners : ListsOK(q)'
  BY <1>4 DEF OneOfEach
<1> QED
  BY <1>1, <1>2, <1>5, IdleOK DEF Story

\* A run's lists shrink, and its handler, at nothing, moves on.
LEMMA ShrinkOK ==
  ASSUME OneStory, UNCHANGED <<reservations, transfers, rows, copy, request>>,
         \A q \in Procs : pc'[q] # pc[q] => copy[q] = NoCopy /\ pc'[q] \in Idles(q),
         \A q \in Runners : stuck'[q] \subseteq stuck[q] /\ due'[q] \subseteq due[q]
  PROVE  Story'
<1>1. \A q \in Runners : ListsOK(q)'
  BY ListsKept DEF OneStory, Story, ListsOK
<1> QED
  BY <1>1, IdleOK DEF Story

\* The steps of a run that touch no row, no ledger and no transfer.
LEMMA QuietRunOK ==
  ASSUME OneOfEach, OneStory, NEW r \in Runners,
         \/ \E s \in stuck[r] : StillPending(r, s)
         \/ \E c \in due[r] : LeaveDue(r, c)
         \/ AbortRun(r) \/ EndRun(r)
  PROVE  Story'
<1>1. CASE \E s \in stuck[r] : StillPending(r, s)
  <2>1. /\ UNCHANGED <<reservations, transfers, rows, copy, request, pc, due>>
        /\ \A q \in Runners : stuck'[q] \subseteq stuck[q]
    BY <1>1 DEF StillPending, NextStuck, OneStory, TypeOK, storeVars, worldVars
  <2> QED
    BY <2>1, ShrinkOK
<1>2. CASE \E c \in due[r] : LeaveDue(r, c)
  <2>1. /\ UNCHANGED <<reservations, transfers, rows, copy, request, pc, stuck>>
        /\ \A q \in Runners : due'[q] \subseteq due[q]
    BY <1>2 DEF LeaveDue, NextDue, OneStory, TypeOK, storeVars, worldVars
  <2> QED
    BY <2>1, ShrinkOK
<1>3. CASE AbortRun(r) \/ EndRun(r)
  <2>1. copy[r] = NoCopy
    BY <1>3, IdleAlone DEF AbortRun, EndRun, Procs
  <2>2. /\ UNCHANGED <<reservations, transfers, rows, copy, request, stuck>>
        /\ \A q \in Runners : due'[q] \subseteq due[q]
    BY <1>3 DEF AbortRun, EndRun, OneStory, TypeOK, storeVars, worldVars
  <2>3. pc'[r] = "idle" /\ \A q \in Procs : q # r => pc'[q] = pc[q]
    BY <1>3 DEF AbortRun, EndRun, OneStory, TypeOK, Procs
  <2>4. \A q \in Procs : pc'[q] # pc[q] => copy[q] = NoCopy /\ pc'[q] \in Idles(q)
    BY <2>1, <2>3 DEF Idles
  <2> QED
    BY <2>2, <2>4, ShrinkOK
<1> QED
  BY <1>1, <1>2, <1>3

\* Reconciliation brings a broadcast row and its reservation up to date.
LEMMA FinishStuckOK ==
  ASSUME OneOfEach, OneStory, NEW r \in Runners, NEW s \in stuck[r], FinishStuck(r, s)
  PROVE  Story'
<1> DEFINE c == s.cycle
           outcome == IF transfers[s.hash].status = "LANDED" THEN "SETTLED" ELSE "FAILED"
           new == [s EXCEPT !.state = outcome]
<1>1. c \in Cycles /\ s = CopyOf(c) /\ s.state = "EXECUTING" /\ s.hash # None /\ s \in Copy
  BY DEF OneStory, Story, ListsOK, TypeOK
<1>2. rows[c].state = "EXECUTING" /\ rows[c].reservation = s.reservation
      /\ rows[c].hash = s.hash /\ rows[c].hash # None
  BY <1>1 DEF CopyOf
<1>3. \A q \in Procs : copy[q].cycle # c
  <2> SUFFICES ASSUME NEW q \in Procs, copy[q].cycle = c PROVE FALSE
    OBVIOUS
  <2>1. NoCopy.cycle # c
    BY <1>1, CyclesAssumption DEF NoCopy
  <2>2. RowBehind(q, copy[q], rows[c])
    BY <2>1 DEF OneStory, Story, HandlerOK
  <2> QED
    BY <1>2, <2>2 DEF RowBehind
<1>4. /\ Only(reservations, c, s.reservation, {"RESERVED"})
      /\ Sends(transfers, c, s.reservation, s.hash, Answered)
  BY <1>1, <1>2, <1>3 DEF OneStory, Story, RowOK, Tells, TellsSent, TellsUnsent
<1>5. Finished(s) /\ saveCycle(new)
      /\ UNCHANGED <<transfers, pc, copy, request, due>> /\ NextStuck(r, s)
  BY DEF FinishStuck, worldVars
<1>6. /\ new.cycle = c /\ new.reservation = s.reservation /\ new.hash = s.hash
      /\ new.state = outcome
  BY <1>1 DEF Copy
<1>7. Tells(reservations', transfers', c, new) /\ \A d : d # c => Same(reservations, reservations', d)
  <2>1. CASE transfers[s.hash].status = "LANDED" /\ Settle(s.reservation)
    <3>1. /\ \A d : d # c => Same(reservations, reservations', d)
          /\ Only(reservations', c, s.reservation, {"SETTLED"})
      BY <1>4, <2>1, SettleOnly DEF OneStory
    <3>2. Sends(transfers', c, s.reservation, s.hash, {"LANDED"})
      BY <1>4, <1>5, <2>1 DEF Sends, Only
    <3> QED
      BY <1>6, <2>1, <3>1, <3>2 DEF Tells, TellsSent
  <2>2. CASE transfers[s.hash].status = "REVERTED" /\ Release(s.reservation)
    <3>1. /\ \A d : d # c => Same(reservations, reservations', d)
          /\ Only(reservations', c, s.reservation, {"RELEASED"})
      BY <1>4, <2>2, SettleOnly DEF OneStory
    <3>2. Sends(transfers', c, s.reservation, s.hash, {"REJECTED", "REVERTED"})
      BY <1>4, <1>5, <2>2 DEF Sends, Only
    <3>3. s.hash \in TransferIds
      BY <1>4 DEF Sends, Only, OneStory, TypeOK
    <3> QED
      BY <1>6, <2>2, <3>1, <3>2, <3>3 DEF Tells, TellsSent
  <2> QED
    BY <1>5, <2>1, <2>2 DEF Finished
<1> HIDE DEF new
<1>8. /\ \A d \in Cycles : d # c => rows'[d] = rows[d]
      /\ rows'[c].state = new.state /\ rows'[c].reservation = new.reservation
      /\ rows'[c].hash = new.hash
  BY <1>1, <1>5, <1>6, SaveOnly DEF OneStory
<1>9. About(c)
  BY <1>5, <1>7, <1>8 DEF About, Same
<1>10. \A q \in Procs : HandlerOK(q)'
  BY <1>3, <1>5, <1>9, OthersOK DEF About
<1>11. \A d \in Cycles : RowOK(d)'
  <2>1. \A d \in Cycles : d # c => RowOK(d)'
    BY <1>5, <1>9, OtherRowsOK DEF About
  <2>2. Tells(reservations', transfers', c, rows'[c])
    BY <1>7, <1>8, TellsRow
  <2> QED
    BY <2>1, <2>2 DEF RowOK
<1>12. ListsOK(r)'
  <2>1. stuck'[r] = stuck[r] \ {s}
    BY <1>5 DEF NextStuck, OneStory, TypeOK
  <2>2. \A v \in stuck[r] : v.cycle \in Cycles /\ v = CopyOf(v.cycle)
    BY DEF OneStory, Story, ListsOK
  <2>3. \A v \in stuck'[r] : rows'[v.cycle] = rows[v.cycle]
    BY <1>1, <1>8, <2>1, <2>2
  <2>4. due[r] \subseteq Cycles /\ c \notin due[r] /\ \A d \in due[r] : copy[r].cycle # d
    BY <1>1, <1>2, NotListed DEF OneStory, Story, ListsOK, TypeOK
  <2> QED
    BY <1>5, <1>8, <2>1, <2>3, <2>4, ListsKept
<1> QED
  BY <1>10, <1>11, <1>12 DEF Story, OneOfEach

\* Rows are made and the due ones listed.
LEMMA ListDueOK ==
  ASSUME OneOfEach, OneStory, NEW r \in Runners, ListDue(r)
  PROVE  Story'
<1>1. UNCHANGED <<reservations, transfers, copy, request, stuck>> /\ stuck[r] = {}
  BY DEF ListDue, storeVars, worldVars
<1>2. copy[r] = NoCopy
  BY IdleAlone DEF ListDue, Procs
<1>3. \A c \in Cycles :
        \/ rows'[c] = rows[c]
        \/ /\ rows[c].state = "ABSENT" /\ rows'[c].state = "PENDING_QUOTE"
           /\ rows'[c].reservation = rows[c].reservation /\ rows'[c].hash = rows[c].hash
  BY DEF ListDue, Generated, OneStory, TypeOK, Row
<1>4. pc'[r] = "batch" /\ \A q \in Procs : q # r => pc'[q] = pc[q]
  BY DEF ListDue, OneStory, TypeOK, Procs
<1>5. \A q \in Procs : HandlerOK(q)'
  <2> SUFFICES ASSUME NEW q \in Procs PROVE HandlerOK(q)'
    OBVIOUS
  <2>1. CASE copy[q] = NoCopy /\ pc[q] \in Idles(q)
    BY <1>1, <1>4, <2>1 DEF HandlerOK, Idles
  <2>2. CASE /\ copy[q].cycle \in Cycles
             /\ RowBehind(q, copy[q], rows[copy[q].cycle])
             /\ Works(reservations, transfers, q, pc[q], copy[q], request[q])
    <3>1. q # r
      BY <1>2, <2>2, CyclesAssumption DEF NoCopy
    <3>2. rows[copy[q].cycle].state # "ABSENT"
      BY <2>2 DEF RowBehind, Procs
    <3>3. rows'[copy[q].cycle] = rows[copy[q].cycle]
      BY <1>3, <2>2, <3>2
    <3> QED
      BY <1>1, <1>4, <2>2, <3>1, <3>3 DEF HandlerOK
  <2> QED
    BY <2>1, <2>2 DEF OneStory, Story, HandlerOK
<1>6. \A c \in Cycles : RowOK(c)'
  <2> SUFFICES ASSUME NEW c \in Cycles, \A q \in Procs : copy[q].cycle # c
               PROVE  Tells(reservations, transfers, c, rows'[c])
    BY <1>1 DEF RowOK
  <2>1. Tells(reservations, transfers, c, rows[c])
    BY DEF OneStory, Story, RowOK
  <2>2. CASE rows[c].state = "ABSENT" /\ rows'[c].state = "PENDING_QUOTE"
             /\ rows'[c].reservation = rows[c].reservation /\ rows'[c].hash = rows[c].hash
    BY <2>1, <2>2 DEF Tells, TellsUnsent, TellsSent
  <2> QED
    BY <1>3, <2>1, <2>2
<1>7. ListsOK(r)'
  <2>1. due'[r] = {c \in asOf[r].dates : IsDue(rows'[c]) /\ status[ObligationOf[c]] = "ACTIVE"}
    BY DEF ListDue, OneStory, TypeOK
  <2>2. asOf[r].dates \subseteq Cycles
    BY DEF OneStory, TypeOK, Clock
  <2>3. \A c \in due'[r] : rows'[c].state = "PENDING_QUOTE" /\ copy'[r].cycle # c
    BY <1>1, <1>2, <2>1, <2>2, CyclesAssumption DEF IsDue, NoCopy
  <2> QED
    BY <1>1, <2>3 DEF ListsOK
<1> QED
  BY <1>5, <1>6, <1>7 DEF Story, OneOfEach

-----------------------------------------------------------------------------
(* Decisions and answers: a handler takes up a cycle. *)

\* A handler that takes up a cycle nobody works on.
LEMMA WorkStarts ==
  ASSUME OneOfEach, OneStory, NEW p \in Procs, copy[p] = NoCopy,
         NEW c \in Cycles, \A q \in Procs : copy[q].cycle # c,
         About(c), OthersWait(p), rows' = rows, copy'[p].cycle = c, HandlerOK(p)',
         stuck' = stuck, \A r \in Runners : due'[r] \subseteq due[r],
         p \in Runners => c \notin due'[p]
  PROVE  Story'
<1>1. \A q \in Procs : HandlerOK(q)'
  BY OthersOK DEF About, OthersWait
<1>2. \A d \in Cycles : RowOK(d)'
  <2>1. \A q \in Procs : copy'[q].cycle = copy[q].cycle
                         \/ {copy[q].cycle, copy'[q].cycle} \subseteq {c, None}
    BY DEF OthersWait, NoCopy
  <2>2. \A d \in Cycles : d # c => RowOK(d)'
    BY <2>1, OtherRowsOK DEF About
  <2>3. RowOK(c)'
    BY DEF RowOK
  <2> QED
    BY <2>2, <2>3
<1>3. \A r \in Runners : ListsOK(r)'
  <2> SUFFICES ASSUME NEW r \in Runners PROVE ListsOK(r)'
    OBVIOUS
  <2>1. \A d \in due'[r] : copy'[r].cycle # d
    BY DEF OneStory, Story, ListsOK, OthersWait, Procs
  <2> QED
    BY <2>1, ListsKept
<1> QED
  BY <1>1, <1>2, <1>3 DEF Story

\* ... and is done with it at once, but for saving.
LEMMA ConcludesAtOnce ==
  ASSUME OneOfEach, OneStory, NEW p \in Procs, copy[p] = NoCopy,
         NEW c \in Cycles, \A q \in Procs : copy[q].cycle # c,
         NEW object, object.cycle = c, object.state \in Outcomes(p), Concludes(p, object),
         Tells(reservations', transfers', c, object), RowBehind(p, object, rows[c]),
         About(c), rows' = rows, stuck' = stuck, \A r \in Runners : due'[r] \subseteq due[r],
         p \in Runners => c \notin due'[p]
  PROVE  Story'
<1>1. copy'[p] = object /\ pc'[p] = "saving" /\ OthersWait(p)
  BY ConcludesOnly DEF OneStory
<1>2. HandlerOK(p)'
  BY <1>1 DEF HandlerOK, Works, Outcomes
<1> QED
  BY <1>1, <1>2, WorkStarts

\* ... or sends for it under its one reservation.
LEMMA SendStarts ==
  ASSUME OneOfEach, OneStory, NEW p \in Procs, copy[p] = NoCopy,
         NEW c \in Cycles, \A q \in Procs : copy[q].cycle # c,
         NEW i, NEW t, StartTransfer(p, c, i, t),
         Only(reservations', c, i, {"RESERVED"}), Without(transfers, c),
         \A d : d # c => Same(reservations, reservations', d),
         rows[c].hash = None,
         p \in Runners => rows[c].state = "PENDING_QUOTE" /\ rows[c].reservation = None,
         p \in Clients => rows[c].state = "REQUIRES_APPROVAL" /\ rows[c].reservation = i,
         rows' = rows, stuck' = stuck, \A r \in Runners : due'[r] \subseteq due[r],
         p \in Runners => c \notin due'[p]
  PROVE  Story'
<1>1. /\ copy'[p] = [cycle |-> c, state |-> "EXECUTING", reservation |-> i, hash |-> None]
      /\ pc'[p] = "sending" /\ request'[p] = t /\ OthersWait(p)
  BY DEF StartTransfer, OneStory, TypeOK, OthersWait
<1>2. /\ \A d : d # c => Same(transfers, transfers', d)
      /\ Sends(transfers', c, i, t, {"REQUESTED"})
  BY StartOnly
<1>3. Sends(transfers', c, i, t, {"REQUESTED", "REJECTED"} \cup Answered)
  BY <1>2 DEF Sends, Only
<1>4. About(c)
  BY <1>2 DEF About
<1>5. HandlerOK(p)'
  BY <1>1, <1>3 DEF HandlerOK, Works, RowBehind
<1> QED
  BY <1>1, <1>4, <1>5, WorkStarts

\* A due cycle is nobody's yet, and nothing was done for it.
LEMMA DueIsFresh ==
  ASSUME OneOfEach, OneStory, NEW r \in Runners, NEW c \in due[r], pc[r] = "batch"
  PROVE  /\ copy[r] = NoCopy /\ c \in Cycles
         /\ \A q \in Procs : copy[q].cycle # c
         /\ rows[c].state = "PENDING_QUOTE" /\ rows[c].reservation = None /\ rows[c].hash = None
         /\ Without(reservations, c) /\ Without(transfers, c)
<1>1. copy[r] = NoCopy /\ c \in Cycles /\ rows[c].state = "PENDING_QUOTE"
  BY IdleAlone DEF OneStory, Story, ListsOK, TypeOK, Procs
<1>2. \A q \in Procs : copy[q].cycle # c
  <2> SUFFICES ASSUME NEW q \in Procs, copy[q].cycle = c PROVE FALSE
    OBVIOUS
  <2>1. NoCopy.cycle # c
    BY <1>1, CyclesAssumption DEF NoCopy
  <2>2. RowBehind(q, copy[q], rows[c])
    BY <2>1 DEF OneStory, Story, HandlerOK
  <2>3. q \in Clients
    BY <1>1, <2>1 DEF OneOfEach, Procs
  <2> QED
    BY <1>1, <2>2, <2>3 DEF RowBehind
<1>3. Tells(reservations, transfers, c, rows[c])
  BY <1>1, <1>2 DEF OneStory, Story, RowOK
<1> QED
  BY <1>1, <1>2, <1>3 DEF Tells, TellsUnsent, TellsSent

\* A cycle that waits for an answer is nobody's, holds its reservation and has
\* sent nothing.
LEMMA AnswerIsOpen ==
  ASSUME OneOfEach, OneStory, NEW u \in Clients, NEW c \in Cycles, pc[u] = "idle",
         rows[c].state = "REQUIRES_APPROVAL"
  PROVE  /\ copy[u] = NoCopy
         /\ \A q \in Procs : copy[q].cycle # c
         /\ rows[c].hash = None
         /\ Only(reservations, c, rows[c].reservation, {"RESERVED"}) /\ Without(transfers, c)
         /\ \A r \in Runners : c \notin due[r]
<1>1. copy[u] = NoCopy
  BY IdleAlone DEF Procs
<1>2. \A q \in Procs : copy[q].cycle # c
  <2> SUFFICES ASSUME NEW q \in Procs, copy[q].cycle = c PROVE FALSE
    OBVIOUS
  <2>1. NoCopy.cycle # c
    BY CyclesAssumption DEF NoCopy
  <2>2. RowBehind(q, copy[q], rows[c])
    BY <2>1 DEF OneStory, Story, HandlerOK
  <2>3. q \in Runners
    BY <1>1, <2>1 DEF OneOfEach, Procs
  <2> QED
    BY <2>2, <2>3 DEF RowBehind
<1>3. Tells(reservations, transfers, c, rows[c])
  BY <1>2 DEF OneStory, Story, RowOK
<1>4. \A r \in Runners : c \notin due[r]
  BY NotListed
<1> QED
  BY <1>1, <1>2, <1>3, <1>4 DEF Tells, TellsUnsent, TellsSent

\* What NextDue() leaves of a run's list.
LEMMA NextDueOnly ==
  ASSUME TypeOK, NEW r \in Runners, NEW c, NextDue(r, c)
  PROVE  c \notin due'[r] /\ \A q \in Runners : due'[q] \subseteq due[q]
  BY DEF NextDue, TypeOK

\* A due cycle is skipped before anything is reserved.
LEMMA SkipDueOK ==
  ASSUME OneOfEach, OneStory, NEW r \in Runners, NEW c \in due[r],
         SkipUnfunded(r, c) \/ SkipUnreserved(r, c)
  PROVE  Story'
<1> DEFINE new == [Listed(c) EXCEPT !.state = "SKIPPED"]
<1>1. /\ NextDue(r, c) /\ Concludes(r, new)
      /\ UNCHANGED <<reservations, transfers, rows, stuck>>
  BY DEF SkipUnfunded, SkipUnreserved, Skips, RefuseReserve, storeVars, worldVars
<1>2. new.cycle = c /\ new.state = "SKIPPED" /\ new.reservation = None /\ new.hash = None
  BY DEF Listed
<1>3. /\ copy[r] = NoCopy /\ c \in Cycles
      /\ \A q \in Procs : copy[q].cycle # c
      /\ rows[c].state = "PENDING_QUOTE" /\ rows[c].reservation = None /\ rows[c].hash = None
      /\ Without(reservations, c) /\ Without(transfers, c)
  BY <1>1, DueIsFresh DEF NextDue
<1> HIDE DEF new
<1>4. Tells(reservations', transfers', c, new)
  BY <1>1, <1>2, <1>3 DEF Tells, TellsUnsent
<1>5. r \in Procs /\ r \notin Clients
  BY CyclesAssumption DEF Procs
<1>6. RowBehind(r, new, rows[c]) /\ new.state \in Outcomes(r)
  BY <1>2, <1>3, <1>5 DEF RowBehind, Outcomes
<1>7. About(c)
  BY <1>1 DEF About, Same
<1>8. c \notin due'[r] /\ \A q \in Runners : due'[q] \subseteq due[q]
  BY <1>1, NextDueOnly DEF OneStory
<1> QED
  BY <1>1, <1>2, <1>3, <1>4, <1>5, <1>6, <1>7, <1>8, ConcludesAtOnce

\* A quote waits for approval under its new reservation.
LEMMA AskApprovalOK ==
  ASSUME OneOfEach, OneStory, NEW r \in Runners, NEW c \in due[r], AskApproval(r, c)
  PROVE  Story'
<1>1. PICK price \in Prices, i \in ReservationIds :
        /\ Reserve(i, c, asOf[r].period, Cost(price))
        /\ Concludes(r, [Listed(c) EXCEPT !.state = "REQUIRES_APPROVAL", !.reservation = i])
  BY DEF AskApproval
<1> DEFINE new == [Listed(c) EXCEPT !.state = "REQUIRES_APPROVAL", !.reservation = i]
<1>2. NextDue(r, c) /\ UNCHANGED <<transfers, rows, stuck>> /\ Concludes(r, new)
  BY <1>1 DEF AskApproval, worldVars
<1>3. new.cycle = c /\ new.state = "REQUIRES_APPROVAL" /\ new.reservation = i /\ new.hash = None
  BY DEF Listed
<1>4. /\ copy[r] = NoCopy /\ c \in Cycles
      /\ \A q \in Procs : copy[q].cycle # c
      /\ rows[c].state = "PENDING_QUOTE" /\ rows[c].reservation = None /\ rows[c].hash = None
      /\ Without(reservations, c) /\ Without(transfers, c)
  BY <1>2, DueIsFresh DEF NextDue
<1> HIDE DEF new
<1>5. /\ \A d : d # c => Same(reservations, reservations', d)
      /\ Only(reservations', c, i, {"RESERVED"})
  BY <1>1, <1>4, ReserveOnly
<1>6. Tells(reservations', transfers', c, new)
  BY <1>2, <1>3, <1>4, <1>5 DEF Tells, TellsUnsent
<1>7. r \in Procs /\ r \notin Clients
  BY CyclesAssumption DEF Procs
<1>8. RowBehind(r, new, rows[c]) /\ new.state \in Outcomes(r)
  BY <1>3, <1>4, <1>7 DEF RowBehind, Outcomes
<1>9. About(c)
  BY <1>2, <1>5 DEF About, Same
<1>10. c \notin due'[r] /\ \A q \in Runners : due'[q] \subseteq due[q]
  BY <1>2, NextDueOnly DEF OneStory
<1> QED
  BY <1>2, <1>3, <1>4, <1>6, <1>7, <1>8, <1>9, <1>10, ConcludesAtOnce

\* A quote within the limits is sent for under its new reservation.
LEMMA AutoApproveOK ==
  ASSUME OneOfEach, OneStory, NEW r \in Runners, NEW c \in due[r], AutoApprove(r, c)
  PROVE  Story'
<1>1. PICK price \in Prices, i \in ReservationIds, t \in TransferIds :
        Reserve(i, c, asOf[r].period, Cost(price)) /\ StartTransfer(r, c, i, t)
  BY DEF AutoApprove
<1>2. NextDue(r, c) /\ UNCHANGED <<rows, stuck>>
  BY DEF AutoApprove
<1>3. /\ copy[r] = NoCopy /\ c \in Cycles
      /\ \A q \in Procs : copy[q].cycle # c
      /\ rows[c].state = "PENDING_QUOTE" /\ rows[c].reservation = None /\ rows[c].hash = None
      /\ Without(reservations, c) /\ Without(transfers, c)
  BY <1>2, DueIsFresh DEF NextDue
<1>4. /\ \A d : d # c => Same(reservations, reservations', d)
      /\ Only(reservations', c, i, {"RESERVED"})
  BY <1>1, <1>3, ReserveOnly
<1>5. r \in Procs /\ r \notin Clients
  BY CyclesAssumption DEF Procs
<1>6. c \notin due'[r] /\ \A q \in Runners : due'[q] \subseteq due[q]
  BY <1>2, NextDueOnly DEF OneStory
<1> QED
  BY <1>1, <1>2, <1>3, <1>4, <1>5, <1>6, SendStarts

\* An approval in time sends under the reservation of the row; one too late
\* gives it back.
LEMMA ApproveOK ==
  ASSUME OneOfEach, OneStory, NEW u \in Clients, NEW c \in Cycles,
         Approve(u, c) \/ ApproveLapsed(u, c)
  PROVE  Story'
<1> DEFINE i == rows[c].reservation
<1>1. /\ pc[u] = "idle" /\ rows[c].state = "REQUIRES_APPROVAL"
      /\ UNCHANGED <<rows, stuck, due>>
  BY DEF Approve, ApproveLapsed, Answerable
<1>2. /\ copy[u] = NoCopy
      /\ \A q \in Procs : copy[q].cycle # c
      /\ rows[c].hash = None
      /\ Only(reservations, c, i, {"RESERVED"}) /\ Without(transfers, c)
  BY <1>1, AnswerIsOpen
<1>3. u \in Procs /\ u \notin Runners
  BY CyclesAssumption DEF Procs
<1>4. CASE Approve(u, c)
  <2>1. PICK t : StartTransfer(u, c, i, t)
    BY <1>4 DEF Approve
  <2>2. UNCHANGED reservations
    BY <1>4 DEF Approve, storeVars
  <2>3. \A d : d # c => Same(reservations, reservations', d)
    BY <2>2 DEF Same
  <2> QED
    BY <1>1, <1>2, <1>3, <2>1, <2>2, <2>3, SendStarts
<1>5. CASE ApproveLapsed(u, c)
  <2> DEFINE new == [CopyOf(c) EXCEPT !.state = "EXPIRED"]
  <2>1. Release(i) /\ Concludes(u, new) /\ UNCHANGED transfers
    BY <1>5 DEF ApproveLapsed, worldVars
  <2>2. new.cycle = c /\ new.state = "EXPIRED" /\ new.reservation = i /\ new.hash = None
    BY <1>2 DEF CopyOf
  <2> HIDE DEF new
  <2>3. /\ \A d : d # c => Same(reservations, reservations', d)
        /\ Only(reservations', c, i, {"RELEASED"})
    BY <1>2, <2>1, SettleOnly DEF OneStory
  <2>4. Tells(reservations', transfers', c, new)
    BY <1>2, <2>1, <2>2, <2>3 DEF Tells, TellsUnsent
  <2>5. RowBehind(u, new, rows[c]) /\ new.state \in Outcomes(u)
    BY <1>1, <1>2, <1>3, <2>2 DEF RowBehind, Outcomes
  <2>6. About(c)
    BY <1>1, <2>1, <2>3 DEF About, Same
  <2> QED
    BY <1>1, <1>2, <1>3, <2>1, <2>2, <2>4, <2>5, <2>6, ConcludesAtOnce
<1> QED
  BY <1>4, <1>5

\* The user skips: the reservation is given back and the row closed at once.
LEMMA SkipOK ==
  ASSUME OneOfEach, OneStory, NEW u \in Clients, NEW c \in Cycles, Skip(u, c)
  PROVE  Story'
<1> DEFINE i == rows[c].reservation
           new == [CopyOf(c) EXCEPT !.state = "SKIPPED"]
<1>1. /\ pc[u] = "idle" /\ rows[c].state = "REQUIRES_APPROVAL"
      /\ Release(i) /\ saveCycle(new)
      /\ UNCHANGED <<transfers, pc, copy, request, stuck, due>>
  BY DEF Skip, worldVars, localVars
<1>2. /\ \A q \in Procs : copy[q].cycle # c
      /\ rows[c].hash = None
      /\ Only(reservations, c, i, {"RESERVED"}) /\ Without(transfers, c)
      /\ \A r \in Runners : c \notin due[r]
  BY <1>1, AnswerIsOpen
<1>3. new.cycle = c /\ new.state = "SKIPPED" /\ new.reservation = i /\ new.hash = None
  BY <1>2 DEF CopyOf
<1> HIDE DEF new
<1>4. /\ \A d : d # c => Same(reservations, reservations', d)
      /\ Only(reservations', c, i, {"RELEASED"})
  BY <1>1, <1>2, SettleOnly DEF OneStory
<1>5. /\ \A d \in Cycles : d # c => rows'[d] = rows[d]
      /\ rows'[c].state = new.state /\ rows'[c].reservation = new.reservation
      /\ rows'[c].hash = new.hash
  BY <1>1, <1>3, SaveOnly DEF OneStory
<1>6. Tells(reservations', transfers', c, rows'[c])
  BY <1>1, <1>2, <1>3, <1>4, <1>5 DEF Tells, TellsUnsent
<1>7. About(c)
  BY <1>1, <1>4, <1>5 DEF About, Same
<1>8. \A q \in Procs : HandlerOK(q)'
  BY <1>1, <1>2, <1>7, OthersOK DEF About
<1>9. \A d \in Cycles : RowOK(d)'
  <2>1. \A d \in Cycles : d # c => RowOK(d)'
    BY <1>1, <1>7, OtherRowsOK DEF About
  <2> QED
    BY <1>6, <2>1 DEF RowOK
<1>10. \A r \in Runners : ListsOK(r)'
  <2> SUFFICES ASSUME NEW r \in Runners PROVE ListsOK(r)'
    OBVIOUS
  <2>1. \A s \in stuck[r] : s.cycle \in Cycles /\ s.cycle # c
    BY <1>2, NotListed DEF OneStory, Story, ListsOK
  <2>2. due[r] \subseteq Cycles /\ \A d \in due[r] : copy[r].cycle # d
    BY DEF OneStory, Story, ListsOK, TypeOK
  <2> QED
    BY <1>1, <1>2, <1>5, <2>1, <2>2, ListsKept
<1> QED
  BY <1>8, <1>9, <1>10 DEF Story

-----------------------------------------------------------------------------
(* The wallet service and the chain. *)

\* Transfers move on, and what is said of them stays true.
LEMMA MovesTell ==
  ASSUME NEW T, NEW U, DOMAIN U = DOMAIN T,
         \A x \in DOMAIN T :
           /\ U[x].cycle = T[x].cycle /\ U[x].reservation = T[x].reservation
           /\ \/ U[x].status = T[x].status
              \/ T[x].status = "REQUESTED" /\ U[x].status \in {"REJECTED", "BROADCAST"}
              \/ T[x].status = "BROADCAST" /\ U[x].status \in {"LANDED", "REVERTED"},
         NEW R
  PROVE  /\ \A c, o : Tells(R, T, c, o) => Tells(R, U, c, o)
         /\ \A p, at, o, t : Works(R, T, p, at, o, t) => Works(R, U, p, at, o, t)
<1>1. \A c, i, x : Sends(T, c, i, x, {"LANDED"}) => Sends(U, c, i, x, {"LANDED"})
  BY DEF Sends, Only
<1>2. \A c, i, x : Sends(T, c, i, x, {"REJECTED", "REVERTED"})
                     => Sends(U, c, i, x, {"REJECTED", "REVERTED"})
  BY DEF Sends, Only
<1>3. \A c, i, x : Sends(T, c, i, x, Answered) => Sends(U, c, i, x, Answered)
  BY DEF Sends, Only, Answered
<1>4. \A c, i, x : Sends(T, c, i, x, {"REQUESTED", "REJECTED"} \cup Answered)
                     => Sends(U, c, i, x, {"REQUESTED", "REJECTED"} \cup Answered)
  BY DEF Sends, Only, Answered
<1>5. \A c : Without(T, c) => Without(U, c)
  BY DEF Without
<1>6. \A c, o : TellsSent(R, T, c, o) => TellsSent(R, U, c, o)
  BY <1>1, <1>2, <1>3 DEF TellsSent
<1>7. \A c, o : Tells(R, T, c, o) => Tells(R, U, c, o)
  BY <1>5, <1>6 DEF Tells, TellsUnsent
<1>8. \A p, at, o, t : Works(R, T, p, at, o, t) => Works(R, U, p, at, o, t)
  BY <1>4, <1>6, <1>7 DEF Works
<1> QED
  BY <1>7, <1>8

\* Time, the user's stop, the wallet service and the chain.
LEMMA EnvironmentOK ==
  ASSUME OneStory, Environment
  PROVE  Story'
<1>1. CASE UNCHANGED <<reservations, transfers, rows, localVars>>
  <2>1. /\ UNCHANGED <<reservations, transfers, rows, copy, request, pc, stuck, due>>
    BY <1>1 DEF localVars
  <2> QED
    BY <2>1, ShrinkOK
<1>2. ASSUME NEW t \in DOMAIN transfers,
             Rejected(t) \/ Broadcast(t) \/ Landed(t) \/ Reverted(t)
      PROVE  Story'
  <2>1. /\ UNCHANGED <<reservations, rows, pc, copy, request, stuck, due>>
        /\ DOMAIN transfers' = DOMAIN transfers
    BY <1>2 DEF Rejected, Broadcast, Landed, Reverted, TransferMoves, storeVars, localVars
  <2>2. \A x \in DOMAIN transfers :
          /\ transfers'[x].cycle = transfers[x].cycle
          /\ transfers'[x].reservation = transfers[x].reservation
          /\ \/ transfers'[x].status = transfers[x].status
             \/ transfers[x].status = "REQUESTED" /\ transfers'[x].status \in {"REJECTED", "BROADCAST"}
             \/ transfers[x].status = "BROADCAST" /\ transfers'[x].status \in {"LANDED", "REVERTED"}
    BY <1>2 DEF Rejected, Broadcast, Landed, Reverted, TransferMoves, OneStory, TypeOK, Transfer
  <2>3. /\ \A c, o : Tells(reservations, transfers, c, o) => Tells(reservations, transfers', c, o)
        /\ \A p, at, o, x : Works(reservations, transfers, p, at, o, x)
                              => Works(reservations, transfers', p, at, o, x)
    BY <2>1, <2>2, MovesTell
  <2>4. \A q \in Procs : HandlerOK(q)'
    BY <2>1, <2>3 DEF OneStory, Story, HandlerOK, Idles
  <2>5. \A c \in Cycles : RowOK(c)'
    BY <2>1, <2>3 DEF OneStory, Story, RowOK
  <2>6. \A r \in Runners : ListsOK(r)'
    BY <2>1, ListsKept DEF OneStory, Story, ListsOK
  <2> QED
    BY <2>4, <2>5, <2>6 DEF Story
<1> QED
  BY <1>1, <1>2 DEF Environment, DueDatePasses, QuoteLapses, MonthEnds, KillSwitch, LinkWallet,
                    storeVars

-----------------------------------------------------------------------------
(* The story holds. *)

\* Nothing is told at the start.
LEMMA InitStory == Init => OneStory
<1> SUFFICES ASSUME Init PROVE OneStory
  OBVIOUS
<1>1. TypeOK
  BY InitType
<1>2. \A p \in Procs : HandlerOK(p)
  BY DEF Init, HandlerOK, Idles
<1>3. \A c \in Cycles : RowOK(c)
  BY DEF Init, StoreInit, RowOK, Tells, TellsUnsent, Without, NoRow
<1>4. \A r \in Runners : ListsOK(r)
  BY DEF Init, ListsOK
<1> QED
  BY <1>1, <1>2, <1>3, <1>4 DEF OneStory, Story

\* Every step keeps the story straight.
LEMMA StepStory ==
  ASSUME OneOfEach, OneStory, [Next]_vars
  PROVE  OneStory'
<1>1. TypeOK'
  BY StepType DEF OneStory
<1>2. Story'
  <2>1. CASE UNCHANGED vars
    <3>1. UNCHANGED <<reservations, transfers, rows, copy, request, pc, stuck, due>>
      BY <2>1 DEF vars, worldVars, localVars
    <3> QED
      BY <3>1, ShrinkOK
  <2>2. ASSUME NEW p \in Procs, Execution(p)
        PROVE  Story'
    <3>1. ~ResponseLost(p)
      BY DEF ResponseLost, OneOfEach, OneStory, TypeOK
    <3> QED
      BY <2>2, <3>1, SendRefusedOK, SendAcceptedOK, ReceiptOK, SaveOK DEF Execution
  <2>3. ASSUME NEW r \in Runners, Run(r)
        PROVE  Story'
    <3>1. ASSUME NEW c \in due[r], Decide(r, c)
          PROVE  Story'
      BY <3>1, QuietRunOK, SkipDueOK, AskApprovalOK, AutoApproveOK DEF Decide
    <3> QED
      BY <2>3, <3>1, StartRunOK, QuietRunOK, FinishStuckOK, ListDueOK DEF Run
  <2>4. ASSUME NEW u \in Clients, NEW c \in Cycles, Answer(u, c)
        PROVE  Story'
    BY <2>4, ApproveOK, SkipOK DEF Answer
  <2>5. CASE Environment
    BY <2>5, EnvironmentOK
  <2>6. ~Crash /\ \A r \in Runners : ~CrashInReconcile(r)
    BY DEF Crash, CrashInReconcile, LosesHandlers, OneOfEach, OneStory, TypeOK
  <2> QED
    BY <2>1, <2>2, <2>3, <2>4, <2>5, <2>6 DEF Next
<1> QED
  BY <1>1, <1>2 DEF OneStory

\* The rows, the ledger, the chain and the handlers' objects tell one story at
\* every moment.
THEOREM StoryHolds ==
  ASSUME OneOfEach
  PROVE  Spec => []OneStory
<1>1. Init => OneStory
  BY InitStory
<1>2. OneStory /\ [Next]_vars => OneStory'
  BY StepStory
<1> QED
  BY <1>1, <1>2, PTL DEF Spec

-----------------------------------------------------------------------------
(* What follows at every moment. *)

\* Of every cycle a row or a handler's object tells all: either what is done and
\* closed in it, or that the one transfer under its one reservation is awaited.
LEMMA AllTold ==
  ASSUME OneStory, NEW c \in Cycles
  PROVE  \/ (\A p \in Procs : copy[p].cycle # c) /\ Tells(reservations, transfers, c, rows[c])
         \/ \E p \in Procs : copy[p].cycle = c /\ Tells(reservations, transfers, c, copy[p])
         \/ \E p \in Procs : /\ copy[p].cycle = c
                             /\ Only(reservations, c, copy[p].reservation, {"RESERVED"})
                             /\ \E S : Sends(transfers, c, copy[p].reservation, request[p], S)
<1>1. CASE \A p \in Procs : copy[p].cycle # c
  BY <1>1 DEF OneStory, Story, RowOK
<1>2. ASSUME NEW p \in Procs, copy[p].cycle = c
      PROVE  \/ Tells(reservations, transfers, c, copy[p])
             \/ /\ Only(reservations, c, copy[p].reservation, {"RESERVED"})
                /\ \E S : Sends(transfers, c, copy[p].reservation, request[p], S)
  <2>1. NoCopy.cycle # c
    BY CyclesAssumption DEF NoCopy
  <2>2. Works(reservations, transfers, p, pc[p], copy[p], request[p])
    BY <1>2, <2>1 DEF OneStory, Story, HandlerOK
  <2> QED
    BY <1>2, <2>2 DEF Works, Tells
<1> QED
  BY <1>1, <1>2

\* A cycle whose row is closed, or waits with a hash, is nobody's.
LEMMA ClosedIsTold ==
  ASSUME OneStory, NEW c \in Cycles,
         rows[c].state \notin {"PENDING_QUOTE", "REQUIRES_APPROVAL"}
  PROVE  (\A p \in Procs : copy[p].cycle # c) /\ Tells(reservations, transfers, c, rows[c])
<1>1. ASSUME NEW p \in Procs, copy[p].cycle = c PROVE FALSE
  <2>1. NoCopy.cycle # c
    BY CyclesAssumption DEF NoCopy
  <2>2. RowBehind(p, copy[p], rows[c])
    BY <1>1, <2>1 DEF OneStory, Story, HandlerOK
  <2> QED
    BY <2>2 DEF RowBehind, Procs
<1> QED
  BY <1>1 DEF OneStory, Story, RowOK

\* A cycle never has two transfers, in play or not.
LEMMA OneTransfer ==
  ASSUME OneStory, NEW t \in DOMAIN transfers, NEW u \in DOMAIN transfers,
         transfers[t].cycle = transfers[u].cycle
  PROVE  t = u
<1> DEFINE c == transfers[t].cycle
<1>1. c \in Cycles
  BY DEF OneStory, TypeOK, Transfer
<1>2. ASSUME NEW o, Tells(reservations, transfers, c, o)
      PROVE  t = u
  BY <1>2 DEF Tells, TellsUnsent, TellsSent, Sends, Only, Without
<1>3. ASSUME NEW i, NEW v, NEW S, Sends(transfers, c, i, v, S)
      PROVE  t = u
  BY <1>3 DEF Sends, Only
<1> QED
  BY <1>1, <1>2, <1>3, AllTold

\* With user approvals too, no cycle is ever paid twice, if there is one
\* scheduler and one client (reservation.ts:25-37, quoteEngine.ts:156-173).
THEOREM OneTransferWithApprovals ==
  ASSUME OneOfEach
  PROVE  Spec => []AtMostOneTransfer
<1>1. OneStory => AtMostOneTransfer
  BY OneTransfer DEF AtMostOneTransfer
<1> QED
  BY <1>1, StoryHolds, PTL

\* A row that tells the user nothing was paid tells the truth
\* (decisionLoop.ts:41-85, quoteEngine.ts:118-141).
THEOREM RowsTellTheTruth ==
  ASSUME OneOfEach
  PROVE  Spec => []UnpaidMeansUnpaid
<1>1. OneStory => UnpaidMeansUnpaid
  <2> SUFFICES ASSUME OneStory, NEW c \in Cycles,
                      rows[c].state \in {"SKIPPED", "EXPIRED", "FAILED"},
                      NEW t \in DOMAIN transfers, transfers[t].cycle = c
               PROVE  ~InPlay(t)
    BY DEF UnpaidMeansUnpaid
  <2>1. Tells(reservations, transfers, c, rows[c])
    BY ClosedIsTold
  <2> QED
    BY <2>1 DEF Tells, TellsUnsent, TellsSent, Sends, Only, Without, InPlay
<1> QED
  BY <1>1, StoryHolds, PTL

\* No allowance is reserved for nobody (quoteEngine.ts:132-137).
THEOREM NoLostReservation ==
  ASSUME OneOfEach
  PROVE  Spec => []ReservationsReachable
<1>1. OneStory => ReservationsReachable
  <2> SUFFICES ASSUME OneStory, NEW i \in DOMAIN reservations,
                      reservations[i].status = "RESERVED",
                      NEW c, c = reservations[i].cycle
               PROVE  \/ \E p \in Procs : copy[p].cycle = c /\ copy[p].reservation = i
                      \/ rows[c].reservation = i /\ rows[c].state = "REQUIRES_APPROVAL"
                      \/ rows[c].reservation = i /\ rows[c].state = "EXECUTING" /\ rows[c].hash # None
    BY DEF ReservationsReachable
  <2>1. c \in Cycles
    BY DEF OneStory, TypeOK, StoreTypeOK, Reservation
  <2>2. \A j, S : Only(reservations, c, j, S) => j = i /\ "RESERVED" \in S
    BY DEF Only
  <2>3. ~Without(reservations, c)
    BY DEF Without
  <2>4. \A o : Tells(reservations, transfers, c, o) =>
          /\ o.reservation = i
          /\ \/ o.state = "REQUIRES_APPROVAL"
             \/ o.state = "EXECUTING" /\ o.hash \in DOMAIN transfers
    BY <2>2, <2>3 DEF Tells, TellsUnsent, TellsSent, Sends, Only
  <2>5. None \notin DOMAIN transfers
    BY CyclesAssumption DEF OneStory, TypeOK
  <2> QED
    BY <2>1, <2>2, <2>4, <2>5, AllTold
<1> QED
  BY <1>1, StoryHolds, PTL

-----------------------------------------------------------------------------
(* What no step may do. *)

\* The states reached by transitions grow with their number.
LEMMA OnwardGrows ==
  /\ \A S : S \subseteq Onward(S)
  /\ \A S, s, t : s \in S /\ t \in CycleStates /\ canTransition(s, t) => t \in Onward(S)
  BY DEF Onward

\* The transitions a handler makes between two saves.
LEMMA SavesReachable ==
  /\ \A s \in {"SKIPPED", "REQUIRES_APPROVAL", "EXECUTING", "SETTLED", "FAILED"} :
       Reachable("PENDING_QUOTE", s)
  /\ \A s \in {"SKIPPED", "EXPIRED", "EXECUTING", "SETTLED", "FAILED"} :
       Reachable("REQUIRES_APPROVAL", s)
  /\ \A s \in {"SETTLED", "FAILED"} : Reachable("EXECUTING", s)
<1>1. \A s, t : /\ s \in CycleStates /\ t \in CycleStates
                /\ \/ s = "PENDING_QUOTE" /\ t \in {"QUOTED", "SKIPPED"}
                   \/ s = "QUOTED" /\ t = "FUNDS_RESERVED"
                   \/ s = "FUNDS_RESERVED" /\ t \in {"AUTO_APPROVED", "REQUIRES_APPROVAL"}
                   \/ s = "AUTO_APPROVED" /\ t = "EXECUTING"
                   \/ s = "REQUIRES_APPROVAL" /\ t \in {"AUTO_APPROVED", "SKIPPED", "EXPIRED"}
                   \/ s = "EXECUTING" /\ t \in {"SETTLED", "FAILED"}
                => canTransition(s, t)
  BY DEF canTransition, TRANSITIONS, CycleStates
<1>2. {"PENDING_QUOTE", "QUOTED", "FUNDS_RESERVED", "AUTO_APPROVED", "REQUIRES_APPROVAL",
       "EXECUTING", "SETTLED", "EXPIRED", "FAILED", "SKIPPED"} \subseteq CycleStates
  BY DEF CycleStates
<1> DEFINE A(s) == Onward({s})
           B(s) == Onward(A(s))
           C(s) == Onward(B(s))
           D(s) == Onward(C(s))
           E(s) == Onward(D(s))
<1>3. \A s : {s} \subseteq A(s) /\ A(s) \subseteq B(s) /\ B(s) \subseteq C(s)
             /\ C(s) \subseteq D(s) /\ D(s) \subseteq E(s)
  BY OnwardGrows
<1>4. {"SKIPPED", "REQUIRES_APPROVAL", "EXECUTING", "SETTLED", "FAILED"} \subseteq E("PENDING_QUOTE")
  <2>1. {"QUOTED", "SKIPPED"} \subseteq A("PENDING_QUOTE")
    BY <1>1, <1>2, OnwardGrows
  <2> HIDE DEF A
  <2>2. "FUNDS_RESERVED" \in B("PENDING_QUOTE")
    BY <1>1, <1>2, <2>1, OnwardGrows
  <2> HIDE DEF B
  <2>3. {"AUTO_APPROVED", "REQUIRES_APPROVAL"} \subseteq C("PENDING_QUOTE")
    BY <1>1, <1>2, <2>2, OnwardGrows
  <2> HIDE DEF C
  <2>4. "EXECUTING" \in D("PENDING_QUOTE")
    BY <1>1, <1>2, <2>3, OnwardGrows
  <2> HIDE DEF D
  <2>5. {"SETTLED", "FAILED"} \subseteq E("PENDING_QUOTE")
    BY <1>1, <1>2, <2>4, OnwardGrows
  <2> HIDE DEF E
  <2> QED
    BY <1>3, <2>1, <2>3, <2>4, <2>5
<1>5. {"SKIPPED", "EXPIRED", "EXECUTING", "SETTLED", "FAILED"} \subseteq E("REQUIRES_APPROVAL")
  <2>1. {"AUTO_APPROVED", "SKIPPED", "EXPIRED"} \subseteq A("REQUIRES_APPROVAL")
    BY <1>1, <1>2, OnwardGrows
  <2> HIDE DEF A
  <2>2. "EXECUTING" \in B("REQUIRES_APPROVAL")
    BY <1>1, <1>2, <2>1, OnwardGrows
  <2> HIDE DEF B
  <2>3. {"SETTLED", "FAILED"} \subseteq C("REQUIRES_APPROVAL")
    BY <1>1, <1>2, <2>2, OnwardGrows
  <2> HIDE DEF C, D, E
  <2> QED
    BY <1>3, <2>1, <2>2, <2>3
<1>6. {"SETTLED", "FAILED"} \subseteq E("EXECUTING")
  <2>1. {"SETTLED", "FAILED"} \subseteq A("EXECUTING")
    BY <1>1, <1>2, OnwardGrows
  <2> HIDE DEF A, B, C, D, E
  <2> QED
    BY <1>3, <2>1
<1> QED
  BY <1>4, <1>5, <1>6 DEF Reachable

\* The states that no transition leaves.
LEMMA TerminalStates ==
  ~isTerminal("PENDING_QUOTE") /\ ~isTerminal("REQUIRES_APPROVAL") /\ ~isTerminal("EXECUTING")
  BY DEF isTerminal, TRANSITIONS, CycleStates

\* Row c moves along the state machine and keeps what it holds.
Advances(c) ==
  /\ rows[c].state # "ABSENT" => /\ ~isTerminal(rows[c].state)
                                 /\ Reachable(rows[c].state, rows'[c].state)
  /\ rows[c].hash # None => rows'[c].hash = rows[c].hash
  /\ rows[c].reservation # None => rows'[c].reservation = rows[c].reservation

\* Every step that changes a row moves it along the edges.
LEMMA StepAdvances ==
  ASSUME OneOfEach, OneStory, Next, NEW c \in Cycles, rows'[c] # rows[c]
  PROVE  Advances(c)
<1>1. ASSUME NEW p \in Procs, Save(p)
      PROVE  Advances(c)
  <2> DEFINE o == copy[p]
  <2>1. /\ o.cycle \in Cycles /\ RowBehind(p, o, rows[o.cycle]) /\ o.state \in Outcomes(p)
    BY <1>1, AtWork DEF Save, Works
  <2>2. /\ c = o.cycle /\ rows'[c].state = o.state /\ rows'[c].reservation = o.reservation
    BY <1>1, <2>1, SaveOnly DEF Save, OneStory
  <2>3. CASE p \in Runners
    BY <2>1, <2>2, <2>3, SavesReachable, TerminalStates DEF RowBehind, Outcomes, Advances
  <2>4. CASE p \notin Runners
    BY <2>1, <2>2, <2>4, SavesReachable, TerminalStates DEF RowBehind, Outcomes, Advances, Procs
  <2> QED
    BY <2>3, <2>4
<1>2. ASSUME NEW r \in Runners, NEW s \in stuck[r], FinishStuck(r, s)
      PROVE  Advances(c)
  <2> DEFINE new == [s EXCEPT !.state = IF transfers[s.hash].status = "LANDED"
                                        THEN "SETTLED" ELSE "FAILED"]
  <2>1. s.cycle \in Cycles /\ s = CopyOf(s.cycle) /\ s.state = "EXECUTING" /\ s \in Copy
    BY DEF OneStory, Story, ListsOK, TypeOK
  <2>2. /\ new.cycle = s.cycle /\ new.reservation = s.reservation /\ new.hash = s.hash
        /\ new.state \in {"SETTLED", "FAILED"}
    BY <2>1 DEF Copy
  <2>3. saveCycle(new)
    BY <1>2 DEF FinishStuck
  <2> HIDE DEF new
  <2>4. /\ c = s.cycle /\ rows'[c].state = new.state
        /\ rows'[c].reservation = s.reservation /\ rows'[c].hash = s.hash
    BY <2>1, <2>2, <2>3, SaveOnly DEF OneStory
  <2>5. rows[c].state = "EXECUTING" /\ rows[c].reservation = s.reservation /\ rows[c].hash = s.hash
    BY <2>1, <2>4 DEF CopyOf
  <2> QED
    BY <2>2, <2>4, <2>5, SavesReachable, TerminalStates DEF Advances
<1>3. ASSUME NEW r \in Runners, ListDue(r)
      PROVE  Advances(c)
  BY <1>3 DEF ListDue, Generated, OneStory, TypeOK, Row, Advances
<1>4. ASSUME NEW u \in Clients, NEW d \in Cycles, Skip(u, d)
      PROVE  Advances(c)
  <2> DEFINE new == [CopyOf(d) EXCEPT !.state = "SKIPPED"]
  <2>1. /\ new.cycle = d /\ new.reservation = rows[d].reservation /\ new.hash = rows[d].hash
        /\ new.state = "SKIPPED"
    BY DEF CopyOf
  <2>2. saveCycle(new) /\ rows[d].state = "REQUIRES_APPROVAL"
    BY <1>4 DEF Skip
  <2> HIDE DEF new
  <2>3. /\ c = d /\ rows'[c].state = "SKIPPED" /\ rows'[c].reservation = rows[c].reservation
        /\ rows'[c].hash = rows[c].hash
    BY <2>1, <2>2, SaveOnly DEF OneStory
  <2> QED
    BY <2>2, <2>3, SavesReachable, TerminalStates DEF Advances
<1>5. ASSUME NEW p \in Procs, Execution(p), ~Save(p)
      PROVE  UNCHANGED rows
  BY <1>5 DEF Execution, SendRefused, ResponseLost, SendThrows, SendAccepted, ReceiptLanded,
              ReceiptReverted, ReceiptTimeout
<1>6. ASSUME NEW r \in Runners, Run(r), ~ListDue(r), ~\E s \in stuck[r] : FinishStuck(r, s)
      PROVE  UNCHANGED rows
  BY <1>6 DEF Run, StartRun, StillPending, Decide, LeaveDue, SkipUnfunded, SkipUnreserved,
              AskApproval, AutoApprove, AbortRun, EndRun
<1>7. ASSUME NEW u \in Clients, NEW d \in Cycles, Answer(u, d), ~Skip(u, d)
      PROVE  UNCHANGED rows
  BY <1>7 DEF Answer, Approve, ApproveLapsed
<1>8. ASSUME Environment \/ Crash \/ \E r \in Runners : CrashInReconcile(r)
      PROVE  UNCHANGED rows
  BY <1>8 DEF Environment, DueDatePasses, QuoteLapses, MonthEnds, KillSwitch, LinkWallet,
              Rejected, Broadcast, Landed, Reverted, TransferMoves, Crash, CrashInReconcile
<1> QED
  BY <1>1, <1>2, <1>3, <1>4, <1>5, <1>6, <1>7, <1>8 DEF Next

\* A closed cycle is never reopened or overwritten, and a hash or reservation
\* once saved is never replaced (cycleStateMachine.ts:3-7, types.ts:205-213).
THEOREM RowsAdvance ==
  ASSUME OneOfEach
  PROVE  Spec => RowsOnlyAdvance
<1>1. OneStory /\ [Next]_vars =>
        [\A c \in Cycles : rows'[c] # rows[c] =>
           /\ rows[c].state # "ABSENT" =>
                /\ ~isTerminal(rows[c].state)
                /\ Reachable(rows[c].state, rows'[c].state)
           /\ rows[c].hash # None => rows'[c].hash = rows[c].hash
           /\ rows[c].reservation # None => rows'[c].reservation = rows[c].reservation]_vars
  BY StepAdvances DEF Advances
<1> QED
  BY <1>1, StoryHolds, PTL DEF Spec, RowsOnlyAdvance

\* Only two steps send: a run's for a due row, and an approval.
LEMMA StepSends ==
  ASSUME OneOfEach, OneStory, Next, NEW t \in DOMAIN transfers' \ DOMAIN transfers
  PROVE  LET c == transfers'[t].cycle IN
         rows[c].state # "PENDING_QUOTE" =>
           rows[c].state = "REQUIRES_APPROVAL" /\ \E u \in Clients : request'[u] = t
<1>1. ASSUME NEW p \in Procs, NEW c, NEW i, NEW v, StartTransfer(p, c, i, v)
      PROVE  v = t /\ transfers'[t].cycle = c /\ request'[p] = t
  BY <1>1 DEF StartTransfer, Put, OneStory, TypeOK
<1>2. ASSUME NEW r \in Runners, NEW c \in due[r], AutoApprove(r, c)
      PROVE  rows[transfers'[t].cycle].state = "PENDING_QUOTE"
  <2>1. rows[c].state = "PENDING_QUOTE"
    BY <1>2, DueIsFresh DEF AutoApprove, NextDue
  <2> QED
    BY <1>1, <1>2, <2>1 DEF AutoApprove, Procs
<1>3. ASSUME NEW u \in Clients, NEW c \in Cycles, Approve(u, c)
      PROVE  rows[transfers'[t].cycle].state = "REQUIRES_APPROVAL" /\ request'[u] = t
  BY <1>1, <1>3 DEF Approve, Answerable, Procs
<1>4. ASSUME NEW p \in Procs, Execution(p)
      PROVE  UNCHANGED transfers
  BY <1>4 DEF Execution, SendRefused, ResponseLost, SendThrows, SendAccepted, ReceiptLanded,
              ReceiptReverted, ReceiptTimeout, Save, worldVars
<1>5. ASSUME NEW r \in Runners, Run(r), ~\E c \in due[r] : AutoApprove(r, c)
      PROVE  UNCHANGED transfers
  BY <1>5 DEF Run, StartRun, StillPending, FinishStuck, ListDue, Decide, LeaveDue, SkipUnfunded,
              SkipUnreserved, AskApproval, AbortRun, EndRun, worldVars
<1>6. ASSUME NEW u \in Clients, NEW c \in Cycles, Answer(u, c), ~Approve(u, c)
      PROVE  UNCHANGED transfers
  BY <1>6 DEF Answer, ApproveLapsed, Skip, worldVars
<1>7. ASSUME Environment \/ Crash \/ \E r \in Runners : CrashInReconcile(r)
      PROVE  DOMAIN transfers' = DOMAIN transfers
  BY <1>7 DEF Environment, DueDatePasses, QuoteLapses, MonthEnds, KillSwitch, LinkWallet,
              Rejected, Broadcast, Landed, Reverted, TransferMoves, Crash, CrashInReconcile,
              LosesHandlers
<1> QED
  BY <1>2, <1>3, <1>4, <1>5, <1>6, <1>7 DEF Next

\* What the user skipped, or has not answered yet, is never paid without an
\* approval (quoteEngine.ts:156-188).
THEOREM OnlyApprovedSent ==
  ASSUME OneOfEach
  PROVE  Spec => OnlyApprovedIsSent
<1>1. OneStory /\ [Next]_vars =>
        [\A t \in DOMAIN transfers' \ DOMAIN transfers :
           LET c == transfers'[t].cycle IN
           rows[c].state # "PENDING_QUOTE" =>
             rows[c].state = "REQUIRES_APPROVAL" /\ \E u \in Clients : request'[u] = t]_vars
  BY StepSends
<1> QED
  BY <1>1, StoryHolds, PTL DEF Spec, OnlyApprovedIsSent

-----------------------------------------------------------------------------
(* The ledger is called as its contract asks. *)

\* Every step is a call of the ledger that its contract allows, or none.
LEMMA StepCallsLedger ==
  ASSUME OneOfEach, OneStory, [Next]_vars
  PROVE  [StoreNext]_storeVars
<1>1. ASSUME NEW c \in Cycles, NEW i, NEW S, Only(reservations, c, i, {"RESERVED"}),
             Settle(i) \/ Release(i)
      PROVE  StoreNext
  BY <1>1 DEF Only, StoreNext
<1>2. ASSUME NEW p \in Procs, Execution(p)
      PROVE  [StoreNext]_storeVars
  <2>1. CASE SendRefused(p) \/ ReceiptLanded(p) \/ ReceiptReverted(p)
    <3>1. copy[p].cycle \in Cycles
          /\ Only(reservations, copy[p].cycle, copy[p].reservation, {"RESERVED"})
      BY <2>1, AtWork DEF SendRefused, ReceiptLanded, ReceiptReverted, Works, TellsSent
    <3> QED
      BY <1>1, <2>1, <3>1 DEF SendRefused, SendThrows, ReceiptLanded, ReceiptReverted
  <2>2. ~ResponseLost(p)
    BY DEF ResponseLost, OneOfEach, OneStory, TypeOK
  <2> QED
    BY <1>2, <2>1, <2>2 DEF Execution, SendAccepted, ReceiptTimeout, Save
<1>3. ASSUME NEW r \in Runners, NEW s \in stuck[r], FinishStuck(r, s)
      PROVE  StoreNext
  <2>1. s.cycle \in Cycles /\ s = CopyOf(s.cycle) /\ s.state = "EXECUTING"
    BY DEF OneStory, Story, ListsOK
  <2>2. Tells(reservations, transfers, s.cycle, rows[s.cycle])
        /\ rows[s.cycle].state = "EXECUTING" /\ rows[s.cycle].reservation = s.reservation
    BY <2>1, ClosedIsTold DEF CopyOf
  <2>3. Only(reservations, s.cycle, s.reservation, {"RESERVED"})
    BY <2>2 DEF Tells, TellsUnsent, TellsSent
  <2> QED
    BY <1>1, <1>3, <2>1, <2>3 DEF FinishStuck, Finished
<1>4. ASSUME NEW r \in Runners, NEW c \in due[r], Decide(r, c)
      PROVE  [StoreNext]_storeVars
  <2>1. c \in Cycles /\ asOf[r].period \in Periods
    BY DEF OneStory, TypeOK, Clock
  <2>2. \A price \in Prices : Cost(price) \in Amounts
    BY CostType
  <2>3. CASE SkipUnreserved(r, c) \/ AskApproval(r, c) \/ AutoApprove(r, c)
    BY <2>1, <2>2, <2>3 DEF SkipUnreserved, AskApproval, AutoApprove, StoreNext
  <2> QED
    BY <1>4, <2>3 DEF Decide, LeaveDue, SkipUnfunded
<1>5. ASSUME NEW u \in Clients, NEW c \in Cycles, Answer(u, c)
      PROVE  [StoreNext]_storeVars
  <2>1. CASE ApproveLapsed(u, c) \/ Skip(u, c)
    <3>1. Only(reservations, c, rows[c].reservation, {"RESERVED"})
      BY <2>1, AnswerIsOpen DEF ApproveLapsed, Answerable, Skip
    <3> QED
      BY <1>1, <2>1, <3>1 DEF ApproveLapsed, Skip
  <2> QED
    BY <1>5, <2>1 DEF Answer, Approve
<1>6. ASSUME NEW r \in Runners, Run(r)
      PROVE  [StoreNext]_storeVars
  BY <1>3, <1>4, <1>6 DEF Run, StartRun, StillPending, ListDue, AbortRun, EndRun
<1>7. CASE Environment
  BY <1>7 DEF Environment, DueDatePasses, QuoteLapses, MonthEnds, KillSwitch, LinkWallet,
              Rejected, Broadcast, Landed, Reverted, TransferMoves
<1>8. ~Crash /\ \A r \in Runners : ~CrashInReconcile(r)
  BY DEF Crash, CrashInReconcile, LosesHandlers, OneOfEach, OneStory, TypeOK
<1>9. CASE UNCHANGED vars
  BY <1>9 DEF vars, storeVars
<1> QED
  BY <1>2, <1>5, <1>6, <1>7, <1>8, <1>9 DEF Next

\* Every call the scheduler and the routes make finishes a RESERVED reservation,
\* and each only once: settle() and release() do not check, the callers do it.
THEOREM LedgerIsCalledWell ==
  ASSUME OneOfEach
  PROVE  Spec => StoreSpec
<1>1. Init => StoreInit
  BY DEF Init
<1>2. OneStory /\ [Next]_vars => [StoreNext]_storeVars
  BY StepCallsLedger
<1> QED
  BY <1>1, <1>2, StoryHolds, PTL DEF Spec, StoreSpec

\* So the SQL tables behave as the in-memory store does in the whole system too
\* (sqliteCapStore.ts:4-5).
THEOREM ContractInUse ==
  ASSUME OneOfEach
  PROVE  Spec => CapStoreContract
  BY LedgerIsCalledWell, StoreImplementsContract, PTL

\* And the two counters of a month stay the sums they stand for
\* (sqliteCapStore.ts:47-116).
THEOREM LedgerExactInUse ==
  ASSUME OneOfEach
  PROVE  Spec => []LedgerExact
  BY LedgerIsCalledWell, CountersExact, PTL

-----------------------------------------------------------------------------
(* What leaves the wallet. *)

\* What a transfer is sent for is reserved for its cycle, and booked as long as
\* it may still land.
LEMMA SentIsCounted ==
  ASSUME OneStory, NEW t \in DOMAIN transfers, InPlay(t)
  PROVE  LET i == transfers[t].reservation IN
         /\ i \in DOMAIN reservations /\ reservations[i].cycle = transfers[t].cycle
         /\ reservations[i].status \in {"RESERVED", "SETTLED"}
<1> DEFINE c == transfers[t].cycle
<1>1. c \in Cycles
  BY DEF OneStory, TypeOK, Transfer
<1>2. \A o : Tells(reservations, transfers, c, o) =>
        Only(reservations, c, transfers[t].reservation, {"RESERVED", "SETTLED"})
  BY DEF Tells, TellsUnsent, TellsSent, Sends, Only, Without, InPlay
<1>3. \A i, v, S : Only(reservations, c, i, {"RESERVED"}) /\ Sends(transfers, c, i, v, S) =>
        Only(reservations, c, transfers[t].reservation, {"RESERVED", "SETTLED"})
  BY DEF Sends, Only
<1>4. Only(reservations, c, transfers[t].reservation, {"RESERVED", "SETTLED"})
  BY <1>1, <1>2, <1>3, AllTold
<1> QED
  BY <1>4 DEF Only

\* The sum over transfers that PaidWithinCap speaks of, as a total.
LEMMA PaidTotal ==
  ASSUME NEW S, IsFiniteSet(S)
  PROVE  MapThenSumSet(LAMBDA t : reservations[transfers[t].reservation].amount, S)
           = Total([t \in S |-> reservations[transfers[t].reservation].amount], S)
<1> DEFINE f == [t \in S |-> reservations[transfers[t].reservation].amount]
           it == CHOOSE iter : iter = [s \in SUBSET S |->
                   IF s = {} THEN 0
                   ELSE reservations[transfers[chosen(s)].reservation].amount + iter[s \ {chosen(s)}]]
<1>1. MapThenSumSet(LAMBDA t : reservations[transfers[t].reservation].amount, S) = it[S]
  BY DEF MapThenSumSet, MapThenFoldSet, chosen
<1>2. \A s \in SUBSET S : s # {} => reservations[transfers[chosen(s)].reservation].amount = f[chosen(s)]
  BY DEF chosen
<1>3. \E jt : jt = [s \in SUBSET S |->
                IF s = {} THEN 0
                ELSE reservations[transfers[chosen(s)].reservation].amount + jt[s \ {chosen(s)}]]
  <2>1. PICK jt : Sums(f, SUBSET S, jt)
    BY SumExists
  <2>2. jt = [s \in SUBSET S |-> IF s = {} THEN 0 ELSE f[chosen(s)] + jt[s \ {chosen(s)}]]
    BY <2>1 DEF Sums
  <2>3. jt = [s \in SUBSET S |->
                IF s = {} THEN 0
                ELSE reservations[transfers[chosen(s)].reservation].amount + jt[s \ {chosen(s)}]]
    BY <1>2, <2>2
  <2> QED
    BY <2>3
<1>4. it = [s \in SUBSET S |->
              IF s = {} THEN 0
              ELSE reservations[transfers[chosen(s)].reservation].amount + it[s \ {chosen(s)}]]
  BY <1>3, Zenon
<1> HIDE DEF it, f
<1>5. it = [s \in SUBSET S |-> IF s = {} THEN 0 ELSE f[chosen(s)] + it[s \ {chosen(s)}]]
  BY <1>2, <1>4
<1>6. Sums(f, SUBSET S, it)
  BY <1>5 DEF Sums
<1>7. it[S] = Total(f, S)
  BY <1>6, SumIsTotal
<1> QED
  BY <1>1, <1>7 DEF f

\* Each payment of a month stands for a reservation of its own.
LEMMA PaidCounts ==
  ASSUME OneStory, ReservationsFinite, NEW k,
         NEW S, S = {t \in DOMAIN transfers : transfers[t].status = "LANDED"
                                              /\ KeyOf(transfers[t].reservation) = k}
  PROVE  LET paid ==
               MapThenSumSet(LAMBDA t : reservations[transfers[t].reservation].amount, S)
         IN  paid \in Nat /\ paid <= Shown(reservations, k, {"RESERVED", "SETTLED"})
<1> DEFINE V == Counted(reservations, k, {"RESERVED", "SETTLED"})
           h == [t \in S |-> transfers[t].reservation]
           f == [t \in S |-> reservations[transfers[t].reservation].amount]
<1>1. \A t \in S : h[t] \in V /\ reservations[h[t]].cycle = transfers[t].cycle
  BY SentIsCounted DEF Counted, KeyOf, InPlay
<1>2. \A t, u \in S : h[t] = h[u] => t = u
  <2> SUFFICES ASSUME NEW t \in S, NEW u \in S, h[t] = h[u] PROVE t = u
    OBVIOUS
  <2>1. transfers[t].cycle = transfers[u].cycle
    BY <1>1
  <2> QED
    BY <2>1, OneTransfer
<1>3. Countable(reservations)
  BY ReservationsCountable DEF OneStory, TypeOK
<1>4. IsFiniteSet(V)
  BY <1>3, CountedFinite
<1>5. IsFiniteSet(S)
  <2>1. h \in Injection(S, V)
    BY <1>1, <1>2 DEF Injection, IsInjective
  <2> HIDE DEF h, V
  <2> QED
    BY <1>4, <2>1, FS_Injection
<1>6. \A i \in V : /\ amounts(reservations)[i] = reservations[i].amount
                 /\ amounts(reservations)[i] \in Nat
  BY <1>3 DEF Countable, Counted, amounts
<1>7. \A t \in S : f[t] = reservations[h[t]].amount
  <2> SUFFICES ASSUME NEW t \in S PROVE f[t] = reservations[h[t]].amount
    OBVIOUS
  <2>1. h[t] = transfers[t].reservation /\ f[t] = reservations[transfers[t].reservation].amount
    OBVIOUS
  <2> HIDE DEF f, h
  <2> QED
    BY <2>1, Zenon
<1>8. MapThenSumSet(LAMBDA t : reservations[transfers[t].reservation].amount, S) = Total(f, S)
  BY <1>5, PaidTotal
<1> HIDE DEF f, h
<1>9. \A t \in S : f[t] \in Nat /\ f[t] <= amounts(reservations)[h[t]]
  BY <1>1, <1>6, <1>7
<1> HIDE DEF V
<1>10. Total(f, S) <= Total(amounts(reservations), V)
  BY <1>1, <1>2, <1>4, <1>5, <1>6, <1>9, TotalInjection
<1>11. Total(f, S) \in Nat
  BY <1>5, <1>9, TotalType
<1> QED
  BY <1>8, <1>10, <1>11 DEF Shown, V

\* What has left the wallet for an obligation within a month, counted on the
\* chain, stays within its cumulative cap (reservation.ts:4-10).
THEOREM PaymentsWithinCap ==
  ASSUME OneOfEach
  PROVE  Spec => []PaidWithinCap
<1>1. OneStory /\ Kept /\ WithinCap => PaidWithinCap
  <2> SUFFICES ASSUME OneStory, Kept, WithinCap, NEW k \in Obligations \X Periods,
                      NEW S, S = {t \in DOMAIN transfers : transfers[t].status = "LANDED"
                                                  /\ KeyOf(transfers[t].reservation) = k}
               PROVE  MapThenSumSet(LAMBDA t : reservations[transfers[t].reservation].amount, S)
                        <= Cap[k[1]]
    BY DEF PaidWithinCap
  <2> DEFINE paid == MapThenSumSet(LAMBDA t : reservations[transfers[t].reservation].amount, S)
             all == Shown(reservations, k, {"RESERVED", "SETTLED"})
  <2>1. paid \in Nat /\ paid <= all
    BY PaidCounts DEF Kept
  <2>2. all <= Cap[k[1]] /\ Cap[k[1]] \in Nat
    BY CountedWithinCap, StoreAssumption DEF OneStory, TypeOK
  <2>3. all \in Nat
    BY ReservationsCountable, CountedFinite DEF OneStory, TypeOK, Kept
  <2> HIDE DEF paid, all
  <2>4. paid <= Cap[k[1]]
    BY <2>1, <2>2, <2>3
  <2> QED
    BY <2>4 DEF paid
<1> QED
  BY <1>1, StoryHolds, LedgerIsCalledWell, KeptHolds, StoreWithinCap, PTL
=============================================================================
