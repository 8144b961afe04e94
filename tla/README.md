# Taxis: TLA+ models, model checking and proofs

Taxis pays a user's recurring obligations (rent, tuition, a transfer home) in the
AUSD token: a scheduler turns cadences into payment cycles, a decision loop quotes
each cycle and reserves its cost in a monthly cap, and an agent key sends the
transfer through a custodial wallet service whose policy engine is the last guard.
Users approve what exceeds their limits, pay merchants and each other, and name a
backup recipient. The backend is one Node process over SQLite; every handler runs
to its next `await` without interruption and is interleaved with the others there.

This directory specifies the backend, and the web application as far as it decides
something: the pages that attach signers and policies, the cache they share, and the
pages that answer quotes, request money and pay. Paths below are relative to
`src/backend/src/` unless they start with `src/`.

## Inventory

| Component | State | Operations | Interacts with | What makes it correct |
|---|---|---|---|---|
| Cap ledger contract, `domain/reservation.ts` | maps of periods, live reservations, settled cycles | `initPeriod`, `reserve`, `settle`, `release` | decision loop, quote engine | a month is never overcommitted; a cycle is live or settled at most once |
| Cap ledger in SQL, `persistence/sqliteCapStore.ts` | tables `cap_periods`, `cap_reservations` | the same, each one transaction | the same, and reconciliation | it implements the contract; counters equal the sums of the rows |
| Cycle state machine, `domain/cycleStateMachine.ts` | none | `transitionCycle`, `createCycle` | every handler | closed states are final |
| Decision loop, `domain/decisionLoop.ts` | none (pure but for the ledger) | `runDecisionLoop`: allowlist, balance, tolerance, reserve, quote | ledger | gates in order, nothing reserved for a refused cycle |
| Quote engine, `engine/quoteEngine.ts`, `privy/execute.ts` | Cycle objects in memory | `runCycle`, `approveCycle`, `skipCycle`, `executeApprovedCycle` | ledger, wallet service, chain | one transfer per cycle; the reservation follows the transfer's fate |
| Scheduler run, `scheduler/*.ts`, `persistence/cycles.ts` | table `cycles`, a run's lists | reconcile, generate, list, run, save | all of the above | due cycles are decided, EXECUTING rows resolved, rows never go back |
| Cycle routes, `http/routes/obligations.ts` | tables `obligations`, `grants` | create, grant, skip, approve, renew, cancel, kill-switch | quote engine, policies | an answer is given once; stopping stops |
| Cadence, `domain/cadence.ts` | none | `computeNextDueAt` | generation | due dates advance, clamping does not stick |
| Operations policy, `engine/operationsPolicy.ts`, `persistence/grants.ts`, `privy/policy.ts` | table `grants`, policies at the wallet service, the attached policy | rebuild, attach (by the user's app), confirm, retarget | checkout, routes | what the tables call authorised is what the attached policy allows |
| Checkout, `engine/checkoutEngine.ts`, `http/routes/checkout.ts` | table `checkouts` | quote, execute | operations policy, wallet service | a checkout is paid once |
| Payment requests, `http/routes/paymentRequests.ts` | table `payment_requests` | create, cancel, pay | checkout | fulfilled exactly when paid, at most once |
| Continuity, `engine/continuityPolicy.ts`, `http/routes/continuity.ts` | backup recipient, CONTINUITY grant, last activity | setup, check-in, redirect | scheduler run | redirected only after real inactivity, to the named backup |
| Web application, `src/frontend/src/`: `App.tsx`, `app/AppShell.tsx`, `app/AppDataContext.tsx`, `pages/Onboarding.tsx`, `pages/app/Dashboard.tsx`, `PaymentsList.tsx`, `QuoteView.tsx` | Privy session, route, one cache of the server's data, refreshes under way | log in, sync, refresh, follow a link, approve, skip | users and cycle routes, Privy | nobody is stranded; what a page shows was true; what waits for the user can be reached |
| Pay pages, `pages/app/RequestMoney.tsx`, `ScanToPay.tsx`, `PayRequest.tsx` | form and list, camera, the request and quote under review | create, cancel, scan, paste, review, pay | payment request and checkout routes | the page pays what it shows, once, and reports what happened |
| Trigger, `server.ts`, `http/routes/cre.ts`, `src/automation/` | `running` flag of the local scheduler | tick, HTTP trigger | scheduler run | (local) runs do not overlap; HTTP triggers may |
| Users, recipients, market data, signing, HTTP plumbing, scripts | rows, none | single-row reads and writes, wallet linking, adapters | | |

Hard behaviour: handlers work on copies of rows read before an `await` and write
the copy back afterwards; two runs, or a run and a user, can hold the same cycle; a
crash loses what is only in memory (the transfer's hash above all); a send call can
fail after its request arrived; receipts come late; finishing a reservation twice is
not refused by the SQL ledger. `PROJECT.json` lists the hazards line by line, with
the properties that cover them or the reason none does yet.

## Modules

| Module | Models | Depends on |
|---|---|---|
| `CapStore` | the contract: `CumulativeCapStore` as an abstract specification | |
| `SqliteCapStore` | the SQL ledger, its properties, the refinement mapping | instantiates `CapStore` |
| `CycleStateMachine` | states and transition table | |
| `PaymentCycles` | scheduler runs, decision loop, execution, approval, skip, crashes, wallet service, chain | extends the two above |
| `PaymentCyclesProperties` | its properties and two inductive invariants | extends `PaymentCycles` |
| `OperationsPolicy` | one user's obligations, grants and policies, the wallet's signer, and the pages that create, renew, cancel and kill | |
| `Checkouts` | payment requests, quotes, execution of checkouts, over the same policy; the properties of both | extends `OperationsPolicy` |
| `Cadence` | days of the calendar, first and next due dates | |
| `DueCycles` | one recurring payment over the calendar: rows, grant window, prices against tolerances and the month's cap, redirection | extends `Cadence` |
| `Continuity` | the two signers of one wallet: backup recipients, CONTINUITY grants and policies, and the flows of `OperationsPolicy` working from a cache | extends `OperationsPolicy` |
| `WebApp` | one tab: session, onboarding, the shared cache and its refreshes, the pages that lead to cycles and answer them | extends `CycleStateMachine` |
| `PayPages` | the pages that request, scan and pay, over a small server | |
| `MCPaymentCycles`, `MCCheckouts`, `MCDueCycles`, `MCContinuity`, `MCWebApp`, `MCPayPages` | constants and symmetry for TLC | |
| `SqliteCapStoreProofs` | type, cap and uniqueness theorems of the ledger, its counters, and that it implements the contract | extends `SqliteCapStore` |
| `PaymentCyclesProofs` | theorems of the cycle engine, with overlapping runs and crashes, and of the intended deployment: one scheduler, one client, approvals included | extends `PaymentCyclesProperties`, `SqliteCapStoreProofs` |
| `OperationsPolicyProofs` | lemmas about the flows of `OperationsPolicy`: their tables, and what each owes the wallet | extends `OperationsPolicy` |
| `CheckoutsProofs` | theorems of the policy and checkout tables, and of the agent's authority | extends `Checkouts`, `OperationsPolicyProofs` |
| `DueCyclesProofs` | theorems of the due dates, and all properties of `DueCycles` | extends `DueCycles` |
| `ContinuityProofs` | one backup recipient for all redirected payments; the authority of both signers | extends `Continuity`, `OperationsPolicyProofs` |
| `WebAppProofs` | all safety properties of `WebApp` | extends `WebApp` |
| `PayPagesProofs` | all properties of `PayPages` | extends `PayPages` |

### The ledger

`capPeriods` and `reservations` are the two tables. `Reserve` is `initPeriod()` and
`reserve()`, always called together (`domain/decisionLoop.ts:74-75`);
`RefuseReserve` is its `DUPLICATE_CYCLE` and `CAP_EXCEEDED`, after which only the
month's row may be new. `Settle` and `Release` change the counters and the status
whatever the status was, as the SQL does. `StoreSpec` adds a caller that finishes a
reservation once; `PaymentCycles` does not. The mapping to `CapStore` forgets the
rows of released reservations and the difference between a month without a row and
one with nothing in it. The `Period not initialized` error cannot arise and is left
out. Amounts are natural numbers, where the column is a floating-point REAL.

### The cycle engine

State: `rows` (table `cycles`: state, reservation, hash), `status` of obligations,
`linked` (owners with a wallet), `lapsed` (quotes past their expiry), `clock` (the
month, the due dates that have passed), `transfers` (what the wallet service and the
chain know), and per handler the point it awaits at (`pc`), the Cycle object it works
on (`copy`), the transfer it waits for (`request`), a run's start time (`asOf`) and
its two lists (`stuck`, `due`). `faults` counts crashes and lost responses.

One action is what runs between two awaits:

| Code | Actions |
|---|---|
| `runDueCycles` from its start to the first receipt lookup | `StartRun` |
| one iteration of `reconcilePendingCycles` after its lookup | `StillPending`, `FinishStuck` |
| `generateDueCycles` and `listDueCycles` | `ListDue` |
| one cycle after its balance lookup, up to the send or to `saveCycle` | `LeaveDue`, `SkipUnfunded`, `SkipUnreserved`, `AskApproval`, `AutoApprove` |
| a lookup that throws | `AbortRun` |
| the send returns, throws, throws although it arrived | `SendAccepted`, `SendRefused`, `ResponseLost` |
| the receipt is awaited | `ReceiptLanded`, `ReceiptReverted`, `ReceiptTimeout` |
| `saveCycle` after the await of `runCycle` or `approveCycle` | `Save` |
| the approve and skip routes | `Approve`, `ApproveLapsed`, `Skip` |
| wallet service and chain (external) | `Rejected`, `Broadcast`, `Landed`, `Reverted` |
| time, kill-switch, `POST /users/sync` | `DueDatePasses`, `MonthEnds`, `QuoteLapses`, `KillSwitch`, `LinkWallet` |
| the process dies | `Crash`, `CrashInReconcile` |

Abstractions. Prices come from a small set and stay fixed in a quote; rounding to
six digits, nonces, signatures and the histories of cycles are left out. Due dates
pass in any order and a run takes its list in any order, where the code sorts by due
date. The grace period of reconciliation is untimed: rows of any age are listed. The
recipient's status is a constant; dates, and the redirection to a backup recipient, are
in `DueCycles`.
`KillSwitch` also stands for cancellation, which looks the same to the scheduler.
The ledger transaction and `saveCycle` of a skip, and the same pair around an
expired approval's single await, are not torn apart by a crash; in reconciliation
they are. A transfer's request is recorded at the moment the send call is made.

### The shared policy and one-off payments

The agent signer of a wallet holds one policy. Whoever changes what may be paid
builds a complete new policy on the server (it is only created, not attached), strips
the wallet of its signers, adds the signer with the new policy, and has the server
confirm. State: `obligations` (their status), `grants` (the rows of kind CYCLE in the
order of creation), `policies` (the rules of every policy ever created), `attached`
(what the signer holds, 0 for nothing), `checkouts`, `requests`, `transfers`, `now`,
and per page of the application (`screens`) the flow it is in, its step, what the flow
is about and the policy it was given. `interrupted` is a history variable: a flow was
left between its first tap and its last call, and no policy was attached since.

| Code | Actions |
|---|---|
| `POST /users/:id/obligations`, `/renew`, `/cancel`, with `rebuildOperationsPolicy` | `CreateObligation`, `RenewObligation`, `CancelObligation` |
| `reattachSigners` (`src/frontend/src/app/reattachSigners.ts`), `confirmKill` (`src/frontend/src/pages/app/Settings.tsx`) | `ConfirmKill`, `RemoveSigners`, `AddSigners` |
| `POST /obligations/:id/grant`, `/cancel/confirm`, `/kill-switch` | `GrantRoute`, `CancelConfirm`, `KillSwitchRoute`, `Killed` |
| a page is left, a tap refused, a call fails | `GiveUp` |
| `POST /payment-requests`, `/cancel`, and `/pay` past the expiry | `RequestMoney`, `CancelRequest`, `ExpireRequest` |
| `/pay` or `/checkout/quote` up to the balance lookup, up to the policy, to the end | `AskQuote`, `RefuseQuote` or `BuildQuote`, `InsertCheckout` |
| `POST /checkout/:id/execute` up to the send, the send, the receipt | `ExecuteCheckout`, `ExecuteExpired`; `SendAccepted`, `SendRefused`, `ResponseLost`; `ReceiptLanded`, `ReceiptReverted`, `ReceiptTimeout` |
| chain, clock (external) | `Mine`, `Tick` |

Abstractions. One user, since every query is restricted to one; the requester of a
payment request is somebody else. A rule is a payee and an expiry: whether its amount
is the right one is not modelled. The agent signer only: `Continuity` adds the second
one. Obligations and payables have addresses of their own in the runs
(`OwnAddress`); the proofs assume nothing of `PayeeOf`. A renewal's new expiry is any
that is not earlier than the ones before, since due dates advance. The scheduler's
payments are in `PaymentCycles`; here their authority is the subject. A checkout is
executed from the page that holds it; `Retries` lets a client call again after
PENDING_CONFIRMATION, which PayRequest.tsx does not.

Properties and their provisos. `GrantedIsAuthorised` and `AuthorityIsRecorded` relate
the tables to the attached policy; they speak of moments when no page is at work
(`Quiet`), because every flow passes through states where they differ, and when
nothing was left half done, because a wallet that has lost its signer is seen by no
table until the next attach. `GrantedIsAuthorised` asks this for ACTIVE obligations,
`StoppedHasNoAuthority` the opposite for stopped ones, which fails. `OutcomeIsTrue`,
and `NothingPaidTwice` of requests, speak of sends whose call returned (`reported`),
because a lost response makes them fail, as in the cycle engine.

### Dates, windows and redirection

`Cadence` counts days since 2024-01-01 and months since then; what `Date` does is
external, the five functions of `domain/cadence.ts` are the rest. In `DueCycles` a
payment lives through `today`: `rows` are the obligation's cycles (due date, day of the
run that decided it, what became of it, its quote), `ledger` what the newest month has
spent and reserved, `expires` the end of the newest grant's window, `lastActive` the last
sign of life, `continuity` the threshold and the end of the CONTINUITY grant. A scheduler run goes a row at a time: `GenerateDueCycle` is one round of
the loop of `generateDueCycles`, `DecideCycle` one of the loop of `runDueCycles` over what
`listDueCycles` returned (`Pending`), with its gates (`Outcome`): `isUserInactive` at its
boundary chooses the recipient, the month's cap must have room for the principal and both
fees (`Fits`), principal and fees must each keep their ceiling (`WithinTolerance`) or the
cycle is put before the user, and the rule of the signer must allow amount, recipient and
day. The cap is the form's (`Cap`): `MaxAusdCost`, the ceiling of a principal, times the
cycles a month can have, in AUSD and without fees. A price is chosen anew for each cycle
from `Prices`, or on days that are not among `MovingDays` from `UsualPrices`; the balance is assumed to cover it. `EndRun` closes the run.
A process that dies between two rows needs no action: the rows it made are there, and the
next run goes on from the tables. `Renew`, `SetUpContinuity`, `Visit` (sync or check-in)
and `Stop` are the user's, at any moment of a run, and one step each; a row that was
listed before a `Stop` is still decided.

`Approve`, `ApproveLapsed` and `SkipCycle` are the user's answers to a cycle put before them,
which give up or use the reservation that it holds; they count as signs of life, since a
refresh came before.

`NextDay` lets a day pass with or without a run. `neglected` is a history variable: a
reminder was left alone for a day, a day had no run, or a threshold of 31 days or less was
ever chosen. `AttentiveIsPaid` speaks of histories without any of these: with the threshold
of 30 that the application offers, and a month of 31 days, a monthly user who renews
whenever asked is taken for inactive and redirected, and a longer threshold chosen later
does not undo that. A CONTINUITY grant past its window still redirects, to be refused; the
code says nothing else.

What the cap is enough for: `OrdinaryMonthFits` says that a cycle is skipped for it only in
a month that also has to pay for a late row (which is charged to the month of its run), or in
which some cycle cost, *with* its fees, more than the ceiling of a principal, or had fees beyond
their own. The form's comment promises more, that a month within the tolerances
always fits, and the form tells the user that a rate which moved too far is asked about. Neither
is so: `LegitimateMonthFits` fails (`full_month`), since the cap counts the fees and has no
room for them; and a monthly cycle whose principal moved beyond its ceiling exceeds the
cap, which is asked before the tolerances, and is SKIPPED.

### The second signer

`addSigners()` refuses a signer that is attached and `removeSigners()` strips all, so
every flow must put back the signer it did not mean to change, with the policy the
application last read. `Continuity` adds to `OperationsPolicy`: `backup` and `covers` (per
obligation the backup recipient and the newest CONTINUITY grant), `continuityPolicies`,
`attachedContinuity`, `setUp` (the page ContinuitySetup.tsx), `cache` (what the last
refresh found) and `held` (the cache a flow was started with).

| Code | Actions |
|---|---|
| `refresh()` of `app/AppDataContext.tsx` | `Refresh`; a failed lookup reads as not configured |
| the flows of NewPayment.tsx and Settings.tsx | `StartFlow`, `StripWallet`, `ReattachAgentSigner`, `FinishFlow` |
| `POST /users/:id/continuity`, whole or failing after the backup recipients are stored | `PostContinuity`, `PostContinuityFails` |
| `reattachContinuitySigner()` | `StripForSetUp`, `ReattachContinuitySigner` |
| `POST /users/:id/continuity/grant` | `RecordContinuityGrant` |
| the page is left, a tap refused | `GiveUpSetUp` |

`doubt` is a history variable that names an authority some flow put in doubt: it was
restored from a cache that no longer told the truth, or a set-up stored a backup recipient
and was not completed. The code has no means to notice either, and
`RedirectIsAuthorised` and `AgentAuthorityKept` fail for such histories; they are
claimed again after the next complete flow. A kill switch whose routes fail half-way,
followed by a set-up, re-attaches the recorded agent policy; the model has the flow and
excludes it as `interrupted`.

### The application

`WebApp` is one tab. `ready` and `authenticated` are Privy's; `url` and `quoteOf` the
route; `onboarding` and `syncs` the page Onboarding.tsx and its requests; `provider`,
`refreshes` and `cache` AppDataContext.tsx, whose `refresh()` is split at its awaits;
`busy` and `answers` QuoteView.tsx; `rows` and `wallet` the server, whose cycles move on by
themselves (`Schedule`). Pages render `cache`, never `rows`. `Go` is the router, with Back
and typed addresses among the links, and `Redirect` the guard of AppShell.tsx; `Bereft`
takes from every request under way the caller that has gone, so a response may find its
page, the application around it, only the tab, or nothing. Sessions end from another tab
too (`EndSession`).

| Code | Actions |
|---|---|
| Landing.tsx, `useLogin`, `runSync`, `retry` of Onboarding.tsx | `Enter`, `Login`, `LoginFails`, `CompleteReturning`, `SyncSucceeds`, `SyncFails`, `Retry`, `GoToDashboard`, `LeaveOnboarding` |
| `refresh()` from its start to its end | `MountProvider` or `RefreshElsewhere`, `SyncOnRefresh`, `ReadRows`, `ShowRows`, `FinishRefresh`, `RefreshFails` |
| links and buttons of Dashboard.tsx, PaymentsList.tsx and the sidebar | `Follow` |
| `handleApprove`, `handleSkip`, the routes, their answers | `Tap`, `Serve`, `Confirmed`, `NotConfirmed` |

Provisos. `AnswerIsSeen` holds while refreshes neither overlapped nor failed since one
ran alone (`muddled`): of two at once the older may be applied last.
`BalanceIsOfTheWallet` holds while no sync of the application failed or found no wallet
(`unvouched`). Rows are made and decided in the order of their due dates, but finish in any
order: a receipt may come after the next cycle was paid. The list of payments then leads
to the settled cycle and not, as PaymentsList.tsx:22 has it, to the latest one that is not
(no property says so); of several that wait for an answer the list offers the earliest.

`PayPages` is one tab on the pay pages, over a server of requests, checkouts and payments
sent. `form`, `loads` and `cancels` are RequestMoney.tsx, `scanner`, `ghosts` and `image`
ScanToPay.tsx (a scanner that is gone may decode one more frame, an image may be read
late), `screen`, `flows` and `executes` PayRequest.tsx. `Arrive` and `Reading` are the effect
that loads a request when the route changes, which happens without mounting the page
anew. Provisos: `strayed`, a visit of the scanner led to two requests, as the image that is
read late does, which navigates without a look at `navigatedRef`; `abandoned`, a payment
under way was left or its answer lost; `mixed`, readings of the list overlapped or failed.
`PayeeShown`, `ReportIsTrue`, `PaidOnce` and `ListIsCurrent` fail without their provisos.
Browser Back between the pay pages, copying and sharing a link, and the duration of camera
operations are left out; steps of other users (`Elsewhere`) happen only while
RequestMoney.tsx is shown, the one page that could read their effect.

## Runs

| Run | Instance | What it shows |
|---|---|---|
| `overlapping_runs` | 2 overlapping runs, 2 cycles, small and large prices, 1 crash, cap 3 (a cycle fits twice if it is small, two large ones do not) | no cycle is paid twice, money on its way stays reserved, SETTLED means landed; the ledger commits no month beyond its cap and gives a cycle one reservation, even when one is finished twice |
| `one_scheduler` | 1 run, 1 user, 2 cycles, 2 months, cap 5 | the safety properties of the intended deployment, approvals, skips and month ends included; the ledger's refinement of its contract |
| `progress` | 1 run, 2 obligations, 1 crash, 1 lost response | liveness |
| `double_approval` | 2 users, 1 cycle | `AtMostOneTransfer` fails with overlapping approvals |
| `crash_after_broadcast` | 1 run, 1 crash | `BroadcastTraceable` fails after a crash |
| `calendar` | 4 plans (weekly, every second week, the 30th, the 31st), 40 days around the end of a February of 28 and of 29 days, 1 day without a run, visits and set-ups on days 1 and 36, thresholds of 30 and 32 days, 5 prices below, at and beyond the ceilings on days 5, 33 and 35 and one on the others, answers within a day | due dates, windows and redirection, and what the month's cap has room for |
| `full_month` | the same | `LegitimateMonthFits` fails: the fees are not in the cap |
| `continuity` | 2 obligations, 2 backup recipients, 1 page at a time, 2 agent and 2 continuity policies, 1 tick | what each flow does to the authority of the other signer |
| `web_app` | 1 cycle, 2 refreshes and 1 answer at once | the tab, from the landing page to an answered quote |
| `pay_pages` | 1 request made, 1 received, 2 quotes, 2 readings at once | requesting, scanning and paying |
| `one_page` | 1 page at a time, 2 obligations, a request and a merchant, 2 checkouts, 3 policies, 2 transfers, 1 lost response | what the tables grant and what the policy allows agree between flows; statuses of checkouts and requests are true |
| `cancelled_returns` | 1 page, 2 obligations, 4 policies | `StoppedHasNoAuthority` fails after a renewal, a cancellation and the next creation |

The four runs that expect a violation refute sentences of the code's own comments;
`PROJECT.json` quotes them under `findings`. They also mark where properties stop, as do
instances that are not kept as runs. Those with two overlapping runs (`Runners = {r1, r2}`)
are what an external trigger beside the local scheduler does, of which
`server.ts:314-316` says "harmless either way, since every trigger is idempotent by design":

* `RowsOnlyAdvance` and `UnpaidMeansUnpaid` fail: both runs list a due cycle, the first pays
  and settles it, the second is refused with DUPLICATE_CYCLE and saves its copy as SKIPPED,
  without the hash, over the settled row (1 cycle).
* `PaidWithinCap` and `LedgerExact` fail: two reconciliations find the same reverted transfer
  and release its reservation twice, the second time from what another cycle reserved, and the
  month pays beyond its cap (3 cycles with as many ids, `Prices <- Affordable`, no crash).
  `WithinCap` holds: the ledger's own books say less than was paid.
* `OnlyApprovedIsSent` fails: one run puts a cycle before the user, who skips it, and the skip
  releases the reservation that would have stopped the other run, which sends the cycle at
  a price that needs no approval by then (1 cycle, 1 user, `Prices <- PriceSpread`).
* `CapStoreContract` fails with the second of these: the SQL ledger finishes a reservation
  twice where the in-memory store throws, although `persistence/sqliteCapStore.ts:4` says it
  "Implements the exact same semantics".
* With one lost response (`MaxLost = 1`) `UnpaidMeansUnpaid` fails: a send that throws
  although it arrived is taken for the refusal that `privy/execute.ts:9-10` says it is, and
  its transfer is broadcast while the cycle is FAILED.
* `one_scheduler` allows no crash, no lost response and no second request in flight,
  because with any of them some of its properties fail.
* With a client that executes a checkout again after PENDING_CONFIRMATION
  (`Retries = TRUE`) `NothingPaidTwice` fails: the row is left PENDING_APPROVAL, which is
  the one status `executeCheckout()` accepts. PayRequest.tsx does not do so, and with it
  the property holds (`one_page`).

Bounds. Two cycles of one obligation are enough to compete for a month's cap and to
hold each other up in a batch; a third reservation and transfer id, where a run has
one, leave room for a retry after a rejected or reverted transfer and a crash. When the ids run out, a
handler that needs one waits: such states are only fewer behaviours, never wrong
ones, and `progress` has as many ids as its runs can use. Caps are chosen so
that a double payment of a small quote fits but two large quotes do not (3), or a
cheap quote and a dear one fit but two dear ones do not (5). `LastPeriod`
bounds the months, `MaxCrashes` and `MaxLost` the faults. Symmetry is used over ids
of reservations and transfers and over runs, which no property tells apart, and in
no liveness run. The runs of `MCCheckouts` end when policies, ids and the clock are used
up, with every page idle, so these do not check deadlock; those of `MCPaymentCycles` do.

`one_page` keeps to one page at work, the case the code is written for: with two, one
policy is built while the other is attached but not confirmed, and
`GrantedIsAuthorised`, `AuthorityIsRecorded` and `NothingPaidTwice` fail. Three policies
are enough for a grant, a second flow that has to carry it, and a third that meets
what both left; `Horizon` 1 lets quotes, requests and grants lapse between any two
steps; two checkouts let a request be quoted twice. Symmetry is over checkouts and
obligations.

`calendar`: forty days hold two due dates of a monthly plan, a month of five due dates of a
weekly one, three renewals, and both thresholds, the second chosen when the first may have
redirected a cycle already; one day without a run is enough for a row to be late and to
cross the end of a month. Prices move (`MovingDays`) on the days of the first and last of three
fortnights of a month and of the only cycle of a monthly plan: to one at the ceiling of the principal, one beyond it, one beyond what the policy lets through, and one with fees beyond
theirs; on other days there is the dearest that always fits. With prices moving on every day
the instance has more than 20 million states; the proofs have no such bound. `continuity`: two agent policies and two
continuity policies are a creation or renewal and a set-up, and one more of each, with
obligations and recipients symmetric. `web_app`: two refreshes overlap, the third would
only repeat them; one answer at a time, because what two do is `double_approval`.
`pay_pages`: two quotes are two payments of a request, two readings an overlap. The bounds
are on what is under way at once, not on how often it happens, so all but `continuity` and the
runs of `DueCycles` go on for ever; none of these checks deadlock, since a user may stop.

Fairness (`progress`). The local scheduler ticks for ever (`server.ts:323-343`), so
runs start and go on (weak fairness). Calls return, with an answer or an exception,
because the executor has a timeout and catches errors (`privy/execute.ts:75-86`).
The wallet service decides on a request and the chain on a transaction. A balance or
receipt lookup may fail any number of times, but not for ever for the same cycle:
strong fairness on deciding a cycle and on finishing a stuck row. Nothing is assumed
of the user, and nothing forces a send to succeed.

## Proofs

`tlapm` checks every step of eight modules, for all values of the constants that
satisfy `StoreAssumption`, `CyclesAssumption`, `PolicyAssumption`,
`CheckoutAssumption`, `ContinuityAssumption`, `DueCyclesAssumption` and
`WebAppAssumption`; `PayPagesProofs` needs none.

* `StoreTypeCorrect`, `StoreWithinCap`, `StoreOneReservation`: the ledger's tables
  are well typed, a month is never committed beyond its cap, a cycle has at most one
  reservation that is live or spent. The cap needs no assumption on callers; the
  third needs that a released reservation is not settled afterwards.
* `StoreImplementsContract`: every call of the SQL ledger is a call of the contract
  or changes nothing the contract sees. Besides the types this needs that an existing
  row carries the obligation's cap, a missing one is empty (`RowsCarryCap`), and
  reservations are only made in months that have a row (`ReservedRowsOpen`).
* `CountersExact`: the two counters of a month are the sums of its RESERVED and of its
  SETTLED reservations, for callers that finish a reservation once. `tlapm` cannot follow
  the recursion in `MapThenSumSet`; that section of the module first shows, from the
  existence of minimal elements alone, that a sum over a finite set exists, does not
  depend on the order, and changes by one summand when an element comes, goes or changes.
* `TypeCorrect`: types of the cycle engine (no run states them: the theorem does, for every
  instance).
* `LedgerWithinCap`: within the cycle engine, with any number of runs, users,
  crashes and lost responses, the ledger never exceeds a cap, even when a reservation
  is finished twice. (What is *paid* can: then the ledger's counters are too low.)
* `SettledMeansLanded`: in every deployment, with any number of overlapping runs, user
  approvals, crashes and lost responses, nothing is called SETTLED or booked as spent
  that did not land. A landed transfer stays landed, so that it is enough to follow who
  may settle: a handler or a reconciliation that saw the receipt of a transfer sent under
  that very reservation (`HandlersKnow`, `HashesMatch`), and whose object then carries that
  transfer's hash (`CopiesTell`). Two handlers may settle or release the same reservation
  in any order and it remains true, which is why this theorem needs none of the
  hypotheses of the next one.
* `OneTransferPerCycle`, `TransfersStayBacked`: with no user approvals and no lost
  response, any number of overlapping runs and crashes leaves at most one transfer of
  a cycle in play, and it keeps its reservation. The two hypotheses are needed:
  `double_approval` shows what happens without the first; without the second a lost
  response releases the reservation of a transfer in play.

`AtMostOneTransfer` is not inductive: nothing in it stops a second reservation while
a transfer is in play. The invariant `IInv` adds the ledger's side, namely that a
cycle has one unreleased reservation (`OneReservationPerCycle`), every transfer was
sent under a reservation of its cycle (`TransfersReserved`), which was sent once
(`SentOnce`) and is not released while the transfer is in play (`TransferBacked`);
and the handlers' side, namely that whoever finishes a reservation knows the transfer
sent under it, by its request (`HandlersKnow`) or by a hash stored next to it
(`HashesMatch`). Then settling follows a landed transfer, releasing a rejected or
reverted one, and a double settle or release by overlapping reconciliations cannot
revive the cycle.

The second part of `PaymentCyclesProofs` assumes `OneOfEach`: at most one run and one request at a time, no
crash and no lost response, which is the deployment the code is written for
(`server.ts:323-343`: no tick starts a run while another goes on). Each part is needed; the runs
`overlapping_runs`, `double_approval`, `crash_after_broadcast` and the instances listed
under "Runs" show what is lost without it. Cycles, obligations, prices, months, approvals,
skips, refusals and late receipts are unbounded.

* `StoryHolds`: the inductive invariant. For every cycle there is a phase that its row, or
  the object of the one handler working on it, determines: nothing reserved and nothing
  sent; reserved and not sent; sent under that reservation and not known to have failed;
  settled and landed; released and not in play (`Story`). It is stated of whichever
  handler holds the cycle, since a row is out of date between an await and its save, and says of
  each cycle that it has *only* that reservation and transfer. The properties below
  are not inductive: none of them says what a handler that is waiting for a
  receipt may still do.
* `OneTransferWithApprovals`, `RowsTellTheTruth`, `NoLostReservation`: the state properties, each read off the phase of a cycle.
* `RowsAdvance`, `OnlyApprovedSent`: the two action properties.
* `LedgerIsCalledWell`, `ContractInUse`, `LedgerExactInUse`: every call of the ledger
  finishes a RESERVED reservation, so the cycle engine satisfies the ledger's own
  specification, and with it the contract and the exact counters hold in the whole system.
* `PaymentsWithinCap`: the transfers that landed in a month go to different
  reservations, and each of these is counted in the ledger, as RESERVED or SETTLED. So
  what was paid is at most the sum of both counters, which `LedgerWithinCap` bounds.

* `TypesKept`, `OnePolicyRecorded`: for any number of pages at work at once, retries
  and lost responses, the tables of policies and checkouts are well typed and all
  ACTIVE grants name one policy, which is what `currentAgentSigner()` relies on when it
  takes any of them ("by construction they're all the same combined policy"). The
  invariant `Consistent` adds what a page holds at each step (`ScreenOK`): the policy it
  was given exists, the flow matches the step, and a checkout it is about to execute
  has a row. `OnePolicyRecorded` does not say that this policy is the attached one.

* `GrantsAuthorised`, `AuthorityRecorded` (`Checkouts`), `AgentKept`, `RedirectsArePaid`
  (`Continuity`): what the tables grant and what the signers may pay agree between flows,
  for any number of obligations, payables, quotes, retries, policies and set-ups. They
  assume one page at work (`OnePage`); with two, each may attach a policy built before
  the other's grant, and the first three fail (`Continuity` models no second page: it has
  one `held`). The second and third also assume an address for everybody
  (`Distinct`), since a rule names an address: a merchant paid at a landlord's address would
  open the landlord's payments too.

  The properties speak of the moments between flows and are not inductive. The invariant says
  what each step of a flow owes (`Promised`): once built, the page's policy carries
  every live grant of an obligation the flow is not about (`PolicyOK`), pays nobody beyond
  their grant but for the rule that the flow is about to record (`RecordOK`), and is the
  attached one from the second tap on; a kill switch under way still holds every ACTIVE
  obligation. And while the page has not touched the wallet the attached policy is right
  (`Wallet`): it has a rule for each live grant at least as long, and its rules for
  obligations last no longer than their grants. Stating that expiries are ordered, rather
  than that a rule exists now, is what survives the clock. One lemma per flow in
  `OperationsPolicyProofs` serves both modules.

  For `AgentKept` the second half is limited to obligations nobody stopped (`Live`), a set
  that only shrinks. It adds that every ACTIVE grant names a policy that is right, because
  a set-up puts back whichever the cache holds, and is the reason why a cache
  that no longer names one puts `"agent"` in `doubt`. For `RedirectsArePaid` the
  invariant `CoverOK` says that all covers name one policy, which pays the recipients of now; that
  a set-up's policy does so before it is recorded; and that a page which has
  not stripped the wallet, or has put the signers back, finds that policy attached. It needs
  `BackupInv` too: a new obligation is not covered.

* `OutcomeTrue`, `PaidOnce` (`Checkouts`): the tables tell what became of a payment, for any
  number of pages at work at once, quotes and lost responses; and a request is paid once,
  with one page at work. Both assume `~Retries`: a checkout executed again after a late
  receipt is refused, or sent twice, while its first transfer may still land.
  The invariant `Accounts` follows four kinds of rows at once: a page that pays has a
  checkout nobody else has, pending from the moment it is stored, and waits for exactly one
  transfer or has sent none (`PageAccount`); a transfer is the only one of its checkout, and
  one that has not failed either fulfilled its request or has a page waiting for its
  receipt (`TransferAccount`); what a checkout and a request say has a transfer behind it
  (`CheckoutAccount`, `RequestAccount`). `OtherAccounts` shows once for all steps
  that a page disturbs none but its own. `PaidOnce` adds `Once`: the request
  that a page pays is not fulfilled yet, so that by `TransferAccount` nothing sent for it is
  in play when the page sends. With two pages a second quote of the same
  request would be paid while the first awaits its receipt; what is proved of any
  number of pages is that a checkout has one transfer (`TransferAccount`).

* `DueDatesAdvance`, `ClampDoesNotStick`, `FirstDueInTime`: from any due date of any
  cadence the next one is 7 to 31 days later and a due date again; a day clamped in a short
  month is itself again in the next month that has it; the first due date is at most 31
  days after the creation. They rest on lemmas about the calendar: months partition the
  days (`MonthOf` is well defined and inverse to `MonthStart`) and have 28 to 31 days.

* `RowsFollowCalendarForAll`, `OrdinaryMonthFitsForAll`, `QuietPaysBackupForAll`,
  `AttentiveIsPaidForAll`, `RenewalReachesForAll`: the properties of `DueCycles` for every
  cadence, threshold, ceiling and set of prices, without the bounds of the runs on days, visits
  and missed runs.
  `CalendarOK` says that the rows are all days of the calendar before `NextDue`, at least a
  week apart; it needs the lemma that no day of the calendar lies between a due date and the
  next (`NextOnCalendar`). `SpacingOK` adds how far apart rows are in periods of the cadence,
  and `DecidedOK` that they are decided in order, on the day they are due or later. `LedgerOK`
  says that what a month has spent and reserved is at most the ceiling of a principal
  for each of its rows, as long as none is late and none exceptional. The cap (`CapFits`)
  then has room: of the rows due in a month fewer lie before one of them than it has
  ceilings, so that what does not fit is exceptional, or was preceded by a row of an earlier
  month. For the
  attentive user, `WindowOK` ties the end of the grant to a due date and to the last sign
  of life, at most 31 days before it, and `AttentiveOK` says that nothing is late and the
  application has not been waiting. That theorem assumes `WindowsFit`: the application
  asks for at least a day, not before the due date the grant was for and less than a week
  before the next one. The code has two days of warning (`Settings.tsx:9`) and three of
  grace (`server.ts:98`); `RenewalReachesForAll` needs only that the first is not longer.

* `OneBackupForAll`: for any number of obligations, recipients, pages and set-ups, the
  obligations a set-up reached and that are still paid name one backup recipient. The
  invariant `BackupInv` says only that those agree and that an obligation without a row
  has none; it suffices because a set-up overwrites the column of every ACTIVE row, a row
  made since has none yet, and one that is PAUSED or CANCELLED never becomes ACTIVE again.

* `QrStaysForAll`, `ListIsCurrentForAll`, `PayeeShownForAll`, `ReportIsTrueForAll`,
  `PaidOnceForAll`: the
  properties of `PayPages` for any number of requests, quotes, visits and retries, under
  the exceptions each names. The first needs `FormOK` (off its page the form is a new one).
  The others need `ScannerOK` (only a scanner on its page still leads somewhere) and
  `PayInv`: everything PayRequest asks is about the request in the address
  (`OneRequest`), and it does one thing at a time, loading, showing or paying, where what
  it shows for payment is unpaid (`OnePayment`). All three are needed: a response of
  another request would change the payee under the amount, and a second reading under way
  would bring the button back while a payment is in flight. The list needs `ListOK`: a
  request is never forgotten by the server (`NoneForgotten`), and as long as no reading
  overlaps another or fails, either the list has the request on display or the one
  reading under way has seen it or is still to ask.

* `WayForwardForAll`, `BalanceIsOfTheWalletForAll`, `AnswerIsSeenForAll`,
  `PageSurvivesRefreshForAll`: the properties of `WebApp` for
  any number of cycles, and of refreshes, syncs and answers under way at once; `WebInv` has
  a part for each thing a page waits for. `OnboardingOK`: a page that shows a sync under way
  has one that will report to it, also after it was left and opened again. `ProviderOK`:
  "Loading..." is shown only with a refresh under way, and a provider that has loaded once
  never shows it again. `WalletOK`: a refresh that is past its sync reads a wallet that is
  current, and what the tab shows was read by such a one. `AnswersOK`: a row that was answered
  does not return to REQUIRES_APPROVAL, and as long as refreshes do not overlap (`FreshOK`)
  the one under way asks for the rows after the last answer, or the tab has them.

Only model-checked: the three liveness properties `DueIsDecided`, `ExecutingIsResolved` and
`TransferIsBooked`, since liveness and the fairness it rests on are outside what `tlapm`
can prove. Every invariant and action property of a passing run is a theorem.

## Plan

1. Two pages at work at once in `Checkouts`: which of its properties survive
   (`OnePolicyRecorded` does) and a run that shows how the others fail.
2. `PaymentCycles` with the attached policy: a scheduled transfer is accepted only while
   a rule allows it, and a redirected one by the other signer.

## Not modelled

* Amounts of rules and rounding: whether a rule's limit in base units fits the quote it is
  meant for is arithmetic on floating-point numbers that no state depends on.
* Quote signatures, market data, wallet lookup, token ABI, routing and JSON: adapters
  without a protocol; their failures are choices of the actions that call them.
* Single-row reads and writes of users, recipients and obligations besides those above.
* ActivityList.tsx and `app/activityFeed.ts`, which derive a list from the cache, Explain.tsx, themes, texts and layout: they show one record and keep nothing.
* Scripts under `src/backend/scripts/`: manual experiments against live services.
