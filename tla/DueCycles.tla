----------------------------- MODULE DueCycles -----------------------------
(***************************************************************************)
(* A recurring payment over the days of a calendar: the rows the scheduler *)
(* makes of its cadence (scheduler/generateDueCycles.ts), the window in    *)
(* which its grant pays them (http/routes/obligations.ts, Settings.tsx),   *)
(* the price of each cycle against the limits that the form sets           *)
(* (decisionLoop.ts, sqliteCapStore.ts, NewPayment.tsx), and the           *)
(* redirection of a user who is no longer seen (scheduler/runDueCycles.ts, *)
(* http/routes/continuity.ts).                                             *)
(*                                                                         *)
(* One obligation: others share nothing with it but the user's activity.   *)
(* A day's steps happen after its midnight, when due dates and expiries    *)
(* fall.  A run makes and decides a row at a time.  If its process dies on *)
(* the way, the day's next run goes on where it stopped, so that deaths    *)
(* need no action of their own; no run lasts over midnight.  Flows are one *)
(* step here (OperationsPolicy takes them apart), and so is the payment of *)
(* a row, which either goes through or is refused by the policy            *)
(* (PaymentCycles takes it apart); the balance is assumed to cover it.     *)
(***************************************************************************)
EXTENDS Cadence, SequencesExt

CONSTANTS Plans,          \* what the user may create: a cadence, and the day of creation
          Grace,          \* grantGraceSeconds, in days
          WarningWindow,  \* RENEWAL_WARNING_WINDOW_MS, in days
          Thresholds,     \* INACTIVITY_OPTIONS of ContinuitySetup.tsx
          ContinuityDays, \* continuityGrantDurationSeconds, in days
          MaxAusdCost,    \* derivedCeiling of NewPayment.tsx: the limit of a principal
          MaxFeeAusd,     \* DEFAULT_MAX_FEE_AUSD
          Prices,         \* what a cycle may cost: a principal, at some rate, and the fees
          UsualPrices,    \* those of a day on which nothing moved
          MovingDays,     \* bound: days after the creation with any of Prices
          Horizon,        \* bound: days after the creation
          MaxAway,        \* bound: days without a run of the scheduler, altogether
          AnswerDays,     \* bound: days that the user takes to answer a quote
          VisitDays       \* bound: days after the creation on which the user comes unasked

ASSUME DueCyclesAssumption ==
  /\ Plans \subseteq [cadence : CadenceSet, createdAt : Nat]
  /\ Thresholds \subseteq Nat \ {0}
  /\ MaxAusdCost \in Nat /\ MaxFeeAusd \in Nat
  /\ Prices \subseteq [principal : Nat, fees : Nat]
  /\ UsualPrices \subseteq Prices /\ MovingDays \subseteq Nat
  /\ Grace \in Nat /\ WarningWindow \in Nat /\ ContinuityDays \in Nat
  /\ Horizon \in Nat /\ MaxAway \in Nat /\ AnswerDays \in Nat /\ VisitDays \subseteq Nat

VARIABLES today,
          status,      \* of the obligation
          cadence, createdAt,
          rows,        \* table cycles, in the order of listCyclesForObligation
          ledger,      \* the newest row of cap_periods, spent and reserved taken together
          lastRun,     \* the last day on which a run got to its end
          expires,     \* the newest ACTIVE CYCLE grant, and the attached rule
          lastActive,  \* last_active_at
          continuity,  \* the threshold and the CONTINUITY grant, days = 0 for none
          away,        \* what MaxAway bounds
          neglected    \* history: the user, or the scheduler, has let a day pass, or the
                       \* user wants to be taken for gone after a month or less

vars == <<today, status, cadence, createdAt, rows, ledger, lastRun, expires, lastActive,
          continuity, away, neglected>>

-----------------------------------------------------------------------------
\* The obligation as computeNextDueAt is asked about it: its last row or none.
NextDue ==
  IF rows = << >> THEN FirstDueAt(cadence, createdAt) ELSE NextDueAt(cadence, Last(rows).due)

\* The window counted from the due date the scheduler already has.
FaultyWindowEnd ==
  (IF rows = << >> THEN FirstDueAt(cadence, createdAt) ELSE Last(rows).due) + Grace

\* expiresAtUnix of the routes that create and renew.
WindowEnd == NextDue + Grace

\* POST /users/:id/obligations, and its grant.
Init ==
  /\ \E plan \in Plans : cadence = plan.cadence /\ createdAt = plan.createdAt
  /\ today = createdAt /\ lastActive = createdAt
  /\ status = "ACTIVE"
  /\ rows = << >>
  /\ ledger = [period |-> MonthOf(createdAt), charged |-> 0]
  /\ lastRun = -1
  /\ expires = FirstDueAt(cadence, createdAt) + Grace
  /\ continuity = [days |-> 0, expires |-> 0]
  /\ away = 0
  /\ neglected = FALSE

-----------------------------------------------------------------------------
(* The user. *)

\* The Renew button of Settings.tsx, and the reminder of Dashboard.tsx.
NeedsRenewal == status = "ACTIVE" /\ expires - today <= WarningWindow

\* A renewal that is no sign of life.
FaultyRenew ==
  /\ NeedsRenewal
  /\ expires' = WindowEnd
  /\ UNCHANGED <<today, status, cadence, createdAt, rows, ledger, lastRun, lastActive, continuity, away, neglected>>

\* POST /obligations/:id/renew, the taps, and POST /obligations/:id/grant.
Renew ==
  /\ NeedsRenewal
  /\ expires' = WindowEnd
  /\ lastActive' = today
  /\ UNCHANGED <<today, status, cadence, createdAt, rows, ledger, lastRun, continuity, away, neglected>>

\* ContinuitySetup.tsx and its two routes.
SetUpContinuity(days) ==
  /\ status = "ACTIVE"
  /\ today - createdAt \in VisitDays
  /\ continuity' = [days |-> days, expires |-> today + ContinuityDays]
  /\ lastActive' = today
  /\ neglected' = (neglected \/ days <= 31)
  /\ UNCHANGED <<today, status, cadence, createdAt, rows, ledger, lastRun, expires, away>>

\* POST /users/sync, by every refresh of the application, and POST /users/:id/check-in.
Visit ==
  /\ today - createdAt \in VisitDays
  /\ lastActive' = today
  /\ UNCHANGED <<today, status, cadence, createdAt, rows, ledger, lastRun, expires, continuity, away, neglected>>

\* Cancelled or killed.
Stop ==
  /\ status = "ACTIVE"
  /\ status' = "STOPPED"
  /\ expires' = 0
  /\ lastActive' = today
  /\ UNCHANGED <<today, cadence, createdAt, rows, ledger, lastRun, continuity, away, neglected>>

-----------------------------------------------------------------------------
(* The scheduler. *)

NoQuote == [principal |-> 0, fees |-> 0, recipient |-> "NONE"]

\* One round of the loop of generateDueCycles.
GenerateDueCycle ==
  /\ status = "ACTIVE"
  /\ lastRun < today
  /\ NextDue <= today
  /\ rows' = Append(rows, [due |-> NextDue, ran |-> 0, paid |-> "PENDING", quote |-> NoQuote])
  /\ UNCHANGED <<today, status, cadence, createdAt, ledger, lastRun, expires, lastActive, continuity, away, neglected>>

\* How many cycles the cap of an obligation is sized for, in a month of four weeks.
FaultyMaxCyclesPerCalendarMonth ==
  CASE cadence.kind = "WEEKLY" -> 4 [] cadence.kind = "BIWEEKLY" -> 2 [] OTHER -> 1

\* maxCyclesPerCalendarMonth of NewPayment.tsx.
MaxCyclesPerCalendarMonth ==
  CASE cadence.kind = "WEEKLY" -> 5 [] cadence.kind = "BIWEEKLY" -> 3 [] OTHER -> 1

\* cumulativeCapAusd, as the form sends it.
Cap == MaxAusdCost * MaxCyclesPerCalendarMonth

\* totalAusd.
Cost(quote) == quote.principal + quote.fees

\* withinTolerance.
WithinTolerance(quote) == quote.principal <= MaxAusdCost /\ quote.fees <= MaxFeeAusd

\* Spent and reserved in the month of today, after initPeriod.
Charged == IF ledger.period = MonthOf(today) THEN ledger.charged ELSE 0

\* The guard of reserve.
Fits(quote) == Charged + Cost(quote) <= Cap

\* isUserInactive, strictly.
FaultyRedirected == continuity.days > 0 /\ today - lastActive > continuity.days

\* isUserInactive, and a CONTINUITY grant that is ACTIVE, whether or not it lapsed.
Redirected == continuity.days > 0 /\ today - lastActive >= continuity.days

\* The price of the moment, for the recipient of the moment.
QuoteOf(price) ==
  [principal |-> price.principal, fees |-> price.fees,
   recipient |-> IF Redirected THEN "BACKUP" ELSE "PAYEE"]

\* The rules of the two policies: their recipient, maxAmountBaseUnits and the window.
CycleAllows(quote) ==
  /\ quote.recipient = "PAYEE"
  /\ Cost(quote) <= MaxAusdCost + MaxFeeAusd
  /\ today < expires

ContinuityAllows(quote) ==
  /\ quote.recipient = "BACKUP"
  /\ Cost(quote) <= MaxAusdCost + MaxFeeAusd
  /\ today < continuity.expires

\* runCycle: the gates in their order, and the send of what needs no approval.
Outcome(quote) ==
  IF ~Fits(quote) THEN "SKIPPED"
  ELSE IF ~WithinTolerance(quote) THEN "ASKED"
  ELSE IF CycleAllows(quote) \/ ContinuityAllows(quote) THEN quote.recipient
  ELSE "REFUSED"

\* The outcomes whose reservation is not released.
Charges == {"PAYEE", "BACKUP", "ASKED"}

\* listDueCycles.
Pending == {i \in DOMAIN rows : rows[i].paid = "PENDING"}

\* One round of the loop of runDueCycles, over what was listed while the
\* obligation was ACTIVE: a user who has stopped it since is not asked.
DecideCycle(i, price) ==
  LET quote == QuoteOf(price)
  IN /\ lastRun < today
     /\ NextDue > today
     /\ \A j \in Pending : i <= j
     /\ today - createdAt \in MovingDays \/ price \in UsualPrices
     /\ rows' = [rows EXCEPT ![i].ran = today, ![i].paid = Outcome(quote), ![i].quote = quote]
     /\ ledger' = [period |-> MonthOf(today),
                   charged |-> Charged + (IF Outcome(quote) \in Charges THEN Cost(quote) ELSE 0)]
     /\ UNCHANGED <<today, status, cadence, createdAt, lastRun, expires, lastActive, continuity, away, neglected>>

EndRun ==
  /\ status = "ACTIVE"
  /\ lastRun < today
  /\ NextDue > today
  /\ Pending = {}
  /\ lastRun' = today
  /\ UNCHANGED <<today, status, cadence, createdAt, rows, ledger, expires, lastActive, continuity, away, neglected>>

\* Bound: the days of a stopped obligation, which has no more rows, do not count.
NextDay ==
  /\ status = "ACTIVE"
  /\ today - createdAt < Horizon
  /\ lastRun = today \/ away < MaxAway
  /\ away' = IF lastRun = today THEN away ELSE away + 1
  /\ today' = today + 1
  /\ neglected' = (neglected \/ NeedsRenewal \/ lastRun # today)
  /\ UNCHANGED <<status, cadence, createdAt, rows, ledger, lastRun, expires, lastActive, continuity>>

-----------------------------------------------------------------------------
(* The answer to a cycle that requires approval, which a refresh, a sign of life, *)
(* has shown to the user.                                                         *)

Asked == {i \in DOMAIN rows : rows[i].paid = "ASKED" /\ today - rows[i].ran <= AnswerDays}

\* saveCycle, and release if the reservation has no more use.
Finish(i, outcome) ==
  /\ rows' = [rows EXCEPT ![i].paid = outcome]
  /\ ledger' = IF outcome \notin Charges /\ ledger.period = MonthOf(rows[i].ran)
               THEN [ledger EXCEPT !.charged = @ - Cost(rows[i].quote)] ELSE ledger
  /\ lastActive' = today
  /\ UNCHANGED <<today, status, cadence, createdAt, lastRun, expires, continuity, away, neglected>>

\* POST approve, within quoteExpirySeconds: always by the agent of the CYCLE grant.
Approve(i) ==
  /\ rows[i].ran = today
  /\ Finish(i, IF CycleAllows(rows[i].quote) THEN rows[i].quote.recipient ELSE "REFUSED")

\* POST approve, after them.
ApproveLapsed(i) == Finish(i, "EXPIRED")

\* POST skip.
SkipCycle(i) == Finish(i, "DECLINED")

Next ==
  \/ Renew
  \/ \E days \in Thresholds : SetUpContinuity(days)
  \/ Visit
  \/ Stop
  \/ GenerateDueCycle
  \/ \E i \in Pending, price \in Prices : DecideCycle(i, price)
  \/ \E i \in Asked : Approve(i) \/ ApproveLapsed(i) \/ SkipCycle(i)
  \/ EndRun
  \/ NextDay

Spec == Init /\ [][Next]_vars

-----------------------------------------------------------------------------
\* A day of the calendar: the right day of the week, in every second week from
\* the creation for BIWEEKLY, or the configured day of the month, or the last
\* one of a month that is too short.
OnCalendar(c, start, d) ==
  LET m == MonthOf(d) IN
  CASE c.kind = "WEEKLY" -> Weekday(d) = c.day
    [] c.kind = "BIWEEKLY" -> Weekday(d) = c.day /\ (d - start) % 14 < 7
    [] OTHER -> \/ d - MonthStart(m) + 1 = c.day
                \/ d + 1 = MonthStart(m + 1) /\ d - MonthStart(m) + 1 < c.day

\* However late the scheduler runs, and wherever it dies, an obligation has one
\* row for each day of its calendar from its creation to its last run, and none
\* besides, in order: no period is left out, no date comes twice, a short month
\* leaves no trace in the next.
RowsFollowCalendar ==
  /\ \A i \in DOMAIN rows : /\ rows[i].due \in createdAt .. today
                           /\ OnCalendar(cadence, createdAt, rows[i].due)
  /\ \A i, j \in DOMAIN rows : i < j => rows[i].due < rows[j].due
  /\ \A d \in createdAt .. lastRun :
       OnCalendar(cadence, createdAt, d) => \E i \in DOMAIN rows : rows[i].due = d

\* What was decided in the month of a row, up to it.
SameMonth(i) == {j \in 1 .. i : MonthOf(rows[j].ran) = MonthOf(rows[i].ran)}

Late(i) == MonthOf(rows[i].due) < MonthOf(rows[i].ran)

\* Dearer with its fees than the ceiling of a principal, or of fees alone.
Exceptional(quote) == Cost(quote) > MaxAusdCost \/ quote.fees > MaxFeeAusd

\* The cap, a number of principals at their ceiling, has room for the cycles of a
\* month with their fees: one is skipped only in a month that was also asked to
\* pay for a cycle due in an earlier one, or for one that cost with its fees more
\* than that ceiling, or had fees above their own.
OrdinaryMonthFits ==
  \A i \in DOMAIN rows :
    rows[i].paid = "SKIPPED" => \E j \in SameMonth(i) : Late(j) \/ Exceptional(rows[j].quote)

\* NewPayment.tsx: the cap is "Sized to the worst case per cadence so a legitimate
\* month's worth of cycles always fits": none is skipped in a month whose cycles
\* were due in it and within the tolerances.
LegitimateMonthFits ==
  \A i \in DOMAIN rows :
    rows[i].paid = "SKIPPED" => \E j \in SameMonth(i) : Late(j) \/ ~WithinTolerance(rows[j].quote)

\* A renewal that the application asks for does away with the reason it asked,
\* once the scheduler has made the rows that are due.
RenewalReaches == [][Renew /\ today < NextDue => ~NeedsRenewal']_vars

\* A user who renews on the day the application asks, with a scheduler that runs
\* every day, has every cycle within the tolerances paid to the payee on the day it
\* is due, until they stop it, unless the month's cap went to exceptional prices: no
\* window ends between two renewals, and renewing is sign of life enough for any
\* threshold that is longer than a month.
AttentiveIsPaid ==
  status = "ACTIVE" /\ ~neglected =>
    \A i \in DOMAIN rows :
      \/ rows[i].paid = "PENDING" /\ rows[i].due = today
      \/ /\ rows[i].ran = rows[i].due
         /\ \/ rows[i].paid = "PAYEE"
            \/ rows[i].paid = "SKIPPED" /\ \E j \in SameMonth(i) : Exceptional(rows[j].quote)
            \/ rows[i].paid # "PENDING" /\ ~WithinTolerance(rows[i].quote)

\* A user who set continuity up and has not been seen for the threshold has
\* every cycle that is decided from then on, for as long as the authority was
\* given, redirected and not refused, unless the limits stand in its way.
QuietPaysBackup ==
  \A i \in DOMAIN rows :
    /\ continuity.days > 0
    /\ rows[i].ran >= lastActive + continuity.days
    /\ rows[i].ran < continuity.expires
    => rows[i].paid \in {"BACKUP", "SKIPPED", "ASKED"}
=============================================================================
