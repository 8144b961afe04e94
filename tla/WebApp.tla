------------------------------- MODULE WebApp -------------------------------
(***************************************************************************)
(* One tab of the web application: the Privy session, onboarding, the      *)
(* shell of the signed-in part with its one shared copy of the server's    *)
(* data, and the pages that show cycles and answer quotes.                 *)
(* Sources, under frontend/src: App.tsx, pages/Landing.tsx,                *)
(* pages/Onboarding.tsx, app/AppShell.tsx, app/AppDataContext.tsx,         *)
(* api/client.ts, app/activityFeed.ts, and in pages/app Dashboard.tsx,     *)
(* PaymentsList.tsx, ActivityList.tsx and QuoteView.tsx; and the routes    *)
(* they call in http/routes/users.ts and obligations.ts.                   *)
(*                                                                         *)
(* The server is what PaymentCycles is in detail: a row per cycle, which   *)
(* moves on by itself and when a quote is answered.  The cycles belong to  *)
(* one obligation and are numbered in the order of their due dates.  What  *)
(* runs between two awaits is one step; a request is served at one moment  *)
(* and its response arrives at a later one.                                *)
(***************************************************************************)
EXTENDS CycleStateMachine, Sequences, SequencesExt

CONSTANTS NumCycles,    \* cycles of the obligation
          MaxRefreshes, \* bound: refreshes under way at once
          MaxAnswers    \* bound: answers under way at once

ASSUME WebAppAssumption ==
  /\ NumCycles \in Nat \ {0}
  /\ MaxRefreshes \in Nat /\ MaxAnswers \in Nat

Cycles == 1 .. NumCycles

VARIABLES ready,         \* Privy has read its stored session
          authenticated, \* there is a session
          url,           \* the route
          quoteOf,       \* the cycle in the route of QuoteView, else 0
          onboarding,    \* state of Onboarding, kept fresh while it is not mounted
          syncs,         \* POST /users/sync sent by Onboarding and unanswered
          provider,      \* state of AppDataProvider
          refreshes,     \* its refresh() calls under way, oldest first
          cache,         \* the data it holds
          busy,          \* QuoteView waits for an answer
          answers,       \* approvals and skips under way
          rows,          \* server: state of each cycle
          wallet,        \* server: the wallet it has recorded for the user
          answered,      \* history: cycles whose answer was confirmed
          muddled,       \* history: refreshes have overlapped or failed since one ran alone
          unvouched      \* history: a sync of the application failed or found no wallet

sessionVars == <<ready, authenticated>>
serverVars == <<rows, wallet>>
vars == <<ready, authenticated, url, quoteOf, onboarding, syncs, provider, refreshes, cache,
          busy, answers, rows, wallet, answered, muddled, unvouched>>

RowStates == CycleStates \cup {"ABSENT"}

AppRoutes == {"/app", "/app/payments", "/app/quotes", "/app/settings"}

NewOnboarding == [phase |-> "authenticating", skipWizard |-> FALSE, error |-> FALSE, completed |-> FALSE]

NewProvider == [mounted |-> FALSE, hasLoadedOnce |-> FALSE, loading |-> TRUE]

NewCache == [rows |-> [c \in Cycles |-> "ABSENT"], wallet |-> "unknown"]

\* The tab is opened, or reloaded, at a bookmark or a typed address, by somebody
\* who may have been here before.
Init ==
  /\ ready = FALSE /\ authenticated \in BOOLEAN
  /\ url \in {"/", "/onboarding", "/app"} /\ quoteOf = 0
  /\ onboarding = NewOnboarding /\ syncs = {}
  /\ provider = NewProvider /\ refreshes = << >> /\ cache = NewCache
  /\ busy = FALSE /\ answers = {}
  /\ rows = [c \in Cycles |-> "ABSENT"]
  /\ wallet \in {"unknown", "stale"}
  /\ answered = {} /\ muddled = FALSE /\ unvouched = FALSE

-----------------------------------------------------------------------------
(* The tab, the session, and the server. *)

\* The calls of Q under way, once the caller's surroundings have gone.
Bereft(Q, level) ==
  LET rank == [page |-> 3, app |-> 2, tab |-> 1, gone |-> 0] IN
  {IF rank[a.caller] > rank[level] THEN [a EXCEPT !.caller = level] ELSE a : a \in Q}

\* A route of the application is entered from another one, or from outside it.
Go(u, c) ==
  /\ url' = u /\ quoteOf' = c
  /\ busy' = FALSE

\* The provider is unmounted; its refreshes set nothing any more.
UnmountProvider ==
  /\ provider' = NewProvider /\ refreshes' = << >> /\ cache' = NewCache
  /\ answers' = Bereft(answers, "tab")

\* usePrivy().ready.
Hydrate ==
  /\ ~ready
  /\ ready' = TRUE
  /\ UNCHANGED <<authenticated, url, quoteOf, onboarding, syncs, provider, refreshes, cache,
                 busy, answers, serverVars, answered, muddled, unvouched>>

\* logout(), whose onSuccess goes to the landing page, or a session that lapses.
EndSession ==
  /\ ready /\ authenticated
  /\ \/ url = "/app/settings" /\ Go("/", 0)
     \/ url \in AppRoutes /\ busy' = FALSE /\ UNCHANGED <<url, quoteOf>>
  /\ authenticated' = FALSE
  /\ UnmountProvider
  /\ UNCHANGED <<ready, onboarding, syncs, serverVars, answered, muddled, unvouched>>

\* What the scheduler, and the chain, make of a row: rows are made, and decided, in
\* the order of their due dates.
Scheduled(s) ==
  CASE s = "ABSENT" -> {"PENDING_QUOTE"}
    [] s = "PENDING_QUOTE" -> {"REQUIRES_APPROVAL", "EXECUTING", "SKIPPED"}
    [] s = "EXECUTING" -> {"SETTLED", "FAILED"}
    [] OTHER -> {}

Schedule(c) ==
  /\ \E s \in Scheduled(rows[c]) : rows' = [rows EXCEPT ![c] = s]
  /\ c > 1 /\ rows[c] \in {"ABSENT", "PENDING_QUOTE"} => rows[c - 1] # rows[c]
  /\ UNCHANGED <<sessionVars, url, quoteOf, onboarding, syncs, provider, refreshes, cache,
                 busy, answers, wallet, answered, muddled, unvouched>>

\* POST /users/sync: the wallet Privy lists for this user, if it answers and has
\* one already.
Synced(found) == IF found THEN "current" ELSE wallet

-----------------------------------------------------------------------------
(* Landing.tsx and Onboarding.tsx. *)

\* entryPath
Enter ==
  /\ url = "/"
  /\ Go(IF ready /\ authenticated THEN "/app" ELSE "/onboarding", 0)
  /\ onboarding' = NewOnboarding
  /\ UNCHANGED <<sessionVars, syncs, provider, refreshes, cache, answers, serverVars, answered, muddled, unvouched>>

\* runSync(), up to its await.
RunSync(skip) ==
  /\ onboarding' = [onboarding EXCEPT !.phase = "syncing", !.error = FALSE, !.skipWizard = skip,
                                      !.completed = TRUE]
  /\ syncs' = syncs \cup {[skip |-> skip, mounted |-> TRUE]}

\* onComplete with wasAlreadyAuthenticated: the hook finds a session.
CompleteReturning ==
  /\ url = "/onboarding" /\ ready /\ authenticated
  /\ ~onboarding.completed
  /\ RunSync(TRUE)
  /\ UNCHANGED <<sessionVars, url, quoteOf, provider, refreshes, cache, busy, answers,
                 serverVars, answered, muddled, unvouched>>

\* "Continue with passkey", and onComplete for a fresh session.
Login ==
  /\ url = "/onboarding" /\ ready /\ ~authenticated
  /\ authenticated' = TRUE
  /\ RunSync(FALSE)
  /\ UNCHANGED <<ready, url, quoteOf, provider, refreshes, cache, busy, answers,
                 serverVars, answered, muddled, unvouched>>

\* onError
LoginFails ==
  /\ url = "/onboarding" /\ ready /\ ~authenticated
  /\ onboarding' = [onboarding EXCEPT !.error = TRUE]
  /\ UNCHANGED <<sessionVars, url, quoteOf, syncs, provider, refreshes, cache, busy, answers,
                 serverVars, answered, muddled, unvouched>>

\* The response of a sync; navigate() goes through even if the user has left.
SyncSucceeds(k) ==
  /\ k \in syncs
  /\ syncs' = syncs \ {k}
  /\ onboarding' = IF k.skip THEN NewOnboarding ELSE [onboarding EXCEPT !.phase = "synced"]
  /\ \E found \in BOOLEAN : wallet' = Synced(found)
  /\ IF k.skip THEN Go("/app", 0) /\ answers' = Bereft(answers, "app")
     ELSE UNCHANGED <<url, quoteOf, busy, answers>>
  /\ UNCHANGED <<sessionVars, provider, refreshes, cache, rows, answered, muddled, unvouched>>

SyncFails(k) ==
  /\ k \in syncs
  /\ syncs' = syncs \ {k}
  /\ onboarding' = IF k.mounted THEN [onboarding EXCEPT !.phase = "error", !.error = TRUE]
                   ELSE onboarding
  /\ UNCHANGED <<sessionVars, url, quoteOf, provider, refreshes, cache, busy, answers,
                 serverVars, answered, muddled, unvouched>>

\* The two faces of the page, and the buttons they hold.
ShowsRedirect == onboarding.skipWizard /\ onboarding.phase \in {"syncing", "error"}

\* A Retry button on the page of a returning visitor only.
FaultyOffersRetry == authenticated /\ ShowsRedirect /\ onboarding.phase = "error"

OffersRetry ==
  /\ authenticated
  /\ IF ShowsRedirect THEN onboarding.phase = "error"
     ELSE onboarding.phase # "synced" /\ onboarding.error

OffersLogin == ~ShowsRedirect /\ onboarding.phase # "synced" /\ ~authenticated

Retry ==
  /\ url = "/onboarding" /\ ready /\ OffersRetry
  /\ RunSync(onboarding.skipWizard)
  /\ UNCHANGED <<sessionVars, url, quoteOf, provider, refreshes, cache, busy, answers,
                 serverVars, answered, muddled, unvouched>>

GoToDashboard ==
  /\ url = "/onboarding" /\ ready /\ ~ShowsRedirect /\ onboarding.phase = "synced"
  /\ Go("/app", 0)
  /\ onboarding' = NewOnboarding
  /\ UNCHANGED <<sessionVars, syncs, provider, refreshes, cache, answers,
                 serverVars, answered, muddled, unvouched>>

\* The browser's Back button.  A sync that would not lead on changes nothing then.
LeaveOnboarding ==
  /\ url = "/onboarding"
  /\ Go("/", 0)
  /\ onboarding' = NewOnboarding
  /\ syncs' = {[k EXCEPT !.mounted = FALSE] : k \in {l \in syncs : l.skip}}
  /\ UNCHANGED <<sessionVars, provider, refreshes, cache, answers, serverVars,
                 answered, muddled, unvouched>>

-----------------------------------------------------------------------------
(* AppShell.tsx and AppDataContext.tsx. *)

\* The guard of AppShell, for whoever has no session.
Redirect ==
  /\ url \in AppRoutes /\ ready /\ ~authenticated
  /\ Go("/onboarding", 0)
  /\ onboarding' = NewOnboarding
  /\ answers' = Bereft(answers, "tab")
  /\ UNCHANGED <<sessionVars, syncs, provider, refreshes, cache, serverVars, answered, muddled, unvouched>>

Unread == [c \in Cycles |-> "UNREAD"]

\* A refresh that sends the page back to "Loading...".
FaultyStartRefresh(p) == [p EXCEPT !.loading = TRUE]

\* refresh(), up to its first await.
StartRefresh(p) == [p EXCEPT !.loading = ~p.hasLoadedOnce]

\* A refresh that takes the server's record of the wallet as it is.
FaultyFirstStep == "reading"

FirstStep == "syncing"

BeginRefresh ==
  /\ provider' = [StartRefresh(provider) EXCEPT !.mounted = TRUE]
  /\ refreshes' = Append(refreshes, [step |-> FirstStep, seen |-> Unread])
  /\ muddled' = (refreshes # << >>)

\* The effect that loads the data when the provider is mounted.
MountProvider ==
  /\ url \in AppRoutes /\ ready /\ authenticated /\ ~provider.mounted
  /\ BeginRefresh
  /\ unvouched' = FALSE
  /\ UNCHANGED <<sessionVars, url, quoteOf, onboarding, syncs, cache, busy, answers,
                 serverVars, answered>>

\* syncUser(), whose failure is swallowed.
SyncOnRefresh(i) ==
  /\ refreshes[i].step = "syncing"
  /\ refreshes' = [refreshes EXCEPT ![i].step = "reading"]
  /\ \E found \in BOOLEAN :
       /\ wallet' = Synced(found)
       /\ unvouched' = (unvouched \/ ~found)
  /\ UNCHANGED <<sessionVars, url, quoteOf, onboarding, syncs, provider, cache, busy, answers,
                 rows, answered, muddled>>

\* The lists and the cycles, read from the server at one moment ...
ReadRows(i) ==
  /\ refreshes[i].step = "reading" /\ refreshes[i].seen = Unread
  /\ refreshes' = [refreshes EXCEPT ![i].seen = rows]
  /\ UNCHANGED <<sessionVars, url, quoteOf, onboarding, syncs, provider, cache, busy, answers,
                 serverVars, answered, muddled, unvouched>>

\* ... and shown at another: setCycles().
ShowRows(i) ==
  /\ refreshes[i].step = "reading" /\ refreshes[i].seen # Unread
  /\ cache' = [cache EXCEPT !.rows = refreshes[i].seen]
  /\ refreshes' = [refreshes EXCEPT ![i] = [step |-> "balance", seen |-> Unread]]
  /\ UNCHANGED <<sessionVars, url, quoteOf, onboarding, syncs, provider, busy, answers,
                 serverVars, answered, muddled, unvouched>>

\* The finally block.
Loaded == [provider EXCEPT !.hasLoadedOnce = TRUE, !.loading = FALSE]

\* GET /users/:id/balance, of the wallet the server has recorded, or nothing if it fails.
FinishRefresh(i) ==
  /\ refreshes[i].step = "balance"
  /\ refreshes' = RemoveAt(refreshes, i)
  /\ provider' = Loaded
  /\ \E w \in {wallet, "unknown"} : cache' = [cache EXCEPT !.wallet = w]
  /\ UNCHANGED <<sessionVars, url, quoteOf, onboarding, syncs, busy, answers,
                 serverVars, answered, muddled, unvouched>>

\* One of the lists cannot be read: the data stays as it is.
RefreshFails(i) ==
  /\ refreshes[i].step = "reading"
  /\ refreshes' = RemoveAt(refreshes, i)
  /\ provider' = Loaded
  /\ muddled' = TRUE
  /\ UNCHANGED <<sessionVars, url, quoteOf, onboarding, syncs, cache, busy, answers,
                 serverVars, answered, unvouched>>

\* Another flow of the application ends, which Continuity and Checkouts describe,
\* and asks for the data again.
RefreshElsewhere ==
  /\ provider.mounted
  /\ Len(refreshes) < MaxRefreshes
  /\ BeginRefresh
  /\ UNCHANGED <<sessionVars, url, quoteOf, onboarding, syncs, cache, busy, answers,
                 serverVars, answered, unvouched>>

-----------------------------------------------------------------------------
(* The pages.  They show what the provider holds, never the server's rows. *)

\* <Outlet />, in place of "Loading...".
Showing == url \in AppRoutes /\ provider.mounted /\ ~provider.loading

\* What a page makes of rows r of one obligation, as the provider holds them.
Listed(r) == {c \in DOMAIN r : r[c] # "ABSENT"}

ToReview(r) == {c \in DOMAIN r : r[c] = "REQUIRES_APPROVAL"}

\* NON_TERMINAL, of Dashboard.tsx and PaymentsList.tsx.
NON_TERMINAL == {"PENDING_QUOTE", "QUOTED", "FUNDS_RESERVED", "AUTO_APPROVED",
                 "REQUIRES_APPROVAL", "EXECUTING"}

\* Dashboard.tsx: the cycle under "Coming up", or 0.
ComingUp(r) ==
  LET upcoming == {c \in DOMAIN r : r[c] \in NON_TERMINAL} IN
  IF upcoming = {} THEN 0 ELSE Min(upcoming)

\* PaymentsList.tsx: where the obligation's row leads, or 0.
RelevantCycle(r) ==
  IF ToReview(r) # {} THEN Min(ToReview(r))
  ELSE IF Listed(r) = {} THEN 0 ELSE Max(Listed(r))

\* Dashboard.tsx: where the banner leads, a cycle or 0 for the list of payments.
ReviewTarget(r) == IF Cardinality(ToReview(r)) = 1 THEN Min(ToReview(r)) ELSE 0

\* The links of the pages and of the sidebar, and Back.
Links ==
  {<<u, 0>> : u \in AppRoutes \ {"/app/quotes"}} \cup
  CASE url = "/app" ->
         {<<"/app/quotes", c>> : c \in {ComingUp(cache.rows)} \cup
            (IF ToReview(cache.rows) = {} THEN {} ELSE {ReviewTarget(cache.rows)})}
    [] url = "/app/payments" -> {<<"/app/quotes", RelevantCycle(cache.rows)>>}
    [] OTHER -> {}

Follow ==
  /\ Showing
  /\ \E l \in Links :
       /\ l[1] # url /\ (l[1] = "/app/quotes" => l[2] # 0)
       /\ Go(l[1], l[2])
  /\ answers' = Bereft(answers, "app")
  /\ UNCHANGED <<sessionVars, onboarding, syncs, provider, refreshes, cache, serverVars, answered, muddled, unvouched>>

-----------------------------------------------------------------------------
(* QuoteView.tsx, and the two routes it calls. *)

\* handleApprove(), handleSkip(), up to their await.
Tap(skips) ==
  /\ Showing /\ url = "/app/quotes"
  /\ cache.rows[quoteOf] = "REQUIRES_APPROVAL"
  /\ ~busy
  /\ Cardinality(answers) < MaxAnswers
  /\ busy' = TRUE
  /\ answers' = answers \cup {[cycle |-> quoteOf, skips |-> skips, caller |-> "page", outcome |-> "sent"]}
  /\ UNCHANGED <<sessionVars, url, quoteOf, onboarding, syncs, provider, refreshes, cache,
                 serverVars, answered, muddled, unvouched>>

\* What the routes make of a row that waits for an answer.
Served(skips) == IF skips THEN {"SKIPPED"} ELSE {"EXECUTING", "SETTLED", "FAILED", "EXPIRED"}

\* skipCycle() or approveCycle(); a row that does not wait is refused.
Serve(a) ==
  /\ a \in answers /\ a.outcome = "sent"
  /\ LET waits == rows[a.cycle] = "REQUIRES_APPROVAL"
         b == [a EXCEPT !.outcome = IF waits THEN "done" ELSE "refused", !.skips = FALSE]
     IN /\ IF waits THEN \E s \in Served(a.skips) : rows' = [rows EXCEPT ![a.cycle] = s]
           ELSE rows' = rows
        /\ answers' = (answers \ {a}) \cup IF a.caller = "gone" THEN {} ELSE {b}
  /\ UNCHANGED <<sessionVars, url, quoteOf, onboarding, syncs, provider, refreshes, cache, busy,
                 wallet, answered, muddled, unvouched>>

\* The page reloads the data when the button is tapped, and does not after the answer.
FaultyConfirmed(a) ==
  /\ a \in answers /\ a.outcome = "done"
  /\ answered' = answered \cup {a.cycle}
  /\ Go("/app/payments", 0)
  /\ answers' = Bereft(answers \ {a}, "app")
  /\ UNCHANGED <<sessionVars, onboarding, syncs, provider, refreshes, muddled, cache,
                 serverVars, unvouched>>

\* The response of an answer: refresh(), not awaited, and on to the payments,
\* even if the user has left the page meanwhile.
Confirmed(a) ==
  /\ a \in answers /\ a.outcome = "done"
  /\ IF a.caller \in {"page", "app"}
     THEN Len(refreshes) < MaxRefreshes /\ BeginRefresh /\ answered' = answered \cup {a.cycle}
     ELSE UNCHANGED <<provider, refreshes, muddled, answered>>
  /\ Go("/app/payments", 0)
  /\ answers' = Bereft(answers \ {a}, "app")
  /\ UNCHANGED <<sessionVars, onboarding, syncs, cache, serverVars, unvouched>>

\* Refused, or the call failed, before or after it was served.
NotConfirmed(a) ==
  /\ a \in answers /\ a.caller # "gone"
  /\ answers' = (answers \ {a}) \cup
                IF a.outcome = "sent" THEN {[a EXCEPT !.caller = "gone"]} ELSE {}
  /\ busy' = (busy /\ a.caller # "page")
  /\ UNCHANGED <<sessionVars, url, quoteOf, onboarding, syncs, provider, refreshes, cache,
                 serverVars, answered, muddled, unvouched>>

-----------------------------------------------------------------------------
OnboardingStep ==
  \/ Enter
  \/ CompleteReturning
  \/ Login
  \/ LoginFails
  \/ \E k \in syncs : SyncSucceeds(k) \/ SyncFails(k)
  \/ Retry
  \/ GoToDashboard
  \/ LeaveOnboarding

RefreshStep ==
  \E i \in DOMAIN refreshes :
    SyncOnRefresh(i) \/ ReadRows(i) \/ ShowRows(i) \/ FinishRefresh(i) \/ RefreshFails(i)

AnswerStep ==
  \/ \E skips \in BOOLEAN : Tap(skips)
  \/ \E a \in answers : Serve(a) \/ Confirmed(a) \/ NotConfirmed(a)

Next ==
  \/ Hydrate
  \/ EndSession
  \/ \E c \in Cycles : Schedule(c)
  \/ OnboardingStep
  \/ Redirect
  \/ MountProvider
  \/ RefreshStep
  \/ RefreshElsewhere
  \/ Follow
  \/ AnswerStep

Spec == Init /\ [][Next]_vars

-----------------------------------------------------------------------------
\* Nobody is stranded.  Whoever has a session and is on the onboarding page sees the
\* answer to a sync come in, or has a button that leads on (the bug its header tells
\* of was a page without either); and "Loading..." is on display only while a
\* refresh is under way that will take it away, whatever fails in it.
WayForward ==
  /\ url = "/onboarding" /\ ready =>
       \/ authenticated /\ ~onboarding.completed
       \/ \E k \in syncs : k.mounted
       \/ OffersLogin \/ OffersRetry
       \/ ~ShowsRedirect /\ onboarding.phase = "synced"
  /\ provider.mounted /\ provider.loading => refreshes # << >>

\* The page on display is replaced by "Loading..." at the first load only: as
\* long as the user stays in the application, no refresh takes away a page and
\* what it has just reported.
PageSurvivesRefresh ==
  [][Showing /\ provider'.mounted /\ url' \in AppRoutes => Showing']_vars

\* Every way into the application brings the server's record of the wallet up to
\* date first: unless a sync failed or came before there was a wallet, the
\* balance on the screen is that of the wallet the user has.
BalanceIsOfTheWallet ==
  provider.mounted /\ ~unvouched => cache.wallet # "stale"

\* A confirmed answer is seen: once the refresh it asks for has ended, the cycle
\* is no longer offered for review, provided that refreshes did not overlap (an
\* older one that ends later shows older rows) and the last one did not fail.
AnswerIsSeen ==
  provider.mounted /\ refreshes = << >> /\ ~muddled => answered \cap ToReview(cache.rows) = {}

=============================================================================
