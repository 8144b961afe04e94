---------------------------- MODULE WebAppProofs ----------------------------
(***************************************************************************)
(* The properties of WebApp, for any number of cycles, refreshes and       *)
(* answers under way at once.                                              *)
(*                                                                         *)
(* The inductive invariant has a part for each thing a page waits for:     *)
(* OnboardingOK for the first sync, ProviderOK for the data, WalletOK for  *)
(* the record of the wallet behind the balance, AnswersOK for what an      *)
(* answer changed.  Each has a lemma that says a step preserves it.        *)
(***************************************************************************)
EXTENDS WebApp, SequenceTheorems, FiniteSetTheorems, WellFoundedInduction, TLAPS

-----------------------------------------------------------------------------
(* The inductive invariant. *)

\* A run of the refresh, and what it has read of the rows.
Refresh == [step : {"syncing", "reading", "balance"}, seen : {Unread} \cup [Cycles -> RowStates]]

\* A tap of the user on approve or skip that is not confirmed yet.
Answer == [cycle : Cycles, skips : BOOLEAN, caller : {"page", "app", "tab", "gone"},
           outcome : {"sent", "done", "refused"}]

\* The types of the variables.
TypesOK ==
  /\ ready \in BOOLEAN /\ authenticated \in BOOLEAN
  /\ url \in {"/", "/onboarding"} \cup AppRoutes
  /\ url = "/app/quotes" => quoteOf \in Cycles
  /\ onboarding \in [phase : {"authenticating", "syncing", "synced", "error"},
                     skipWizard : BOOLEAN, error : BOOLEAN, completed : BOOLEAN]
  /\ syncs \subseteq [skip : BOOLEAN, mounted : BOOLEAN]
  /\ provider \in [mounted : BOOLEAN, hasLoadedOnce : BOOLEAN, loading : BOOLEAN]
  /\ refreshes \in Seq(Refresh)
  /\ cache \in [rows : [Cycles -> RowStates], wallet : {"unknown", "stale", "current"}]
  /\ answers \subseteq Answer
  /\ rows \in [Cycles -> RowStates]
  /\ wallet \in {"unknown", "stale", "current"}
  /\ answered \subseteq Cycles
  /\ muddled \in BOOLEAN /\ unvouched \in BOOLEAN

\* What the onboarding page waits for is under way, and what it has done it shows.
OnboardingOK ==
  /\ onboarding.phase = "authenticating" => ~onboarding.completed
  /\ onboarding.phase = "syncing" => \E k \in syncs : k.mounted
  /\ onboarding.phase = "error" => onboarding.error
  /\ url = "/onboarding" /\ onboarding.skipWizard => authenticated

\* A provider that is not mounted holds nothing and waits for nothing.
ProviderOK ==
  /\ ~provider.mounted => refreshes = << >> /\ cache = NewCache
  /\ \A a \in answers : a.caller \in {"page", "app"} => provider.mounted
  /\ provider.mounted /\ provider.loading => refreshes # << >>
  /\ provider.mounted /\ ~provider.loading => provider.hasLoadedOnce

\* A refresh reads the balance after its sync brought the wallet up to date.
WalletOK ==
  ~unvouched =>
    /\ \A i \in DOMAIN refreshes : refreshes[i].step # "syncing" => wallet = "current"
    /\ cache.wallet # "stale"

\* The states of a row that has been answered, or has gone on without an answer.
Beyond == {"EXECUTING", "SETTLED", "FAILED", "EXPIRED", "SKIPPED"}

\* While no refresh overlaps another, the one under way reads the rows after every
\* confirmed answer, because the answer began it.
FreshOK ==
  /\ Len(refreshes) <= 1
  /\ \A i \in DOMAIN refreshes :
       refreshes[i].seen = Unread \/ \A c \in answered : refreshes[i].seen[c] # "REQUIRES_APPROVAL"
  /\ \/ \E i \in DOMAIN refreshes : refreshes[i].step # "balance"
     \/ \A c \in answered : cache.rows[c] # "REQUIRES_APPROVAL"

\* What was answered stays so at the server, and in what the tab reads of it.
AnswersOK ==
  /\ \A a \in answers : a.outcome = "done" => rows[a.cycle] \in Beyond
  /\ \A c \in answered : rows[c] \in Beyond
  /\ ~muddled => FreshOK
-----------------------------------------------------------------------------
(* Sequences and sets of numbers. *)

\* RemoveAt leaves the other elements.
LEMMA Removed ==
  ASSUME NEW T, NEW s \in Seq(T), NEW i \in DOMAIN s
  PROVE  /\ RemoveAt(s, i) \in Seq(T) /\ Len(RemoveAt(s, i)) = Len(s) - 1
         /\ \A j \in DOMAIN RemoveAt(s, i) : \E k \in DOMAIN s : RemoveAt(s, i)[j] = s[k]
<1> DEFINE a == SubSeq(s, 1, i - 1)
           b == SubSeq(s, i + 1, Len(s))
<1>1. i \in 1 .. Len(s) /\ Len(s) \in Nat
  OBVIOUS
<1>2. /\ a \in Seq(T) /\ Len(a) = i - 1 /\ \A j \in 1 .. i - 1 : a[j] = s[j]
      /\ b \in Seq(T) /\ Len(b) = Len(s) - i /\ \A j \in 1 .. Len(s) - i : b[j] = s[i + j]
  OBVIOUS
<1>3. RemoveAt(s, i) = a \o b
  BY DEF RemoveAt
<1> HIDE DEF a, b
<1>4. a \o b \in Seq(T) /\ Len(a \o b) = Len(s) - 1
  BY <1>1, <1>2
<1>5. ASSUME NEW j \in 1 .. Len(s) - 1
      PROVE  \E k \in 1 .. Len(s) : (a \o b)[j] = s[k]
  <2>1. CASE j < i
    <3>1. j \in 1 .. Len(s) /\ (a \o b)[j] = s[j]
      BY <1>1, <1>2, <2>1
    <3> QED
      BY <3>1
  <2>2. CASE ~(j < i)
    <3>1. j - (i - 1) \in 1 .. Len(s) - i /\ i + (j - (i - 1)) = j + 1 /\ j + 1 \in 1 .. Len(s)
      BY <1>1, <2>2
    <3>2. (a \o b)[j] = b[j - (i - 1)]
      BY <1>1, <1>2, <2>2
    <3> QED
      BY <1>2, <3>1, <3>2
  <2> QED
    BY <2>1, <2>2
<1>6. DOMAIN (a \o b) = 1 .. Len(s) - 1 /\ DOMAIN s = 1 .. Len(s)
  BY <1>4, LenProperties
<1>7. \A j \in DOMAIN (a \o b) : \E k \in DOMAIN s : (a \o b)[j] = s[k]
  BY <1>5, <1>6
<1> QED
  BY <1>3, <1>4, <1>7

\* A set of row numbers has a least.
LEMMA MinIsIn ==
  ASSUME NEW n \in Nat, NEW S, S \subseteq 1 .. n, S # {}
  PROVE  Min(S) \in S
<1>1. S \subseteq Nat
  OBVIOUS
<1>2. PICK i \in S : \A j \in S : <<j, i>> \notin OpToRel(<, Nat)
  BY <1>1, WFMin, NatLessThanWellFounded, Zenon
<1>3. \A j \in S : ~(j < i)
  BY <1>1, <1>2 DEF OpToRel
<1>4. \A j \in S : i =< j
  BY <1>1, <1>3
<1> QED
  BY <1>4 DEF Min

\* A set of row numbers has a greatest.
LEMMA MaxIsIn ==
  ASSUME NEW n \in Nat, NEW S, S \subseteq 1 .. n, S # {}
  PROVE  Max(S) \in S
<1> DEFINE D == {n - i : i \in S}
<1>1. D \subseteq Nat
  OBVIOUS
<1>2. D # {}
  OBVIOUS
<1>3. PICK d \in D : \A e \in D : <<e, d>> \notin OpToRel(<, Nat)
  <2> HIDE DEF D
  <2> QED
    BY <1>1, <1>2, WFMin, NatLessThanWellFounded, Zenon
<1>4. \A e \in D : ~(e < d)
  BY <1>1, <1>3 DEF OpToRel
<1>5. PICK i \in S : d = n - i
  BY <1>3
<1>6. \A j \in S : i >= j
  BY <1>5, <1>4
<1> QED
  BY <1>6 DEF Max

-----------------------------------------------------------------------------
(* What the pages make of the rows, for every sequence of rows. *)

\* Where the pages lead is a row they hold.
LEMMA LeadsToRows ==
  ASSUME NEW n \in Nat, NEW r \in [1 .. n -> RowStates]
  PROVE  /\ ComingUp(r) \in {0} \cup 1 .. n
         /\ RelevantCycle(r) \in {0} \cup 1 .. n
         /\ ReviewTarget(r) \in {0} \cup 1 .. n
<1>1. ToReview(r) \subseteq 1 .. n /\ Listed(r) \subseteq 1 .. n
  BY DEF ToReview, Listed
<1>2. {c \in DOMAIN r : r[c] \in NON_TERMINAL} \subseteq 1 .. n
  OBVIOUS
<1>3. ComingUp(r) \in {0} \cup 1 .. n
  <2>1. CASE {c \in DOMAIN r : r[c] \in NON_TERMINAL} = {}
    BY <2>1 DEF ComingUp
  <2>2. CASE {c \in DOMAIN r : r[c] \in NON_TERMINAL} # {}
    <3>1. Min({c \in DOMAIN r : r[c] \in NON_TERMINAL}) \in {c \in DOMAIN r : r[c] \in NON_TERMINAL}
      BY <1>2, <2>2, MinIsIn
    <3>2. ComingUp(r) = Min({c \in DOMAIN r : r[c] \in NON_TERMINAL})
      BY <2>2 DEF ComingUp
    <3> QED
      BY <1>2, <3>1, <3>2
  <2> QED
    BY <2>1, <2>2
<1>4. ToReview(r) # {} => Min(ToReview(r)) \in ToReview(r)
  BY <1>1, MinIsIn
<1>5. Listed(r) # {} => Max(Listed(r)) \in 1 .. n
  BY <1>1, MaxIsIn
<1>6. RelevantCycle(r) \in {0} \cup 1 .. n
  BY <1>1, <1>4, <1>5 DEF RelevantCycle
<1>7. ReviewTarget(r) \in {0} \cup 1 .. n
  <2>1. Cardinality({}) = 0
    BY FS_EmptySet
  <2>2. ASSUME Cardinality(ToReview(r)) = 1 PROVE ToReview(r) # {}
    <3> SUFFICES ASSUME ToReview(r) = {} PROVE FALSE
      OBVIOUS
    <3>1. Cardinality(ToReview(r)) = 0
      BY <2>1, Zenon
    <3> QED
      BY <2>2, <3>1
  <2> QED
    BY <1>1, <1>4, <2>2 DEF ReviewTarget
<1> QED
  BY <1>3, <1>6, <1>7

-----------------------------------------------------------------------------
(* What the steps do to the refreshes and the answers. *)

\* A new refresh is the last one and has seen nothing.
LEMMA Begins ==
  ASSUME TypesOK, BeginRefresh
  PROVE  /\ provider' = [mounted |-> TRUE, hasLoadedOnce |-> provider.hasLoadedOnce,
                         loading |-> ~provider.hasLoadedOnce]
         /\ provider' \in [mounted : BOOLEAN, hasLoadedOnce : BOOLEAN, loading : BOOLEAN]
         /\ refreshes' \in Seq(Refresh) /\ refreshes' # << >>
         /\ Len(refreshes') = Len(refreshes) + 1
         /\ refreshes'[Len(refreshes')] = [step |-> "syncing", seen |-> Unread]
         /\ \A j \in DOMAIN refreshes' :
              \/ refreshes'[j] = [step |-> "syncing", seen |-> Unread]
              \/ j \in DOMAIN refreshes /\ refreshes'[j] = refreshes[j]
         /\ (muddled' <=> refreshes # << >>) /\ muddled' \in BOOLEAN
<1> DEFINE new == [step |-> "syncing", seen |-> Unread]
<1>1. refreshes \in Seq(Refresh) /\ new \in Refresh
  BY DEF TypesOK, Refresh
<1>2. refreshes' = Append(refreshes, new)
  BY DEF BeginRefresh, FirstStep
<1>3. provider' = [mounted |-> TRUE, hasLoadedOnce |-> provider.hasLoadedOnce,
                   loading |-> ~provider.hasLoadedOnce]
  BY DEF TypesOK, BeginRefresh, StartRefresh
<1>4. provider' \in [mounted : BOOLEAN, hasLoadedOnce : BOOLEAN, loading : BOOLEAN]
  <2>1. provider.hasLoadedOnce \in BOOLEAN /\ (~provider.hasLoadedOnce) \in BOOLEAN
    BY DEF TypesOK
  <2> QED
    BY <1>3, <2>1
<1>5. (muddled' <=> refreshes # << >>) /\ muddled' \in BOOLEAN
  BY DEF BeginRefresh
<1> HIDE DEF new
<1>6. /\ refreshes' \in Seq(Refresh) /\ refreshes' # << >>
      /\ Len(refreshes') = Len(refreshes) + 1
      /\ refreshes'[Len(refreshes')] = new
  BY <1>1, <1>2
<1>7. \A j \in DOMAIN refreshes' : refreshes'[j] = new \/ (j \in DOMAIN refreshes /\ refreshes'[j] = refreshes[j])
  BY <1>1, <1>2
<1> QED
  BY <1>3, <1>5, <1>6, <1>7, <1>4 DEF new

\* A refresh goes on; the others wait.
LEMMA Advances ==
  ASSUME TypesOK, NEW i \in DOMAIN refreshes, NEW r \in Refresh,
         refreshes' = [refreshes EXCEPT ![i] = r]
  PROVE  /\ refreshes' \in Seq(Refresh) /\ Len(refreshes') = Len(refreshes)
         /\ DOMAIN refreshes' = DOMAIN refreshes /\ refreshes'[i] = r
         /\ \A j \in DOMAIN refreshes : j # i => refreshes'[j] = refreshes[j]
<1>1. refreshes \in Seq(Refresh)
  BY DEF TypesOK
<1> QED
  BY <1>1, ExceptSeq

\* A refresh ends; the others wait.
LEMMA Ends ==
  ASSUME TypesOK, NEW i \in DOMAIN refreshes, refreshes' = RemoveAt(refreshes, i)
  PROVE  /\ refreshes' \in Seq(Refresh) /\ Len(refreshes') = Len(refreshes) - 1
         /\ \A j \in DOMAIN refreshes' : \E k \in DOMAIN refreshes : refreshes'[j] = refreshes[k]
<1>1. refreshes \in Seq(Refresh)
  BY DEF TypesOK
<1> QED
  BY <1>1, Removed

\* An element of the refreshes, taken apart.
LEMMA OneRefresh ==
  ASSUME TypesOK, NEW i \in DOMAIN refreshes
  PROVE  /\ refreshes[i] \in Refresh
         /\ refreshes[i].step \in {"syncing", "reading", "balance"}
         /\ refreshes[i].seen \in {Unread} \cup [Cycles -> RowStates]
<1>1. refreshes[i] \in Refresh
  BY DEF TypesOK
<1> QED
  BY <1>1 DEF Refresh

\* What a step of a refresh makes of its record.
LEMMA RefreshRecords ==
  ASSUME TypesOK, NEW i \in DOMAIN refreshes
  PROVE  /\ SyncOnRefresh(i) => refreshes' = [refreshes EXCEPT ![i] = [step |-> "reading", seen |-> refreshes[i].seen]]
         /\ ReadRows(i) => refreshes' = [refreshes EXCEPT ![i] = [step |-> "reading", seen |-> rows]]
         /\ ShowRows(i) => refreshes' = [refreshes EXCEPT ![i] = [step |-> "balance", seen |-> Unread]]
<1>1. refreshes[i] \in Refresh
  BY OneRefresh
<1>2. SyncOnRefresh(i) => refreshes' = [refreshes EXCEPT ![i] = [step |-> "reading", seen |-> refreshes[i].seen]]
  BY <1>1 DEF SyncOnRefresh, Refresh
<1>3. ReadRows(i) => refreshes' = [refreshes EXCEPT ![i] = [step |-> "reading", seen |-> rows]]
  BY <1>1 DEF ReadRows, Refresh
<1>4. ShowRows(i) => refreshes' = [refreshes EXCEPT ![i] = [step |-> "balance", seen |-> Unread]]
  BY DEF ShowRows
<1> QED
  BY <1>2, <1>3, <1>4

\* Answers lose the page they came from, and nothing else.
LEMMA BereftAnswers ==
  ASSUME NEW Q, Q \subseteq Answer, NEW level \in {"app", "tab"}, NEW b \in Bereft(Q, level)
  PROVE  /\ b \in Answer
         /\ b.caller \in {"page", "app"} => level = "app"
         /\ \E a \in Q : /\ b.cycle = a.cycle /\ b.skips = a.skips /\ b.outcome = a.outcome
                         /\ b.caller \in {"page", "app"} => a.caller \in {"page", "app"}
<1> DEFINE rank == [page |-> 3, app |-> 2, tab |-> 1, gone |-> 0]
<1>1. PICK a \in Q : b = IF rank[a.caller] > rank[level] THEN [a EXCEPT !.caller = level] ELSE a
  BY DEF Bereft
<1>2. a \in [cycle : Cycles, skips : BOOLEAN, caller : {"page", "app", "tab", "gone"},
             outcome : {"sent", "done", "refused"}]
  BY DEF Answer
<1>3. rank["page"] = 3 /\ rank["app"] = 2 /\ rank["tab"] = 1 /\ rank["gone"] = 0
  OBVIOUS
<1> HIDE DEF rank
<1>4. CASE rank[a.caller] > rank[level]
  <2>1. b = [a EXCEPT !.caller = level]
    BY <1>1, <1>4
  <2>2. a.caller \in {"page", "app"}
    BY <1>2, <1>3, <1>4
  <2> QED
    BY <1>2, <2>1, <2>2 DEF Answer
<1>5. CASE ~(rank[a.caller] > rank[level])
  <2>1. b = a
    BY <1>1, <1>5
  <2>2. a.caller \in {"page", "app"} => level = "app"
    BY <1>2, <1>3, <1>5
  <2> QED
    BY <1>2, <2>1, <2>2 DEF Answer
<1> QED
  BY <1>4, <1>5

\* The same of all answers at once.
LEMMA BereftTypes ==
  ASSUME NEW Q, Q \subseteq Answer, NEW level \in {"app", "tab"}
  PROVE  Bereft(Q, level) \subseteq Answer
BY BereftAnswers, Zenon

-----------------------------------------------------------------------------
(* The parts of the invariant. *)

\* The tab is opened with nothing under way.
LEMMA InvInit ==
  ASSUME Init
  PROVE  TypesOK /\ OnboardingOK /\ ProviderOK /\ WalletOK /\ AnswersOK
<1>1. /\ NewOnboarding \in [phase : {"authenticating", "syncing", "synced", "error"},
                            skipWizard : BOOLEAN, error : BOOLEAN, completed : BOOLEAN]
      /\ NewProvider \in [mounted : BOOLEAN, hasLoadedOnce : BOOLEAN, loading : BOOLEAN]
      /\ NewCache \in [rows : [Cycles -> RowStates], wallet : {"unknown", "stale", "current"}]
  BY DEF NewOnboarding, NewProvider, NewCache, RowStates
<1>2. << >> \in Seq(Refresh) /\ DOMAIN << >> = {} /\ Len(<< >>) = 0
  OBVIOUS
<1>3. TypesOK
  <2>1. /\ ready \in BOOLEAN /\ authenticated \in BOOLEAN
        /\ url \in {"/", "/onboarding"} \cup AppRoutes /\ url # "/app/quotes"
        /\ muddled \in BOOLEAN /\ unvouched \in BOOLEAN
    BY DEF Init, AppRoutes
  <2>2. rows \in [Cycles -> RowStates] /\ wallet \in {"unknown", "stale", "current"}
    BY DEF Init, RowStates
  <2>3. syncs = {} /\ answers = {} /\ answered = {} /\ refreshes = << >>
        /\ onboarding = NewOnboarding /\ provider = NewProvider /\ cache = NewCache
    BY DEF Init
  <2> QED
    BY <1>1, <1>2, <2>1, <2>2, <2>3 DEF TypesOK
<1>4. OnboardingOK
  BY DEF Init, OnboardingOK, NewOnboarding
<1>5. ProviderOK
  BY DEF Init, ProviderOK, NewProvider
<1>6. WalletOK
  BY <1>2 DEF Init, WalletOK, NewCache
<1>7. AnswersOK
  BY <1>2 DEF Init, AnswersOK, FreshOK
<1> QED
  BY <1>3, <1>4, <1>5, <1>6, <1>7

\* The steps that neither mount the provider nor unmount it nor belong to a refresh.
LEMMA DataStays ==
  ASSUME [Next]_vars, ~EndSession, ~MountProvider, ~RefreshStep, ~RefreshElsewhere,
         ~\E a \in answers : Confirmed(a)
  PROVE  UNCHANGED <<provider, refreshes, cache, muddled, unvouched, answered>>
BY DEF Next, vars, Hydrate, Schedule, OnboardingStep, Enter, CompleteReturning, Login, LoginFails,
       SyncSucceeds, SyncFails, Retry, GoToDashboard, LeaveOnboarding, Redirect, Follow, AnswerStep,
       Tap, Serve, NotConfirmed, sessionVars, serverVars

\* The rows and the wallet at the server stay well typed.
LEMMA ServerTypes ==
  ASSUME TypesOK, [Next]_vars
  PROVE  /\ rows' \in [Cycles -> RowStates]
         /\ wallet' \in {"unknown", "stale", "current"}
<1>1. rows \in [Cycles -> RowStates] /\ wallet \in {"unknown", "stale", "current"} /\ answers \subseteq Answer
  BY DEF TypesOK
<1>2. ASSUME NEW c \in Cycles, Schedule(c)
      PROVE  rows' \in [Cycles -> RowStates] /\ wallet' = wallet
  <2>1. PICK s \in Scheduled(rows[c]) : rows' = [rows EXCEPT ![c] = s]
    BY <1>2 DEF Schedule
  <2>2. s \in RowStates
    BY <2>1 DEF Scheduled, RowStates, CycleStates
  <2> QED
    BY <1>1, <1>2, <2>1, <2>2 DEF Schedule
<1>3. ASSUME NEW a \in answers, Serve(a)
      PROVE  rows' \in [Cycles -> RowStates] /\ wallet' = wallet
  <2>1. a.cycle \in Cycles /\ a.skips \in BOOLEAN
    BY <1>1 DEF Answer
  <2>2. Served(a.skips) \subseteq RowStates
    BY DEF Served, RowStates, CycleStates
  <2>3. rows' = rows \/ \E s \in Served(a.skips) : rows' = [rows EXCEPT ![a.cycle] = s]
    BY <1>3 DEF Serve
  <2> QED
    BY <1>1, <1>3, <2>1, <2>2, <2>3 DEF Serve
<1>4. ASSUME NEW k \in syncs, SyncSucceeds(k)
      PROVE  rows' = rows /\ wallet' \in {wallet, "current"}
  BY <1>4 DEF SyncSucceeds, Synced
<1>5. ASSUME NEW i \in DOMAIN refreshes, SyncOnRefresh(i)
      PROVE  rows' = rows /\ wallet' \in {wallet, "current"}
  BY <1>5 DEF SyncOnRefresh, Synced
<1>6. CASE \/ UNCHANGED vars \/ Hydrate \/ EndSession \/ Redirect \/ MountProvider \/ RefreshElsewhere \/ Follow
           \/ Enter \/ CompleteReturning \/ Login \/ LoginFails \/ (\E k \in syncs : SyncFails(k))
           \/ Retry \/ GoToDashboard \/ LeaveOnboarding
  BY <1>1, <1>6 DEF vars, Hydrate, EndSession, Redirect, MountProvider, RefreshElsewhere, Follow,
     Enter, CompleteReturning, Login, LoginFails, SyncFails, Retry, GoToDashboard, LeaveOnboarding, serverVars
<1>7. ASSUME NEW i \in DOMAIN refreshes, ReadRows(i) \/ ShowRows(i) \/ FinishRefresh(i) \/ RefreshFails(i)
      PROVE  rows' = rows /\ wallet' = wallet
  BY <1>7 DEF ReadRows, ShowRows, FinishRefresh, RefreshFails, serverVars
<1>8. ASSUME (\E skips \in BOOLEAN : Tap(skips)) \/ (\E a \in answers : Confirmed(a) \/ NotConfirmed(a))
      PROVE  rows' = rows /\ wallet' = wallet
  BY <1>8 DEF Tap, Confirmed, NotConfirmed, serverVars
<1> QED
  BY <1>1, <1>2, <1>3, <1>4, <1>5, <1>6, <1>7, <1>8 DEF Next, OnboardingStep, RefreshStep, AnswerStep

\* The answers stay well typed.
LEMMA AnswerTypes ==
  ASSUME TypesOK, [Next]_vars
  PROVE  answers' \subseteq Answer
<1>1. /\ answers \subseteq Answer /\ (url = "/app/quotes" => quoteOf \in Cycles)
      /\ Bereft(answers, "app") \subseteq Answer /\ Bereft(answers, "tab") \subseteq Answer
  BY BereftTypes DEF TypesOK
<1>2. CASE \/ EndSession \/ Redirect \/ Follow \/ \E k \in syncs : SyncSucceeds(k)
  BY <1>1, <1>2 DEF EndSession, UnmountProvider, Redirect, Follow, SyncSucceeds
<1>3. ASSUME NEW skips \in BOOLEAN, Tap(skips)
      PROVE  answers' \subseteq Answer
  BY <1>1, <1>3 DEF Tap, Answer
<1>4. ASSUME NEW a \in answers, Serve(a)
      PROVE  answers' \subseteq Answer
  <2>1. \A o \in {"done", "refused"} : [a EXCEPT !.outcome = o, !.skips = FALSE] \in Answer
    BY <1>1 DEF Answer
  <2>2. \E o \in {"done", "refused"} : answers' \subseteq answers \cup {[a EXCEPT !.outcome = o, !.skips = FALSE]}
    BY <1>4 DEF Serve
  <2> QED
    BY <1>1, <2>1, <2>2
<1>5. ASSUME NEW a \in answers, Confirmed(a)
      PROVE  answers' \subseteq Answer
  <2>1. Bereft(answers \ {a}, "app") \subseteq Answer
    BY <1>1, BereftTypes
  <2> QED
    BY <1>5, <2>1 DEF Confirmed
<1>6. ASSUME NEW a \in answers, NotConfirmed(a)
      PROVE  answers' \subseteq Answer
  <2>1. [a EXCEPT !.caller = "gone"] \in Answer
    BY <1>1 DEF Answer
  <2> QED
    BY <1>1, <1>6, <2>1 DEF NotConfirmed
<1>7. CASE \/ UNCHANGED vars \/ Hydrate \/ MountProvider \/ RefreshStep \/ RefreshElsewhere
           \/ (\E c \in Cycles : Schedule(c))
           \/ Enter \/ CompleteReturning \/ Login \/ LoginFails \/ (\E k \in syncs : SyncFails(k))
           \/ Retry \/ GoToDashboard \/ LeaveOnboarding
  BY <1>1, <1>7 DEF vars, Hydrate, MountProvider, RefreshStep, SyncOnRefresh, ReadRows, ShowRows, FinishRefresh,
     RefreshFails, RefreshElsewhere, Schedule, Enter, CompleteReturning, Login, LoginFails, SyncFails, Retry,
     GoToDashboard, LeaveOnboarding
<1> QED
  BY <1>2, <1>3, <1>4, <1>5, <1>6, <1>7 DEF Next, OnboardingStep, AnswerStep

\* A link leads to a route, and to a cycle where the route needs one.
LEMMA LinksLead ==
  ASSUME TypesOK, NEW l \in Links
  PROVE  l[1] \in AppRoutes /\ (l[1] = "/app/quotes" => l[2] \in {0} \cup Cycles)
<1>1. /\ cache.rows \in [1 .. NumCycles -> RowStates] /\ NumCycles \in Nat /\ Cycles = 1 .. NumCycles
  BY WebAppAssumption DEF TypesOK, Cycles
<1>2. /\ ComingUp(cache.rows) \in {0} \cup Cycles
      /\ ReviewTarget(cache.rows) \in {0} \cup Cycles
      /\ RelevantCycle(cache.rows) \in {0} \cup Cycles
  BY <1>1, LeadsToRows
<1> QED
  BY <1>2 DEF Links, AppRoutes

\* The routes, and the cycle in the route of QuoteView.
LEMMA RouteTypes ==
  ASSUME TypesOK, [Next]_vars
  PROVE  /\ url' \in {"/", "/onboarding"} \cup AppRoutes
         /\ url' = "/app/quotes" => quoteOf' \in Cycles
<1>1. url \in {"/", "/onboarding"} \cup AppRoutes /\ (url = "/app/quotes" => quoteOf \in Cycles)
  BY DEF TypesOK
<1>2. "/app" \in AppRoutes /\ "/app/payments" \in AppRoutes
  BY DEF AppRoutes
<1>3. CASE Follow
  <2>1. PICK l \in Links : (l[1] = "/app/quotes" => l[2] # 0) /\ Go(l[1], l[2])
    BY <1>3 DEF Follow
  <2> QED
    BY <2>1, LinksLead DEF Go
<1>4. CASE EndSession
  BY <1>1, <1>4 DEF EndSession, Go
<1>5. CASE \/ Enter \/ Redirect \/ GoToDashboard \/ LeaveOnboarding \/ (\E k \in syncs : SyncSucceeds(k))
           \/ (\E a \in answers : Confirmed(a))
  BY <1>1, <1>2, <1>5 DEF Enter, Redirect, GoToDashboard, LeaveOnboarding, SyncSucceeds, Confirmed, Go
<1>6. CASE \/ UNCHANGED vars \/ Hydrate \/ MountProvider \/ RefreshStep \/ RefreshElsewhere
           \/ (\E c \in Cycles : Schedule(c))
           \/ CompleteReturning \/ Login \/ LoginFails \/ (\E k \in syncs : SyncFails(k)) \/ Retry
           \/ (\E skips \in BOOLEAN : Tap(skips)) \/ (\E a \in answers : Serve(a) \/ NotConfirmed(a))
  BY <1>1, <1>6 DEF vars, Hydrate, MountProvider, RefreshStep, SyncOnRefresh, ReadRows, ShowRows, FinishRefresh,
     RefreshFails, RefreshElsewhere, Schedule, CompleteReturning, Login, LoginFails, SyncFails, Retry, Tap,
     Serve, NotConfirmed
<1> QED
  BY <1>3, <1>4, <1>5, <1>6 DEF Next, OnboardingStep, AnswerStep

\* The state of Onboarding, and of its syncs, stays well typed.
LEMMA OnboardingTypes ==
  ASSUME TypesOK, [Next]_vars
  PROVE  /\ onboarding' \in [phase : {"authenticating", "syncing", "synced", "error"},
                             skipWizard : BOOLEAN, error : BOOLEAN, completed : BOOLEAN]
         /\ syncs' \subseteq [skip : BOOLEAN, mounted : BOOLEAN]
         /\ ready' \in BOOLEAN /\ authenticated' \in BOOLEAN
<1>1. /\ onboarding \in [phase : {"authenticating", "syncing", "synced", "error"},
                         skipWizard : BOOLEAN, error : BOOLEAN, completed : BOOLEAN]
      /\ NewOnboarding \in [phase : {"authenticating", "syncing", "synced", "error"},
                            skipWizard : BOOLEAN, error : BOOLEAN, completed : BOOLEAN]
      /\ syncs \subseteq [skip : BOOLEAN, mounted : BOOLEAN]
      /\ ready \in BOOLEAN /\ authenticated \in BOOLEAN
  BY DEF TypesOK, NewOnboarding
<1>2. CASE CompleteReturning \/ Login \/ Retry
  <2>1. PICK skip \in BOOLEAN : RunSync(skip)
    BY <1>1, <1>2 DEF CompleteReturning, Login, Retry
  <2>2. ready' = ready /\ authenticated' \in BOOLEAN
    BY <1>1, <1>2 DEF CompleteReturning, Login, Retry, sessionVars
  <2>3. /\ onboarding' = [onboarding EXCEPT !.phase = "syncing", !.error = FALSE, !.skipWizard = skip,
                                            !.completed = TRUE]
        /\ syncs' = syncs \cup {[skip |-> skip, mounted |-> TRUE]}
    BY <2>1 DEF RunSync
  <2>4. onboarding' \in [phase : {"authenticating", "syncing", "synced", "error"},
                         skipWizard : BOOLEAN, error : BOOLEAN, completed : BOOLEAN]
    BY <1>1, <2>3
  <2>5. syncs' \subseteq [skip : BOOLEAN, mounted : BOOLEAN]
    <3>1. [skip |-> skip, mounted |-> TRUE] \in [skip : BOOLEAN, mounted : BOOLEAN]
      OBVIOUS
    <3>2. syncs \subseteq [skip : BOOLEAN, mounted : BOOLEAN]
      BY <1>1
    <3> QED
      BY <2>3, <3>1, <3>2, Zenon
  <2> QED
    BY <1>1, <2>2, <2>4, <2>5
<1>3. ASSUME NEW k \in syncs, SyncSucceeds(k) \/ SyncFails(k)
      PROVE  /\ onboarding' \in {onboarding, NewOnboarding, [onboarding EXCEPT !.phase = "synced"],
                                 [onboarding EXCEPT !.phase = "error", !.error = TRUE]}
             /\ syncs' \subseteq syncs /\ ready' = ready /\ authenticated' = authenticated
  BY <1>3 DEF SyncSucceeds, SyncFails, sessionVars
<1>4. CASE LeaveOnboarding
  <2>1. \A k \in syncs : [k EXCEPT !.mounted = FALSE] \in [skip : BOOLEAN, mounted : BOOLEAN]
    BY <1>1
  <2> QED
    BY <1>1, <1>4, <2>1 DEF LeaveOnboarding, sessionVars
<1>5. CASE Enter \/ LoginFails \/ GoToDashboard \/ Redirect \/ Hydrate \/ EndSession
  BY <1>1, <1>5 DEF Enter, LoginFails, GoToDashboard, Redirect, Hydrate, EndSession, sessionVars
<1>6. CASE \/ UNCHANGED vars \/ MountProvider \/ RefreshStep \/ RefreshElsewhere \/ Follow
           \/ (\E c \in Cycles : Schedule(c)) \/ AnswerStep
  BY <1>1, <1>6 DEF vars, MountProvider, RefreshStep, SyncOnRefresh, ReadRows, ShowRows, FinishRefresh,
     RefreshFails, RefreshElsewhere, Schedule, Follow, AnswerStep, Tap, Serve, Confirmed, NotConfirmed, sessionVars
<1> QED
  BY <1>1, <1>2, <1>3, <1>4, <1>5, <1>6 DEF Next, OnboardingStep

\* The state of the provider, and of its refreshes, stays well typed.
LEMMA DataTypes ==
  ASSUME TypesOK, [Next]_vars
  PROVE  /\ provider' \in [mounted : BOOLEAN, hasLoadedOnce : BOOLEAN, loading : BOOLEAN]
         /\ refreshes' \in Seq(Refresh)
         /\ cache' \in [rows : [Cycles -> RowStates], wallet : {"unknown", "stale", "current"}]
         /\ answered' \subseteq Cycles
         /\ muddled' \in BOOLEAN /\ unvouched' \in BOOLEAN
<1>1. /\ provider \in [mounted : BOOLEAN, hasLoadedOnce : BOOLEAN, loading : BOOLEAN]
      /\ refreshes \in Seq(Refresh)
      /\ cache \in [rows : [Cycles -> RowStates], wallet : {"unknown", "stale", "current"}]
      /\ answered \subseteq Cycles /\ answers \subseteq Answer
      /\ muddled \in BOOLEAN /\ unvouched \in BOOLEAN
      /\ rows \in [Cycles -> RowStates] /\ wallet \in {"unknown", "stale", "current"}
  BY DEF TypesOK
<1>2. CASE EndSession
  <2>1. /\ NewProvider \in [mounted : BOOLEAN, hasLoadedOnce : BOOLEAN, loading : BOOLEAN]
        /\ NewCache \in [rows : [Cycles -> RowStates], wallet : {"unknown", "stale", "current"}]
        /\ << >> \in Seq(Refresh)
    BY DEF NewProvider, NewCache, RowStates
  <2> QED
    BY <1>1, <1>2, <2>1 DEF EndSession, UnmountProvider
<1>3. CASE MountProvider \/ RefreshElsewhere
  <2>1. BeginRefresh /\ cache' = cache /\ answered' = answered /\ unvouched' \in BOOLEAN
    BY <1>1, <1>3 DEF MountProvider, RefreshElsewhere
  <2> QED
    BY <1>1, <2>1, Begins
<1>4. ASSUME NEW a \in answers, Confirmed(a)
      PROVE  /\ provider' \in [mounted : BOOLEAN, hasLoadedOnce : BOOLEAN, loading : BOOLEAN]
             /\ refreshes' \in Seq(Refresh) /\ muddled' \in BOOLEAN
             /\ cache' = cache /\ answered' \subseteq Cycles /\ unvouched' = unvouched
  <2>1. a.cycle \in Cycles
    BY <1>1 DEF Answer
  <2>2. CASE a.caller \in {"page", "app"}
    <3>1. BeginRefresh /\ cache' = cache /\ unvouched' = unvouched /\ answered' = answered \cup {a.cycle}
      BY <1>4, <2>2 DEF Confirmed
    <3> QED
      BY <1>1, <2>1, <3>1, Begins
  <2>3. CASE a.caller \notin {"page", "app"}
    BY <1>1, <1>4, <2>3 DEF Confirmed
  <2> QED
    BY <2>2, <2>3
<1>5. ASSUME NEW i \in DOMAIN refreshes, SyncOnRefresh(i) \/ ReadRows(i) \/ ShowRows(i)
      PROVE  /\ refreshes' \in Seq(Refresh) /\ provider' = provider /\ answered' = answered /\ muddled' = muddled
             /\ cache' \in [rows : [Cycles -> RowStates], wallet : {"unknown", "stale", "current"}]
             /\ unvouched' \in BOOLEAN
  <2>1. refreshes[i].seen \in {Unread} \cup [Cycles -> RowStates]
    BY OneRefresh
  <2>2. /\ [step |-> "reading", seen |-> refreshes[i].seen] \in Refresh
        /\ [step |-> "reading", seen |-> rows] \in Refresh
        /\ [step |-> "balance", seen |-> Unread] \in Refresh
    BY <1>1, <2>1 DEF Refresh
  <2>3. refreshes' \in Seq(Refresh)
    BY <1>5, <2>2, RefreshRecords, Advances
  <2>4. CASE ShowRows(i)
    BY <1>1, <2>1, <2>3, <2>4 DEF ShowRows
  <2>5. CASE SyncOnRefresh(i) \/ ReadRows(i)
    BY <1>1, <2>3, <2>5 DEF SyncOnRefresh, ReadRows
  <2> QED
    BY <1>5, <2>4, <2>5
<1>6. ASSUME NEW i \in DOMAIN refreshes, FinishRefresh(i) \/ RefreshFails(i)
      PROVE  /\ refreshes' \in Seq(Refresh) /\ answered' = answered /\ muddled' \in BOOLEAN
             /\ provider' \in [mounted : BOOLEAN, hasLoadedOnce : BOOLEAN, loading : BOOLEAN]
             /\ cache' \in [rows : [Cycles -> RowStates], wallet : {"unknown", "stale", "current"}]
             /\ unvouched' = unvouched
  <2>1. refreshes' = RemoveAt(refreshes, i) /\ provider' = Loaded
    BY <1>6 DEF FinishRefresh, RefreshFails
  <2>2. refreshes' \in Seq(Refresh)
    BY <2>1, Ends
  <2>3. provider' \in [mounted : BOOLEAN, hasLoadedOnce : BOOLEAN, loading : BOOLEAN]
    BY <1>1, <2>1 DEF Loaded
  <2> QED
    BY <1>1, <1>6, <2>2, <2>3 DEF FinishRefresh, RefreshFails
<1>7. CASE ~EndSession /\ ~MountProvider /\ ~RefreshStep /\ ~RefreshElsewhere /\ ~\E a \in answers : Confirmed(a)
  BY <1>1, <1>7, DataStays
<1> QED
  BY <1>1, <1>2, <1>3, <1>4, <1>5, <1>6, <1>7 DEF RefreshStep

\* Every step keeps the types.
LEMMA TypesStep ==
  ASSUME TypesOK, [Next]_vars
  PROVE  TypesOK'
BY ServerTypes, AnswerTypes, RouteTypes, OnboardingTypes, DataTypes DEF TypesOK, Refresh, Answer, Cycles, Unread

\* A sync that is sent is waited for, and its answer moves the page on.
LEMMA OnboardingKept ==
  ASSUME TypesOK, OnboardingOK, [Next]_vars
  PROVE  OnboardingOK'
<1>1. /\ onboarding \in [phase : {"authenticating", "syncing", "synced", "error"},
                         skipWizard : BOOLEAN, error : BOOLEAN, completed : BOOLEAN]
      /\ syncs \subseteq [skip : BOOLEAN, mounted : BOOLEAN]
      /\ url \in {"/", "/onboarding"} \cup AppRoutes
  BY DEF TypesOK
<1>2. CASE CompleteReturning \/ Login \/ Retry
  <2>1. PICK skip \in BOOLEAN : RunSync(skip)
    BY <1>1, <1>2 DEF CompleteReturning, Login, Retry
  <2>2. authenticated'
    <3>1. CASE Login
      BY <3>1 DEF Login
    <3>2. CASE CompleteReturning \/ Retry
      <4>1. authenticated' = authenticated /\ authenticated
        BY <3>2 DEF CompleteReturning, Retry, OffersRetry, sessionVars
      <4> QED
        BY <4>1
    <3> QED
      BY <1>2, <3>1, <3>2
  <2>3. onboarding'.phase = "syncing" /\ [skip |-> skip, mounted |-> TRUE] \in syncs'
    BY <1>1, <2>1 DEF RunSync
  <2> QED
    BY <2>2, <2>3 DEF OnboardingOK
<1>3. ASSUME NEW k \in syncs, SyncSucceeds(k)
      PROVE  OnboardingOK'
  <2>1. CASE k.skip
    BY <1>3, <2>1 DEF SyncSucceeds, Go, NewOnboarding, OnboardingOK
  <2>2. CASE ~k.skip
    BY <1>1, <1>3, <2>2 DEF SyncSucceeds, OnboardingOK, sessionVars
  <2> QED
    BY <2>1, <2>2
<1>4. ASSUME NEW k \in syncs, SyncFails(k)
      PROVE  OnboardingOK'
  <2>1. url' = url /\ authenticated' = authenticated /\ syncs' = syncs \ {k}
    BY <1>4 DEF SyncFails, sessionVars
  <2>2. CASE k.mounted
    <3>1. onboarding' = [onboarding EXCEPT !.phase = "error", !.error = TRUE]
      BY <1>4, <2>2 DEF SyncFails
    <3> QED
      BY <1>1, <2>1, <3>1 DEF OnboardingOK
  <2>3. CASE ~k.mounted
    <3>1. onboarding' = onboarding
      BY <1>4, <2>3 DEF SyncFails
    <3> QED
      BY <2>1, <2>3, <3>1 DEF OnboardingOK
  <2> QED
    BY <2>2, <2>3
<1>5. CASE Enter \/ GoToDashboard \/ Redirect \/ LeaveOnboarding
  <2>1. onboarding' = NewOnboarding
    BY <1>5 DEF Enter, GoToDashboard, Redirect, LeaveOnboarding
  <2> QED
    BY <2>1 DEF NewOnboarding, OnboardingOK
<1>6. CASE LoginFails
  <2>1. /\ onboarding' = [onboarding EXCEPT !.error = TRUE] /\ syncs' = syncs
        /\ url' = url /\ authenticated' = authenticated
    BY <1>6 DEF LoginFails, sessionVars
  <2> QED
    BY <1>1, <2>1 DEF OnboardingOK
<1>7. CASE EndSession
  BY <1>7 DEF EndSession, Go, OnboardingOK, AppRoutes
<1>8. CASE Follow
  <2>1. PICK l \in Links : Go(l[1], l[2])
    BY <1>8 DEF Follow
  <2>2. url' # "/onboarding"
    BY <2>1, LinksLead DEF Go, AppRoutes
  <2> QED
    BY <1>8, <2>2 DEF Follow, OnboardingOK
<1>9. ASSUME NEW a \in answers, Confirmed(a)
      PROVE  OnboardingOK'
  BY <1>9 DEF Confirmed, Go, OnboardingOK
<1>10. CASE \/ UNCHANGED vars \/ Hydrate \/ MountProvider \/ RefreshStep \/ RefreshElsewhere
            \/ (\E c \in Cycles : Schedule(c))
            \/ (\E skips \in BOOLEAN : Tap(skips)) \/ (\E a \in answers : Serve(a) \/ NotConfirmed(a))
  <2>1. onboarding' = onboarding /\ syncs' = syncs /\ url' = url /\ authenticated' = authenticated
    BY <1>10 DEF vars, Hydrate, MountProvider, RefreshStep, SyncOnRefresh, ReadRows, ShowRows, FinishRefresh,
       RefreshFails, RefreshElsewhere, Schedule, Tap, Serve, NotConfirmed, sessionVars
  <2> QED
    BY <2>1 DEF OnboardingOK
<1> QED
  BY <1>2, <1>3, <1>4, <1>5, <1>6, <1>7, <1>8, <1>9, <1>10 DEF Next, OnboardingStep, AnswerStep

\* The provider shows "Loading..." while its first refresh is under way.
LEMMA ProviderKept ==
  ASSUME TypesOK, ProviderOK, [Next]_vars
  PROVE  ProviderOK'
<1>1. /\ provider \in [mounted : BOOLEAN, hasLoadedOnce : BOOLEAN, loading : BOOLEAN]
      /\ answers \subseteq Answer
      /\ \A a \in answers : a.caller \in {"page", "app"} => provider.mounted
      /\ provider.mounted /\ ~provider.loading => provider.hasLoadedOnce
  BY DEF TypesOK, ProviderOK
<1>2. CASE EndSession
  <2>1. \A a \in answers' : a.caller \notin {"page", "app"}
    BY <1>1, <1>2, BereftAnswers DEF EndSession, UnmountProvider
  <2>2. provider' = NewProvider /\ refreshes' = << >> /\ cache' = NewCache
    BY <1>2 DEF EndSession, UnmountProvider
  <2> QED
    BY <2>1, <2>2 DEF ProviderOK, NewProvider
<1>3. CASE MountProvider \/ RefreshElsewhere
  <2>1. BeginRefresh /\ answers' = answers
    BY <1>3 DEF MountProvider, RefreshElsewhere
  <2> QED
    BY <1>1, <2>1, Begins DEF ProviderOK
<1>4. ASSUME NEW a \in answers, Confirmed(a)
      PROVE  ProviderOK'
  <2>1. \A b \in answers' : b.caller \in {"page", "app"} => provider.mounted
    BY <1>1, <1>4, BereftAnswers DEF Confirmed
  <2>2. CASE a.caller \in {"page", "app"}
    <3>1. BeginRefresh
      BY <1>4, <2>2 DEF Confirmed
    <3> QED
      BY <1>1, <2>1, <3>1, Begins DEF ProviderOK
  <2>3. CASE a.caller \notin {"page", "app"}
    <3>1. provider' = provider /\ refreshes' = refreshes /\ cache' = cache
      BY <1>4, <2>3 DEF Confirmed
    <3> QED
      BY <2>1, <3>1 DEF ProviderOK
  <2> QED
    BY <2>2, <2>3
<1>5. ASSUME NEW i \in DOMAIN refreshes, SyncOnRefresh(i) \/ ReadRows(i) \/ ShowRows(i)
      PROVE  ProviderOK'
  <2>1. refreshes # << >> /\ provider.mounted
    <3>1. refreshes # << >>
      BY <1>5
    <3> QED
      BY <3>1 DEF ProviderOK
  <2>2. provider' = provider /\ answers' = answers
    BY <1>5 DEF SyncOnRefresh, ReadRows, ShowRows
  <2>3. \E r \in Refresh : refreshes' = [refreshes EXCEPT ![i] = r]
    <3>1. rows \in [Cycles -> RowStates]
      BY DEF TypesOK
    <3>2. /\ [step |-> "reading", seen |-> refreshes[i].seen] \in Refresh
          /\ [step |-> "reading", seen |-> rows] \in Refresh
          /\ [step |-> "balance", seen |-> Unread] \in Refresh
      BY <3>1, OneRefresh DEF Refresh
    <3> QED
      BY <1>5, <3>2, RefreshRecords
  <2>4. refreshes' # << >>
    <3>1. DOMAIN refreshes' = DOMAIN refreshes
      BY <2>3, Advances
    <3> QED
      BY <1>5, <3>1
  <2> QED
    BY <1>1, <2>1, <2>2, <2>4 DEF ProviderOK
<1>6. ASSUME NEW i \in DOMAIN refreshes, FinishRefresh(i) \/ RefreshFails(i)
      PROVE  ProviderOK'
  <2>1. provider' = Loaded /\ answers' = answers
    BY <1>6 DEF FinishRefresh, RefreshFails
  <2>2. refreshes # << >>
    BY <1>6
  <2>3. provider.mounted
    BY <2>2 DEF ProviderOK
  <2>4. provider'.mounted = provider.mounted /\ provider'.hasLoadedOnce /\ ~provider'.loading
    BY <1>1, <2>1 DEF Loaded
  <2> QED
    BY <1>1, <2>1, <2>3, <2>4 DEF ProviderOK
<1>7. CASE ~EndSession /\ ~MountProvider /\ ~RefreshStep /\ ~RefreshElsewhere /\ ~\E a \in answers : Confirmed(a)
  <2>1. provider' = provider /\ refreshes' = refreshes /\ cache' = cache
    BY <1>7, DataStays
  <2>2. \A b \in answers' : b.caller \in {"page", "app"} => provider.mounted
    <3>1. CASE Redirect \/ Follow \/ \E k \in syncs : SyncSucceeds(k)
      <4>1. answers' \in {answers, Bereft(answers, "tab"), Bereft(answers, "app")}
        BY <3>1 DEF Redirect, Follow, SyncSucceeds
      <4> QED
        BY <1>1, <4>1, BereftAnswers
    <3>2. ASSUME NEW skips \in BOOLEAN, Tap(skips)
          PROVE  provider.mounted
      BY <3>2 DEF Tap, Showing
    <3>3. ASSUME NEW a \in answers, Serve(a)
          PROVE  \A b \in answers' : b.caller \in {"page", "app"} => provider.mounted
      <4>1. PICK o \in {"done", "refused"} :
              answers' \subseteq answers \cup {[a EXCEPT !.outcome = o, !.skips = FALSE]}
        BY <3>3 DEF Serve
      <4>2. [a EXCEPT !.outcome = o, !.skips = FALSE].caller = a.caller
        BY <1>1 DEF Answer
      <4> QED
        BY <1>1, <4>1, <4>2
    <3>4. ASSUME NEW a \in answers, NotConfirmed(a)
          PROVE  \A b \in answers' : b.caller \in {"page", "app"} => provider.mounted
      <4>1. answers' \subseteq answers \cup {[a EXCEPT !.caller = "gone"]}
        BY <3>4 DEF NotConfirmed
      <4>2. [a EXCEPT !.caller = "gone"].caller = "gone"
        BY <1>1 DEF Answer
      <4> QED
        BY <1>1, <4>1, <4>2
    <3>5. CASE \/ UNCHANGED vars \/ Hydrate \/ (\E c \in Cycles : Schedule(c))
               \/ Enter \/ CompleteReturning \/ Login \/ LoginFails \/ (\E k \in syncs : SyncFails(k))
               \/ Retry \/ GoToDashboard \/ LeaveOnboarding
      <4>1. answers' = answers
        BY <3>5 DEF vars, Hydrate, Schedule, Enter, CompleteReturning, Login, LoginFails, SyncFails, Retry,
           GoToDashboard, LeaveOnboarding
      <4> QED
        BY <1>1, <4>1
    <3> QED
      BY <1>7, <3>1, <3>2, <3>3, <3>4, <3>5 DEF Next, OnboardingStep, AnswerStep
  <2> QED
    BY <2>1, <2>2 DEF ProviderOK
<1> QED
  BY <1>2, <1>3, <1>4, <1>5, <1>6, <1>7 DEF RefreshStep

\* The wallet is brought up to date by the first step of every refresh.
LEMMA WalletKept ==
  ASSUME TypesOK, ProviderOK, WalletOK, [Next]_vars
  PROVE  WalletOK'
<1>1. wallet \in {"unknown", "stale", "current"} /\ refreshes \in Seq(Refresh)
      /\ cache \in [rows : [Cycles -> RowStates], wallet : {"unknown", "stale", "current"}]
      /\ rows \in [Cycles -> RowStates]
  BY DEF TypesOK
<1>2. CASE EndSession
  <2>1. refreshes' = << >> /\ cache' = NewCache
    BY <1>2 DEF EndSession, UnmountProvider
  <2> QED
    BY <2>1 DEF WalletOK, NewCache
<1>3. CASE MountProvider
  <2>1. BeginRefresh /\ cache' = cache /\ ~provider.mounted
    BY <1>3 DEF MountProvider
  <2>2. refreshes = << >> /\ cache = NewCache
    BY <2>1 DEF ProviderOK
  <2>3. \A j \in DOMAIN refreshes' : refreshes'[j].step = "syncing"
    BY <2>1, <2>2, Begins
  <2> QED
    BY <2>1, <2>2, <2>3 DEF WalletOK, NewCache
<1>4. ASSUME BeginRefresh, cache' = cache, wallet' = wallet, unvouched' = unvouched
      PROVE  WalletOK'
  <2>1. \A j \in DOMAIN refreshes' : refreshes'[j].step = "syncing" \/ (j \in DOMAIN refreshes /\ refreshes'[j] = refreshes[j])
    BY <1>4, Begins
  <2> QED
    BY <1>4, <2>1 DEF WalletOK
<1>5. CASE RefreshElsewhere
  BY <1>4, <1>5 DEF RefreshElsewhere, serverVars
<1>6. ASSUME NEW a \in answers, Confirmed(a)
      PROVE  WalletOK'
  <2>1. CASE a.caller \in {"page", "app"}
    BY <1>4, <1>6, <2>1 DEF Confirmed, serverVars
  <2>2. CASE a.caller \notin {"page", "app"}
    BY <1>6, <2>2 DEF Confirmed, serverVars, WalletOK
  <2> QED
    BY <2>1, <2>2
<1>7. ASSUME NEW i \in DOMAIN refreshes, SyncOnRefresh(i)
      PROVE  WalletOK'
  <2>1. PICK found \in BOOLEAN : wallet' = Synced(found) /\ unvouched' = (unvouched \/ ~found)
    BY <1>7 DEF SyncOnRefresh
  <2>2. cache' = cache
    BY <1>7 DEF SyncOnRefresh
  <2>3. ~unvouched' => wallet' = "current" /\ ~unvouched
    BY <2>1 DEF Synced
  <2> QED
    BY <2>2, <2>3 DEF WalletOK
<1>8. ASSUME NEW i \in DOMAIN refreshes, ReadRows(i) \/ ShowRows(i)
      PROVE  WalletOK'
  <2>1. cache'.wallet = cache.wallet /\ wallet' = wallet /\ unvouched' = unvouched
    BY <1>1, <1>8 DEF ReadRows, ShowRows, serverVars
  <2>2. PICK r \in Refresh : refreshes' = [refreshes EXCEPT ![i] = r] /\ refreshes[i].step # "syncing"
    <3>1. /\ [step |-> "reading", seen |-> rows] \in Refresh
          /\ [step |-> "balance", seen |-> Unread] \in Refresh
      BY <1>1 DEF Refresh
    <3> QED
      BY <1>8, <3>1, RefreshRecords DEF ReadRows, ShowRows
  <2>3. \A j \in DOMAIN refreshes' : j = i \/ refreshes'[j] = refreshes[j]
    BY <2>2, Advances
  <2>4. DOMAIN refreshes' = DOMAIN refreshes
    BY <2>2, Advances
  <2> QED
    BY <2>1, <2>2, <2>3, <2>4 DEF WalletOK
<1>9. ASSUME NEW i \in DOMAIN refreshes, FinishRefresh(i) \/ RefreshFails(i)
      PROVE  WalletOK'
  <2>1. refreshes' = RemoveAt(refreshes, i) /\ unvouched' = unvouched /\ wallet' = wallet
    BY <1>9 DEF FinishRefresh, RefreshFails, serverVars
  <2>2. \A j \in DOMAIN refreshes' : \E k \in DOMAIN refreshes : refreshes'[j] = refreshes[k]
    BY <2>1, Ends
  <2>3. ~unvouched => cache'.wallet # "stale"
    <3>1. CASE FinishRefresh(i)
      <4>1. PICK w \in {wallet, "unknown"} : cache' = [cache EXCEPT !.wallet = w]
        BY <3>1 DEF FinishRefresh
      <4>2. refreshes[i].step # "syncing"
        BY <3>1 DEF FinishRefresh
      <4>3. ~unvouched => w # "stale"
        BY <4>2 DEF WalletOK
      <4> QED
        BY <1>1, <4>1, <4>3
    <3>2. CASE RefreshFails(i)
      BY <3>2 DEF RefreshFails, WalletOK
    <3> QED
      BY <1>9, <3>1, <3>2
  <2> QED
    BY <2>1, <2>2, <2>3 DEF WalletOK
<1>10. CASE ~EndSession /\ ~MountProvider /\ ~RefreshStep /\ ~RefreshElsewhere /\ ~\E a \in answers : Confirmed(a)
  <2>1. refreshes' = refreshes /\ cache' = cache /\ unvouched' = unvouched
    BY <1>10, DataStays
  <2>2. wallet' \in {wallet, "current"}
    BY <1>10 DEF Next, vars, Hydrate, Schedule, OnboardingStep, Enter, CompleteReturning, Login, LoginFails,
       SyncSucceeds, Synced, SyncFails, Retry, GoToDashboard, LeaveOnboarding, Redirect, Follow, AnswerStep,
       Tap, Serve, NotConfirmed, serverVars
  <2> QED
    BY <2>1, <2>2 DEF WalletOK
<1> QED
  BY <1>2, <1>3, <1>5, <1>6, <1>7, <1>8, <1>9, <1>10 DEF RefreshStep

\* A row that was answered, or has gone on without an answer, does not come back.
LEMMA BeyondStays ==
  ASSUME TypesOK, [Next]_vars, NEW c \in Cycles, rows[c] \in Beyond
  PROVE  rows'[c] \in Beyond
<1>1. rows \in [Cycles -> RowStates] /\ answers \subseteq Answer
  BY DEF TypesOK
<1>2. ASSUME NEW d \in Cycles, Schedule(d)
      PROVE  rows'[c] \in Beyond
  <2>1. PICK s \in Scheduled(rows[d]) : rows' = [rows EXCEPT ![d] = s]
    BY <1>2 DEF Schedule
  <2>2. d = c => s \in Beyond
    BY <2>1 DEF Scheduled, Beyond
  <2> QED
    BY <1>1, <2>1, <2>2
<1>3. ASSUME NEW a \in answers, Serve(a)
      PROVE  rows'[c] \in Beyond
  <2>1. a.cycle \in Cycles
    BY <1>1 DEF Answer
  <2>2. \/ rows' = rows
        \/ /\ rows[a.cycle] = "REQUIRES_APPROVAL"
           /\ \E s \in Served(a.skips) : rows' = [rows EXCEPT ![a.cycle] = s]
    BY <1>3 DEF Serve
  <2>3. rows[a.cycle] = "REQUIRES_APPROVAL" => a.cycle # c
    BY DEF Beyond
  <2> QED
    BY <1>1, <2>1, <2>2, <2>3
<1>4. CASE ~(\E d \in Cycles : Schedule(d)) /\ ~\E a \in answers : Serve(a)
  <2>1. rows' = rows
    BY <1>4 DEF Next, vars, Hydrate, EndSession, OnboardingStep, Enter, CompleteReturning, Login, LoginFails,
       SyncSucceeds, SyncFails, Retry, GoToDashboard, LeaveOnboarding, Redirect, MountProvider, RefreshStep,
       SyncOnRefresh, ReadRows, ShowRows, FinishRefresh, RefreshFails, RefreshElsewhere, Follow, AnswerStep,
       Tap, Confirmed, NotConfirmed, serverVars
  <2> QED
    BY <2>1
<1> QED
  BY <1>2, <1>3, <1>4

\* An answer that was accepted has moved its row on.
LEMMA DoneKept ==
  ASSUME TypesOK, AnswersOK, [Next]_vars, NEW b \in answers', b.outcome = "done"
  PROVE  rows'[b.cycle] \in Beyond
<1>1. /\ answers \subseteq Answer /\ rows \in [Cycles -> RowStates]
      /\ \A a \in answers : a.outcome = "done" => rows[a.cycle] \in Beyond
  BY DEF TypesOK, AnswersOK
<1>2. ASSUME NEW a \in answers, a.outcome = "done", b.cycle = a.cycle
      PROVE  rows'[b.cycle] \in Beyond
  <2>1. a.cycle \in Cycles
    BY <1>1 DEF Answer
  <2> QED
    BY <1>1, <1>2, <2>1, BeyondStays
<1>3. ASSUME NEW Q \in SUBSET answers, NEW level \in {"app", "tab"}, b \in Bereft(Q, level)
      PROVE  rows'[b.cycle] \in Beyond
  <2>1. \E a \in Q : b.cycle = a.cycle /\ b.outcome = a.outcome
    BY <1>1, <1>3, BereftAnswers
  <2> QED
    BY <1>2, <2>1
<1>4. CASE EndSession \/ Redirect \/ Follow \/ \E k \in syncs : SyncSucceeds(k)
  <2>1. b \in answers \/ b \in Bereft(answers, "tab") \/ b \in Bereft(answers, "app")
    BY <1>4 DEF EndSession, UnmountProvider, Redirect, Follow, SyncSucceeds
  <2> QED
    BY <1>2, <1>3, <2>1
<1>5. ASSUME NEW a \in answers, Confirmed(a)
      PROVE  rows'[b.cycle] \in Beyond
  BY <1>3, <1>5 DEF Confirmed
<1>6. ASSUME NEW skips \in BOOLEAN, Tap(skips)
      PROVE  rows'[b.cycle] \in Beyond
  <2>1. b \in answers
    BY <1>6 DEF Tap
  <2> QED
    BY <1>2, <2>1
<1>7. ASSUME NEW a \in answers, Serve(a)
      PROVE  rows'[b.cycle] \in Beyond
  <2>1. a.cycle \in Cycles /\ a.skips \in BOOLEAN
    BY <1>1 DEF Answer
  <2>2. CASE b \in answers
    BY <1>2, <2>2
  <2>3. CASE b \notin answers
    <3>1. b.cycle = a.cycle /\ rows[a.cycle] = "REQUIRES_APPROVAL"
      <4>1. b = [a EXCEPT !.outcome = IF rows[a.cycle] = "REQUIRES_APPROVAL" THEN "done" ELSE "refused",
                          !.skips = FALSE]
        BY <1>7, <2>3 DEF Serve
      <4> QED
        BY <1>1, <4>1 DEF Answer
    <3>2. PICK s \in Served(a.skips) : rows' = [rows EXCEPT ![a.cycle] = s]
      BY <1>7, <3>1 DEF Serve
    <3>3. s \in Beyond
      BY <3>2 DEF Served, Beyond
    <3> QED
      BY <1>1, <2>1, <3>1, <3>2, <3>3
  <2> QED
    BY <2>2, <2>3
<1>8. ASSUME NEW a \in answers, NotConfirmed(a)
      PROVE  rows'[b.cycle] \in Beyond
  <2>1. [a EXCEPT !.caller = "gone"].outcome = a.outcome
    BY <1>1 DEF Answer
  <2>2. b \in answers
    BY <1>8, <2>1 DEF NotConfirmed
  <2> QED
    BY <1>2, <2>2
<1>9. CASE \/ UNCHANGED vars \/ Hydrate \/ MountProvider \/ RefreshStep \/ RefreshElsewhere
           \/ (\E c \in Cycles : Schedule(c))
           \/ Enter \/ CompleteReturning \/ Login \/ LoginFails \/ (\E k \in syncs : SyncFails(k))
           \/ Retry \/ GoToDashboard \/ LeaveOnboarding
  <2>1. answers' = answers
    BY <1>9 DEF vars, Hydrate, MountProvider, RefreshStep, SyncOnRefresh, ReadRows, ShowRows, FinishRefresh,
       RefreshFails, RefreshElsewhere, Schedule, Enter, CompleteReturning, Login, LoginFails, SyncFails, Retry,
       GoToDashboard, LeaveOnboarding
  <2> QED
    BY <1>2, <2>1
<1> QED
  BY <1>4, <1>5, <1>6, <1>7, <1>8, <1>9 DEF Next, OnboardingStep, AnswerStep

\* A confirmed answer is one whose row has moved on.
LEMMA AnsweredKept ==
  ASSUME TypesOK, AnswersOK, [Next]_vars, NEW c \in answered'
  PROVE  rows'[c] \in Beyond
<1>1. /\ answers \subseteq Answer /\ answered \subseteq Cycles
      /\ \A a \in answers : a.outcome = "done" => rows[a.cycle] \in Beyond
      /\ \A d \in answered : rows[d] \in Beyond
  BY DEF TypesOK, AnswersOK
<1>2. CASE c \in answered
  BY <1>1, <1>2, BeyondStays
<1>3. CASE c \notin answered
  <2>1. PICK a \in answers : Confirmed(a)
    BY <1>3, DataStays DEF EndSession, MountProvider, RefreshStep, SyncOnRefresh, ReadRows, ShowRows,
       FinishRefresh, RefreshFails, RefreshElsewhere
  <2>2. c = a.cycle /\ a.outcome = "done"
    BY <1>3, <2>1 DEF Confirmed
  <2>3. a.cycle \in Cycles
    BY <1>1 DEF Answer
  <2> QED
    BY <1>1, <2>2, <2>3, BeyondStays
<1> QED
  BY <1>2, <1>3

\* A new refresh that is alone is fresh.
LEMMA FreshBegins ==
  ASSUME TypesOK, BeginRefresh, ~muddled'
  PROVE  FreshOK'
<1>1. refreshes = << >>
  BY Begins
<1>2. Len(refreshes) = 0
  BY <1>1
<1>3. Len(refreshes') = 1 /\ refreshes' \in Seq(Refresh) /\ refreshes'[1] = [step |-> "syncing", seen |-> Unread]
  BY <1>2, Begins
<1>4. DOMAIN refreshes' = {1}
  BY <1>3
<1>5. /\ Len(refreshes') <= 1 /\ refreshes'[1].step # "balance"
      /\ \A i \in DOMAIN refreshes' : refreshes'[i].seen = Unread
  <2>1. \A i \in DOMAIN refreshes' : refreshes'[i] = [step |-> "syncing", seen |-> Unread]
    BY <1>3, <1>4
  <2> QED
    BY <1>3, <1>4, <2>1
<1> QED
  BY <1>4, <1>5 DEF FreshOK, Unread, Cycles

\* A refresh that is alone shows the answers.
LEMMA FreshKept ==
  ASSUME TypesOK, ProviderOK, AnswersOK, [Next]_vars, ~muddled'
  PROVE  FreshOK'
<1>1. /\ refreshes \in Seq(Refresh) /\ rows \in [Cycles -> RowStates] /\ answered \subseteq Cycles
      /\ cache \in [rows : [Cycles -> RowStates], wallet : {"unknown", "stale", "current"}]
      /\ ~muddled => FreshOK
      /\ \A c \in answered : rows[c] # "REQUIRES_APPROVAL"
  BY DEF TypesOK, AnswersOK, FreshOK, Beyond
<1>2. CASE EndSession
  <2>1. refreshes' = << >> /\ cache' = NewCache /\ answered' = answered
    BY <1>2 DEF EndSession, UnmountProvider
  <2>2. \A c \in answered : NewCache.rows[c] # "REQUIRES_APPROVAL"
    BY <1>1 DEF NewCache
  <2> QED
    BY <2>1, <2>2 DEF FreshOK
<1>3. CASE MountProvider \/ RefreshElsewhere
  BY <1>3, FreshBegins DEF MountProvider, RefreshElsewhere
<1>4. ASSUME NEW a \in answers, Confirmed(a)
      PROVE  FreshOK'
  <2>1. CASE a.caller \in {"page", "app"}
    BY <1>4, <2>1, FreshBegins DEF Confirmed
  <2>2. CASE a.caller \notin {"page", "app"}
    <3>1. refreshes' = refreshes /\ cache' = cache /\ answered' = answered /\ muddled' = muddled
      BY <1>4, <2>2 DEF Confirmed
    <3> QED
      BY <1>1, <3>1 DEF FreshOK
  <2> QED
    BY <2>1, <2>2
<1>5. ASSUME NEW i \in DOMAIN refreshes, SyncOnRefresh(i) \/ ReadRows(i) \/ ShowRows(i) \/ FinishRefresh(i)
      PROVE  FreshOK'
  <2>1. ~muddled /\ answered' = answered
    BY <1>5 DEF SyncOnRefresh, ReadRows, ShowRows, FinishRefresh
  <2>2. FreshOK
    BY <1>1, <2>1
  <2>3. i = 1 /\ Len(refreshes) = 1 /\ DOMAIN refreshes = {1}
    <3>1. Len(refreshes) <= 1
      BY <2>2 DEF FreshOK
    <3>2. DOMAIN refreshes = 1 .. Len(refreshes) /\ Len(refreshes) \in Nat
      BY <1>1, LenProperties
    <3> QED
      BY <3>1, <3>2
  <2>4. refreshes[1].seen = Unread \/ \A c \in answered : refreshes[1].seen[c] # "REQUIRES_APPROVAL"
    BY <2>2, <2>3 DEF FreshOK
  <2>5. ASSUME NEW r \in Refresh, refreshes' = [refreshes EXCEPT ![1] = r],
               r.seen = Unread \/ \A c \in answered : r.seen[c] # "REQUIRES_APPROVAL",
               r.step # "balance" \/ \A c \in answered : cache'.rows[c] # "REQUIRES_APPROVAL"
        PROVE  FreshOK'
    <3>1. Len(refreshes') = 1 /\ DOMAIN refreshes' = {1} /\ refreshes'[1] = r
      BY <2>3, <2>5, Advances
    <3>2. Len(refreshes') <= 1
      BY <3>1
    <3> QED
      BY <2>1, <2>5, <3>1, <3>2 DEF FreshOK, Unread, Cycles
  <2>6. /\ [step |-> "reading", seen |-> refreshes[1].seen] \in Refresh
        /\ [step |-> "reading", seen |-> rows] \in Refresh
        /\ [step |-> "balance", seen |-> Unread] \in Refresh
    BY <1>1, <2>3, OneRefresh DEF Refresh
  <2>7. CASE SyncOnRefresh(i)
    <3>1. refreshes' = [refreshes EXCEPT ![1] = [step |-> "reading", seen |-> refreshes[1].seen]]
      BY <2>3, <2>7, RefreshRecords
    <3> QED
      BY <2>4, <2>5, <2>6, <3>1
  <2>8. CASE ReadRows(i)
    <3>1. refreshes' = [refreshes EXCEPT ![1] = [step |-> "reading", seen |-> rows]]
      BY <2>3, <2>8, RefreshRecords
    <3> QED
      BY <1>1, <2>5, <2>6, <3>1
  <2>9. CASE ShowRows(i)
    <3>1. refreshes' = [refreshes EXCEPT ![1] = [step |-> "balance", seen |-> Unread]]
      BY <2>3, <2>9, RefreshRecords
    <3>2. cache'.rows = refreshes[1].seen /\ refreshes[1].seen # Unread
      BY <1>1, <2>3, <2>9 DEF ShowRows
    <3> QED
      BY <2>4, <2>5, <2>6, <3>1, <3>2
  <2>10. CASE FinishRefresh(i)
    <3>1. refreshes' \in Seq(Refresh) /\ Len(refreshes') = 0
      BY <2>3, <2>10, Ends DEF FinishRefresh
    <3>2. DOMAIN refreshes' = {} /\ Len(refreshes') <= 1
      BY <3>1
    <3>3. cache'.rows = cache.rows
      BY <1>1, <2>10 DEF FinishRefresh
    <3>4. \A c \in answered : cache.rows[c] # "REQUIRES_APPROVAL"
      BY <2>2, <2>3, <2>10 DEF FreshOK, FinishRefresh
    <3> QED
      BY <2>1, <3>2, <3>3, <3>4 DEF FreshOK
  <2> QED
    BY <1>5, <2>7, <2>8, <2>9, <2>10
<1>6. ASSUME NEW i \in DOMAIN refreshes, RefreshFails(i)
      PROVE  FALSE
  BY <1>6 DEF RefreshFails
<1>7. CASE ~EndSession /\ ~MountProvider /\ ~RefreshStep /\ ~RefreshElsewhere /\ ~\E a \in answers : Confirmed(a)
  <2>1. refreshes' = refreshes /\ cache' = cache /\ answered' = answered /\ muddled' = muddled
    BY <1>7, DataStays
  <2> QED
    BY <1>1, <2>1 DEF FreshOK
<1> QED
  BY <1>2, <1>3, <1>4, <1>5, <1>6, <1>7 DEF RefreshStep

\* So a step keeps the whole part.
LEMMA AnswersKept ==
  ASSUME TypesOK, ProviderOK, AnswersOK, [Next]_vars
  PROVE  AnswersOK'
<1>1. \A a \in answers' : a.outcome = "done" => rows'[a.cycle] \in Beyond
  BY DoneKept
<1>2. \A c \in answered' : rows'[c] \in Beyond
  BY AnsweredKept
<1>3. ~muddled' => FreshOK'
  BY FreshKept
<1> QED
  BY <1>1, <1>2, <1>3 DEF AnswersOK, Beyond

-----------------------------------------------------------------------------
(* The theorems. *)

\* All parts together.
WebInv == TypesOK /\ OnboardingOK /\ ProviderOK /\ WalletOK /\ AnswersOK

\* They hold in every state.
LEMMA WebInvHolds == Spec => []WebInv
<1>1. Init => WebInv
  BY InvInit DEF WebInv
<1>2. WebInv /\ [Next]_vars => WebInv'
  BY TypesStep, OnboardingKept, ProviderKept, WalletKept, AnswersKept DEF WebInv
<1> QED
  BY <1>1, <1>2, PTL DEF Spec

\* Nobody is stranded: the onboarding page has a button that leads on or waits for a
\* sync that will be answered, and "Loading..." is shown only while a refresh is
\* under way that takes it away.
THEOREM WayForwardForAll == Spec => []WayForward
<1>1. WebInv => WayForward
  <2> SUFFICES ASSUME TypesOK, OnboardingOK, ProviderOK
                 PROVE  WayForward
    BY DEF WebInv
  <2>2. /\ onboarding.phase \in {"authenticating", "syncing", "synced", "error"}
        /\ onboarding.skipWizard \in BOOLEAN /\ onboarding.completed \in BOOLEAN
    BY DEF TypesOK
  <2>3. provider.mounted /\ provider.loading => refreshes # << >>
    BY DEF ProviderOK
  <2>4. ASSUME url = "/onboarding", ready
        PROVE  \/ authenticated /\ ~onboarding.completed
               \/ \E k \in syncs : k.mounted
               \/ OffersLogin \/ OffersRetry
               \/ ~ShowsRedirect /\ onboarding.phase = "synced"
    <3>1. CASE onboarding.phase = "synced"
      BY <3>1 DEF ShowsRedirect
    <3>2. CASE onboarding.phase = "syncing"
      BY <3>2 DEF OnboardingOK
    <3>3. CASE onboarding.phase = "error"
      BY <2>4, <3>3 DEF OnboardingOK, ShowsRedirect, OffersLogin, OffersRetry
    <3>4. CASE onboarding.phase = "authenticating"
      BY <2>4, <3>4 DEF OnboardingOK, ShowsRedirect, OffersLogin
    <3> QED
      BY <2>2, <3>1, <3>2, <3>3, <3>4
  <2> QED
    BY <2>3, <2>4 DEF WayForward
<1> QED
  BY <1>1, WebInvHolds, PTL

\* The balance on the screen is that of the wallet the user has, unless a sync
\* failed or came before there was a wallet.
THEOREM BalanceIsOfTheWalletForAll == Spec => []BalanceIsOfTheWallet
<1>1. WebInv => BalanceIsOfTheWallet
  BY DEF WebInv, WalletOK, BalanceIsOfTheWallet
<1> QED
  BY <1>1, WebInvHolds, PTL

\* A confirmed answer is seen: a cycle whose answer was confirmed is not offered
\* again once a refresh that was alone has ended, for any number of cycles.
THEOREM AnswerIsSeenForAll == Spec => []AnswerIsSeen
<1>1. WebInv => AnswerIsSeen
  <2> SUFFICES ASSUME AnswersOK, refreshes = << >>, ~muddled
                 PROVE  answered \cap ToReview(cache.rows) = {}
    BY DEF WebInv, AnswerIsSeen
  <2>1. DOMAIN refreshes = {}
    OBVIOUS
  <2>2. \A c \in answered : cache.rows[c] # "REQUIRES_APPROVAL"
    BY <2>1 DEF AnswersOK, FreshOK
  <2> QED
    BY <2>2 DEF ToReview
<1> QED
  BY <1>1, WebInvHolds, PTL

\* As long as the user stays in the application, no refresh replaces the page on
\* display by "Loading...".
THEOREM PageSurvivesRefreshForAll == Spec => PageSurvivesRefresh
<1>1. WebInv /\ [Next]_vars => [Showing /\ provider'.mounted /\ url' \in AppRoutes => Showing']_vars
  <2> SUFFICES ASSUME TypesOK, ProviderOK, [Next]_vars, Showing, provider'.mounted, url' \in AppRoutes
                 PROVE  Showing'
    BY DEF WebInv
  <2>2. /\ provider \in [mounted : BOOLEAN, hasLoadedOnce : BOOLEAN, loading : BOOLEAN]
        /\ provider.mounted /\ ~provider.loading /\ provider.hasLoadedOnce
    BY DEF TypesOK, ProviderOK, Showing
  <2>3. ASSUME BeginRefresh PROVE ~provider'.loading
    BY <2>2, <2>3, Begins
  <2>4. ASSUME EndSession PROVE FALSE
    <3>1. provider' = [mounted |-> FALSE, hasLoadedOnce |-> FALSE, loading |-> TRUE]
      BY <2>4 DEF EndSession, UnmountProvider, NewProvider
    <3>2. provider'.mounted = FALSE
      BY <3>1
    <3> QED
      BY <3>2
  <2>5. ASSUME MountProvider \/ RefreshElsewhere \/ \E a \in answers : Confirmed(a)
        PROVE  ~provider'.loading
    BY <2>2, <2>3, <2>5 DEF MountProvider, RefreshElsewhere, Confirmed
  <2>6. ASSUME NEW i \in DOMAIN refreshes,
               SyncOnRefresh(i) \/ ReadRows(i) \/ ShowRows(i) \/ FinishRefresh(i) \/ RefreshFails(i)
        PROVE  ~provider'.loading
    BY <2>2, <2>6 DEF SyncOnRefresh, ReadRows, ShowRows, FinishRefresh, RefreshFails, Loaded
  <2>7. ASSUME ~MountProvider /\ ~RefreshStep /\ ~RefreshElsewhere /\ ~\E a \in answers : Confirmed(a)
        PROVE  ~provider'.loading
    BY <2>2, <2>4, <2>7, DataStays
  <2>8. ~provider'.loading
    BY <2>5, <2>6, <2>7 DEF RefreshStep
  <2> QED
    BY <2>8 DEF Showing
<1> QED
  BY <1>1, WebInvHolds, PTL DEF Spec, PageSurvivesRefresh
=============================================================================
