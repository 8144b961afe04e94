--------------------------- MODULE PayPagesProofs ---------------------------
(***************************************************************************)
(* The pages of person-to-person payments for any number of requests,      *)
(* quotes and readings of the list: what is on the screen is what is paid, *)
(* it is paid once, and the outcome shown is the one that happened.        *)
(***************************************************************************)
EXTENDS PayPages, SequenceTheorems, TLAPS

Pages == {"request", "scan", "pay", "elsewhere"}

Stages == {"loading", "not-found", "own-request", "unpayable", "insufficient", "error",
           "review", "processing", "done"}

Flows == [of : All, step : {"reading", "quoting"}]

Executes == [checkout : Nat, step : {"sent", "sending", "paid", "refused"}, mounted : BOOLEAN]

Quotes == [for : Theirs, status : {"PENDING_APPROVAL", "EXPIRED", "SETTLED", "FAILED"}]

-----------------------------------------------------------------------------
(* The inductive invariants: FormOK, ScannerOK, and PayInv, which needs ScannerOK. *)

PlacesOK ==
  /\ page \in Pages /\ route \in All \cup {None}
  /\ page = "pay" => route \in All
  /\ strayed \in BOOLEAN /\ abandoned \in BOOLEAN

ServerOK ==
  /\ requests \in [All -> {"ABSENT", "PENDING", "FULFILLED", "CANCELLED", "EXPIRED"}]
  /\ checkouts \in Seq(Quotes)
  /\ paid \in [Theirs -> Nat]
  /\ \A q \in Theirs : paid[q] # 0 => requests[q] = "FULFILLED"

ScreenOK ==
  /\ screen \in [stage : Stages, request : All \cup {None}, checkout : Nat]
  /\ flows \subseteq Flows
  /\ \A f \in flows : f.step = "quoting" => f.of \in Theirs
  /\ screen.stage \in {"review", "processing"} => screen.checkout \in DOMAIN checkouts
  /\ executes \in Seq(Executes)
  /\ \A i \in DOMAIN executes :
       executes[i].checkout \in DOMAIN checkouts /\ (executes[i].mounted => page = "pay")
  /\ page # "pay" => screen = NewScreen /\ flows = {}

TypesOK == PlacesOK /\ ServerOK /\ ScreenOK

\* RequestMoney keeps its state to itself, and loses it when it goes.
FormOK ==
  /\ DOMAIN form = DOMAIN NewForm
  /\ page # "request" => form.stage = "form"

\* A scanner that is gone leads nowhere: what its camera still sees is dropped.
ScannerOK ==
  /\ DOMAIN scanner = DOMAIN NewScanner
  /\ ghosts \subseteq {TRUE}
  /\ page # "scan" => scanner.camera = "off"

\* Everything PayRequest knows or asks is about the request in the address.
OneRequest ==
  page = "pay" /\ ~strayed =>
    /\ \A f \in flows : f.of = route /\ (f.step = "quoting" => screen.request = route)
    /\ screen.stage \in {"review", "processing"} =>
         screen.request = route /\ checkouts[screen.checkout].for = route

\* The page does one thing at a time: it loads, or shows, or pays the checkout on
\* display; and it pays what is not paid yet.
OnePayment ==
  ~strayed /\ ~abandoned =>
    /\ \A f, g \in flows : f = g
    /\ \A f \in flows : f.step = "quoting" => paid[f.of] = 0
    /\ screen.stage # "loading" => flows = {}
    /\ screen.stage # "processing" => executes = << >>
    /\ executes # << >> =>
         /\ Len(executes) = 1 /\ executes[1].mounted
         /\ executes[1].checkout = screen.checkout
         /\ paid[route] = IF executes[1].step = "paid" THEN 1 ELSE 0
    /\ screen.stage \in {"review", "error"} /\ route \in Theirs => paid[route] = 0
    /\ screen.stage = "done" /\ route \in Theirs => paid[route] = 1
    /\ \A q \in Theirs : paid[q] <= 1

PayInv == TypesOK /\ OneRequest /\ OnePayment

-----------------------------------------------------------------------------
(* RequestMoney. *)

\* What the page of the form does: it stays mounted, and puts a QR away only when
\* the user asks.
LEMMA FormSteps ==
  ASSUME FormOK, FormStep
  PROVE  /\ FormOK' /\ UNCHANGED page
         /\ form.stage = "ready" /\ form'.stage # "ready" => Reset
<1>1. ASSUME NEW f, NEW load, DOMAIN f = DOMAIN NewForm
      PROVE  DOMAIN Release(f, load) = DOMAIN NewForm /\ Release(f, load).stage = f.stage
  BY <1>1 DEF Release, NewForm
<1>2. CASE Create \/ Created \/ CreateFails
  BY <1>2 DEF Create, Created, CreateFails, FormOK, NewForm
<1>3. CASE Reset
  BY <1>3 DEF Reset, FormOK, NewForm
<1>4. ASSUME NEW i \in DOMAIN loads, ReadList(i) \/ ShowList(i) \/ ListFails(i)
      PROVE  UNCHANGED page /\ DOMAIN form' = DOMAIN NewForm /\ form'.stage = form.stage
  <2>1. CASE ReadList(i)
    BY <2>1 DEF ReadList, FormOK
  <2>2. CASE ShowList(i)
    <3>1. DOMAIN [form EXCEPT !.list = loads[i].seen] = DOMAIN NewForm
          /\ [form EXCEPT !.list = loads[i].seen].stage = form.stage
      BY DEF FormOK, NewForm
    <3> QED
      BY <2>2, <3>1, <1>1 DEF ShowList
  <2>3. CASE ListFails(i)
    BY <2>3, <1>1 DEF ListFails, FormOK
  <2> QED
    BY <1>4, <2>1, <2>2, <2>3
<1>5. ASSUME NEW q \in Ours, Cancel(q) \/ Cancelled(q) \/ CancelFails(q)
      PROVE  UNCHANGED page /\ DOMAIN form' = DOMAIN NewForm /\ form'.stage = form.stage
  BY <1>5 DEF Cancel, Cancelled, CancelFails, FormOK, NewForm
<1>6. UNCHANGED page /\ DOMAIN form' = DOMAIN NewForm /\ form'.stage = form.stage => FormOK'
  BY DEF FormOK
<1> QED
  BY <1>2, <1>3, <1>4, <1>5, <1>6 DEF FormStep, Create, Created, CreateFails, FormOK, NewForm

\* A page that is mounted starts with an empty form, and may read the list.
Fresh == form' = NewForm /\ loads' \in {<<UnreadList>>, << >>} /\ mixed' = FALSE

\* The other steps leave the form alone, or replace the page by another.
LEMMA OtherSteps ==
  ASSUME Next, ~FormStep
  PROVE  \/ UNCHANGED <<page, formVars>>
         \/ Fresh /\ (page' = "request" => page # "request")
<1>1. ASSUME NEW q \in All, Navigate(q)
      PROVE  UNCHANGED <<page, formVars>> \/ (Fresh /\ page' = "pay")
  BY <1>1 DEF Navigate, Show, formVars, Fresh
<1>2. ASSUME NEW p \in {"request", "scan", "elsewhere"}, GoTo(p)
      PROVE  Fresh /\ page' = p /\ p # page
  BY <1>2 DEF GoTo, Show, Fresh
<1>3. ASSUME NEW q \in All, OpenLink(q) \/ Closes(q) \/ Elsewhere(q)
      PROVE  UNCHANGED <<page, formVars>> \/ (Fresh /\ page' = "pay")
  BY <1>3 DEF OpenLink, Closes, Elsewhere, Show, Unpaid, formVars, Fresh
<1>4. CASE Arrive
  BY <1>4 DEF Arrive, Show, Fresh
<1>5. CASE ScanStep
  <2>1. CASE StartCamera \/ StopCamera \/ ChooseFile \/ ImageFails
    BY <2>1 DEF StartCamera, StopCamera, ChooseFile, ImageFails, formVars
  <2>2. ASSUME NEW q \in All, Decode(q) \/ Submit(q) \/ ImageFound(q) PROVE Navigate(q)
    BY <2>2 DEF Decode, Submit, ImageFound
  <2> QED
    BY <1>1, <1>5, <2>1, <2>2 DEF ScanStep
<1>6. CASE TryAgain \/ Pay
  BY <1>6 DEF TryAgain, Pay, Unpaid, formVars
<1>7. CASE AnswerStep
  <2>1. ASSUME NEW f \in flows, ReadRequest(f) \/ Quote(f) \/ QuoteFails(f)
        PROVE  UNCHANGED <<page, formVars>>
    BY <2>1 DEF ReadRequest, Quote, QuoteFails, Unpaid, formVars
  <2>2. ASSUME NEW i \in DOMAIN executes,
               Serve(i) \/ Settle(i) \/ Respond(i) \/ PayFails(i) \/ AnswerLost(i)
        PROVE  UNCHANGED <<page, formVars>>
    BY <2>2 DEF Serve, Settle, Respond, PayFails, AnswerLost, Unpaid, formVars
  <2> QED
    BY <1>7, <2>1, <2>2 DEF AnswerStep
<1> QED
  BY <1>1, <1>2, <1>3, <1>4, <1>5, <1>6, <1>7 DEF Next

\* The QR of a request just made stays on display until the user puts it away, for
\* any number of readings of the list and of cancellations, failing or late: a
\* failure behind it never takes the page back to its form.
THEOREM QrStaysForAll == Spec => QrStays
<1>1. Init => FormOK
  BY DEF Init, FormOK, NewForm
<1>2. FormOK /\ [Next]_vars => FormOK'
  <2>1. SUFFICES ASSUME FormOK, [Next]_vars PROVE FormOK'
    OBVIOUS
  <2>2. CASE UNCHANGED vars
    BY <2>1, <2>2 DEF vars, formVars, FormOK
  <2>3. CASE FormStep
    BY <2>1, <2>3, FormSteps
  <2>4. CASE Next /\ ~FormStep
    <3>1. UNCHANGED <<page, form>> \/ form' = NewForm
      BY <2>4, OtherSteps DEF Fresh, formVars
    <3> QED
      BY <2>1, <3>1 DEF FormOK, NewForm
  <2> QED
    BY <2>1, <2>2, <2>3, <2>4
<1>3. FormOK /\ [Next]_vars =>
        [form.stage = "ready" /\ page' = "request" /\ form'.stage # "ready" => Reset]_vars
  <2>1. SUFFICES ASSUME FormOK, Next, form.stage = "ready", page' = "request",
                        form'.stage # "ready"
                 PROVE  Reset
    OBVIOUS
  <2>2. page = "request"
    BY <2>1 DEF FormOK
  <2>3. CASE FormStep
    BY <2>1, <2>3, FormSteps
  <2>4. CASE ~FormStep
    BY <2>1, <2>2, <2>4, OtherSteps DEF formVars
  <2> QED
    BY <2>3, <2>4
<1> QED
  BY <1>1, <1>2, <1>3, PTL DEF Spec, QrStays

-----------------------------------------------------------------------------
(* ScanToPay. *)

\* Showing a page starts its scanner anew.
LEMMA ScannerShown ==
  ASSUME ScannerOK, NEW p, NEW q, Show(p, q), ghosts' \subseteq {TRUE}
  PROVE  ScannerOK'
  BY DEF Show, ScannerOK, NewScanner

\* Every step keeps the camera to its page.
LEMMA ScannerSteps ==
  ASSUME ScannerOK, [Next]_vars
  PROVE  ScannerOK'
<1>1. ASSUME UNCHANGED <<page, scanner, ghosts>> PROVE ScannerOK'
  BY <1>1 DEF ScannerOK
<1>2. ASSUME NEW p, NEW q, Show(p, q), LeaveScanner PROVE ScannerOK'
  BY <1>2, ScannerShown DEF LeaveScanner, Cleanup, ScannerOK
<1>3. ASSUME NEW q, OpenLink(q) PROVE ScannerOK'
  BY <1>3, ScannerShown DEF OpenLink
<1>4. ASSUME NEW q, Decode(q) PROVE ScannerOK'
  <2>1. page = "scan"
    BY <1>4 DEF Decode, Eyes, ScannerOK
  <2> QED
    BY <1>4, <2>1 DEF Decode, Navigate, ScannerOK, NewScanner
<1>5. ASSUME NEW q, Submit(q) PROVE ScannerOK'
  BY <1>5 DEF Submit, Navigate, ScannerOK
<1>6. ASSUME NEW q, ImageFound(q) PROVE ScannerOK'
  <2>1. CASE page = "scan"
    BY <1>6, <2>1 DEF ImageFound, Navigate, ScannerOK, NewScanner
  <2>2. CASE page = "pay"
    BY <1>6, <2>2, <1>1 DEF ImageFound, Navigate
  <2>3. CASE page \notin {"scan", "pay"}
    <3>1. Show("pay", q) /\ ghosts' = ghosts
      BY <1>6, <2>3 DEF ImageFound, Navigate
    <3> QED
      BY <3>1, ScannerShown DEF ScannerOK
  <2> QED
    BY <2>1, <2>2, <2>3
<1>7. CASE StartCamera \/ StopCamera \/ ChooseFile \/ ImageFails
  BY <1>7 DEF StartCamera, StopCamera, ChooseFile, ImageFails, ScannerOK, NewScanner
<1>8. CASE FormStep
  <2>1. CASE Create \/ Created \/ CreateFails \/ Reset
    BY <1>1, <2>1 DEF Create, Created, CreateFails, Reset, scanVars
  <2>2. ASSUME NEW i \in DOMAIN loads, ReadList(i) \/ ShowList(i) \/ ListFails(i) PROVE ScannerOK'
    BY <1>1, <2>2 DEF ReadList, ShowList, ListFails, scanVars
  <2>3. ASSUME NEW q \in Ours, Cancel(q) \/ Cancelled(q) \/ CancelFails(q) PROVE ScannerOK'
    BY <1>1, <2>3 DEF Cancel, Cancelled, CancelFails, scanVars
  <2> QED
    BY <1>8, <2>1, <2>2, <2>3 DEF FormStep
<1>9. CASE AnswerStep
  <2>1. ASSUME NEW f \in flows, ReadRequest(f) \/ Quote(f) \/ QuoteFails(f) PROVE ScannerOK'
    BY <1>1, <2>1 DEF ReadRequest, Quote, QuoteFails, Unpaid, scanVars
  <2>2. ASSUME NEW i \in DOMAIN executes,
               Serve(i) \/ Settle(i) \/ Respond(i) \/ PayFails(i) \/ AnswerLost(i)
        PROVE  ScannerOK'
    BY <1>1, <2>2 DEF Serve, Settle, Respond, PayFails, AnswerLost, Unpaid, scanVars
  <2> QED
    BY <1>9, <2>1, <2>2 DEF AnswerStep
<1>10. CASE TryAgain \/ Pay
  BY <1>1, <1>10 DEF TryAgain, Pay, Unpaid, scanVars
<1>11. ASSUME NEW q \in All, Closes(q) \/ Elsewhere(q) PROVE ScannerOK'
  BY <1>1, <1>11 DEF Closes, Elsewhere, Unpaid, scanVars
<1>12. CASE UNCHANGED vars
  BY <1>1, <1>12 DEF vars, scanVars
<1>13. CASE ScanStep
  BY <1>4, <1>5, <1>6, <1>7, <1>13 DEF ScanStep
<1> QED
  BY <1>2, <1>3, <1>8, <1>9, <1>10, <1>11, <1>12, <1>13 DEF Next, GoTo, Arrive

-----------------------------------------------------------------------------
(* What the rest of the application does to PayRequest: it mounts it anew or     *)
(* another page in its place, changes the address on its way to it, or leaves    *)
(* it alone; or it changes the address under it, which is straying.              *)

Remembers == strayed' \in BOOLEAN /\ (strayed => strayed')

\* A fulfilled request stays so.
RequestsMove ==
  /\ requests' \in [All -> {"ABSENT", "PENDING", "FULFILLED", "CANCELLED", "EXPIRED"}]
  /\ \A q \in All : requests[q] = "FULFILLED" => requests'[q] = "FULFILLED"

Replaced ==
  /\ Remembers
  /\ \E p \in Pages : \E q \in All \cup {None} : (p = "pay" => q \in All) /\ Show(p, q)

Addressed ==
  /\ Remembers
  /\ page # "pay" /\ route' \in All
  /\ UNCHANGED <<page, payVars, serverVars>>

Untouched ==
  /\ RequestsMove
  /\ UNCHANGED <<page, route, strayed, payVars, checkouts, paid>>

Diverted ==
  /\ strayed' = TRUE
  /\ page = "pay" /\ route' \in All
  /\ screen' \in {screen, [screen EXCEPT !.stage = "loading"]}
  /\ flows' \subseteq flows \cup {Reading(route')}
  /\ abandoned' \in BOOLEAN
  /\ UNCHANGED <<page, executes, serverVars>>

\* What the steps outside the payment itself do to the payment page.
LEMMA OtherPages ==
  ASSUME TypesOK, ScannerOK, Next, ~(TryAgain \/ Pay \/ AnswerStep)
  PROVE  Replaced \/ Addressed \/ Untouched \/ Diverted
<1>1. ASSUME NEW p \in {"request", "scan", "elsewhere"}, GoTo(p) PROVE Replaced
  BY <1>1 DEF GoTo, Replaced, Remembers, Pages, TypesOK, PlacesOK
<1>2. ASSUME NEW q \in All, OpenLink(q) PROVE Replaced
  BY <1>2 DEF OpenLink, Replaced, Remembers, Pages, TypesOK, PlacesOK
<1>3. CASE Arrive
  BY <1>3 DEF Arrive, Replaced, Remembers, Pages, TypesOK, PlacesOK
<1>4. ASSUME NEW q \in All, Closes(q) \/ Elsewhere(q) PROVE Untouched
  BY <1>4 DEF Closes, Elsewhere, Untouched, RequestsMove, Unpaid, scanVars, TypesOK, ServerOK
<1>5. CASE FormStep
  <2>1. Insert => RequestsMove
    BY DEF Insert, RequestsMove, TypesOK, ServerOK, All
  <2>2. UNCHANGED requests => RequestsMove
    BY DEF RequestsMove, TypesOK, ServerOK
  <2>3. CASE Create \/ Created \/ CreateFails \/ Reset
    BY <2>1, <2>2, <2>3 DEF Create, Created, CreateFails, Reset, Untouched, scanVars, serverVars
  <2>4. ASSUME NEW i \in DOMAIN loads, ReadList(i) \/ ShowList(i) \/ ListFails(i) PROVE Untouched
    BY <2>2, <2>4 DEF ReadList, ShowList, ListFails, Untouched, scanVars, serverVars
  <2>5. ASSUME NEW q \in Ours, Cancel(q) PROVE Untouched
    BY <2>2, <2>5 DEF Cancel, Untouched, scanVars, serverVars
  <2>6. ASSUME NEW q \in Ours, Cancelled(q) \/ CancelFails(q) PROVE Untouched
    BY <2>6 DEF Cancelled, CancelFails, Untouched, RequestsMove, scanVars, TypesOK, ServerOK, All
  <2> QED
    BY <1>5, <2>3, <2>4, <2>5, <2>6 DEF FormStep
<1>6. ASSUME NEW q \in All, Decode(q) PROVE Addressed
  <2>1. page = "scan"
    BY <1>6 DEF Decode, Eyes, ScannerOK
  <2> QED
    BY <1>6, <2>1 DEF Decode, Navigate, Addressed, Remembers, Twice, TypesOK, PlacesOK
<1>7. ASSUME NEW q \in All, Submit(q) PROVE Addressed
  BY <1>7 DEF Submit, Navigate, Addressed, Remembers, Twice, TypesOK, PlacesOK
<1>8. ASSUME NEW q \in All, ImageFound(q) PROVE Replaced \/ Addressed \/ Diverted
  <2>1. Remembers /\ Navigate(q) /\ (page = "pay" => strayed' = TRUE)
    BY <1>8 DEF ImageFound, Remembers, Twice, TypesOK, PlacesOK
  <2>2. CASE page = "scan"
    BY <2>1, <2>2 DEF Navigate, Addressed
  <2>3. CASE page = "pay"
    BY <2>1, <2>3 DEF Navigate, Diverted, TypesOK, PlacesOK
  <2>4. CASE page \notin {"scan", "pay"}
    BY <2>1, <2>4 DEF Navigate, Replaced, Pages
  <2> QED
    BY <2>2, <2>3, <2>4
<1>9. CASE StartCamera \/ StopCamera \/ ChooseFile \/ ImageFails
  <2>1. UNCHANGED <<page, route, strayed, payVars, serverVars>>
    BY <1>9 DEF StartCamera, StopCamera, ChooseFile, ImageFails
  <2> QED
    BY <2>1 DEF Untouched, RequestsMove, serverVars, TypesOK, ServerOK
<1> QED
  BY <1>1, <1>2, <1>3, <1>4, <1>5, <1>6, <1>7, <1>8, <1>9 DEF Next, ScanStep

-----------------------------------------------------------------------------
\* The rows of the sequences are well typed.
LEMMA Elements ==
  ASSUME TypesOK
  PROVE  /\ Len(executes) \in Nat /\ DOMAIN executes = 1 .. Len(executes)
         /\ \A i \in DOMAIN executes : executes[i] \in Executes
         /\ Len(checkouts) \in Nat /\ DOMAIN checkouts = 1 .. Len(checkouts)
         /\ \A k \in DOMAIN checkouts : checkouts[k] \in Quotes
  BY LenProperties DEF TypesOK, ServerOK, ScreenOK

\* A new page takes over, and the old one's calls go on without it.
LEMMA ReplacedKeeps == ASSUME PayInv, Replaced PROVE PayInv'
<1>1. PICK p \in Pages, q \in All \cup {None} : (p = "pay" => q \in All) /\ Show(p, q)
  BY DEF Replaced
<1>2. executes' \in Seq(Executes) /\ Len(executes') = Len(executes)
  <2>1. Len(executes) \in Nat /\ executes \in [1 .. Len(executes) -> Executes]
        /\ DOMAIN executes = 1 .. Len(executes)
    BY LenProperties DEF PayInv, TypesOK, ScreenOK
  <2>2. executes' \in [1 .. Len(executes) -> Executes]
    BY <1>1, <2>1 DEF Show, Executes
  <2> QED
    BY <2>1, <2>2, SeqDef, LenProperties
<1>3. \A i \in DOMAIN executes' : executes'[i].checkout \in DOMAIN checkouts' /\ ~executes'[i].mounted
  <2>1. ASSUME NEW i \in DOMAIN executes
        PROVE  executes'[i].checkout = executes[i].checkout /\ ~executes'[i].mounted
    BY <1>1, Elements DEF Show, PayInv, Executes
  <2> QED
    BY <1>1, <2>1 DEF Show, serverVars, PayInv, TypesOK, ScreenOK
<1>4. PlacesOK'
  BY <1>1 DEF Show, Replaced, Remembers, PayInv, TypesOK, PlacesOK
<1>5. ServerOK'
  BY <1>1 DEF Show, serverVars, PayInv, TypesOK, ServerOK
<1>6. screen' = NewScreen /\ flows' \subseteq {Reading(route')} /\ (page' # "pay" => flows' = {})
  BY <1>1 DEF Show
<1>7. ScreenOK'
  BY <1>1, <1>2, <1>3, <1>4, <1>6 DEF ScreenOK, NewScreen, Stages, Flows, Reading, PlacesOK, Show
<1>8. OneRequest'
  BY <1>6 DEF OneRequest, NewScreen, Reading
<1>9. OnePayment'
  <2>1. SUFFICES ASSUME ~strayed', ~abandoned' PROVE OnePayment'
    BY DEF OnePayment
  <2>2. ~strayed /\ ~abandoned /\ executes = << >>
    BY <1>1, <2>1 DEF Show, Replaced, Remembers, PayInv, TypesOK, PlacesOK
  <2>3. executes' = << >>
    BY <1>2, <2>2, EmptySeq
  <2> QED
    BY <1>1, <1>6, <2>2, <2>3 DEF OnePayment, PayInv, NewScreen, Reading, Show, serverVars
<1> QED
  BY <1>4, <1>5, <1>7, <1>8, <1>9 DEF PayInv, TypesOK

\* The address changes before a payment page is shown.
LEMMA AddressedKeeps == ASSUME PayInv, Addressed PROVE PayInv'
<1>1. UNCHANGED <<page, payVars, serverVars>> /\ page # "pay" /\ route' \in All /\ Remembers
  BY DEF Addressed
<1>2. TypesOK'
  BY <1>1 DEF payVars, serverVars, Remembers, PayInv, TypesOK, PlacesOK, ServerOK, ScreenOK
<1>3. OneRequest'
  BY <1>1 DEF OneRequest
<1>4. OnePayment'
  BY <1>1 DEF payVars, serverVars, Remembers, PayInv, TypesOK, PlacesOK, ScreenOK, NewScreen, OnePayment
<1> QED
  BY <1>2, <1>3, <1>4 DEF PayInv

\* Requests move on, and the payment page stays as it is.
LEMMA UntouchedKeeps == ASSUME PayInv, Untouched PROVE PayInv'
<1>1. UNCHANGED <<page, route, strayed, payVars, checkouts, paid>> /\ RequestsMove
  BY DEF Untouched
<1>2. ServerOK'
  BY <1>1 DEF RequestsMove, PayInv, TypesOK, ServerOK, All
<1>3. PlacesOK' /\ ScreenOK'
  BY <1>1 DEF payVars, PayInv, TypesOK, PlacesOK, ScreenOK
<1>4. OneRequest'
  BY <1>1 DEF payVars, PayInv, OneRequest
<1>5. OnePayment'
  BY <1>1 DEF payVars, PayInv, OnePayment
<1> QED
  BY <1>2, <1>3, <1>4, <1>5 DEF PayInv, TypesOK

\* The address changes under a payment page that stays.
LEMMA DivertedKeeps == ASSUME PayInv, Diverted PROVE PayInv'
<1>1. PlacesOK' /\ strayed'
  BY DEF Diverted, PayInv, TypesOK, PlacesOK
<1>2. ServerOK'
  BY DEF Diverted, serverVars, PayInv, TypesOK, ServerOK
<1>3. screen' \in [stage : Stages, request : All \cup {None}, checkout : Nat]
      /\ (screen'.stage \in {"review", "processing"} => screen' = screen)
  BY DEF Diverted, PayInv, TypesOK, ScreenOK, Stages
<1>4. flows' \subseteq Flows /\ \A f \in flows' : f.step = "quoting" => f.of \in Theirs
  BY DEF Diverted, PayInv, TypesOK, ScreenOK, Flows, Reading
<1>5. ScreenOK'
  BY <1>3, <1>4 DEF Diverted, serverVars, PayInv, TypesOK, ScreenOK
<1> QED
  BY <1>1, <1>2, <1>5 DEF PayInv, TypesOK, OneRequest, OnePayment

-----------------------------------------------------------------------------
(* PayRequest. *)

\* Try again starts a new reading of the request.
LEMMA TryAgainKeeps == ASSUME PayInv, TryAgain PROVE PayInv'
<1>1. /\ page = "pay" /\ screen.stage = "error"
      /\ screen' = [screen EXCEPT !.stage = "loading"]
      /\ flows' = flows \cup {Reading(route)}
      /\ UNCHANGED <<page, route, strayed, executes, abandoned, serverVars>>
  BY DEF TryAgain, Unpaid, scanVars
<1>2. PlacesOK' /\ ServerOK'
  BY <1>1 DEF serverVars, PayInv, TypesOK, PlacesOK, ServerOK
<1>3. screen' \in [stage : Stages, request : All \cup {None}, checkout : Nat] /\ screen'.stage = "loading"
      /\ screen'.request = screen.request
  BY <1>1 DEF PayInv, TypesOK, ScreenOK, Stages
<1>4. ScreenOK'
  BY <1>1, <1>3 DEF serverVars, PayInv, TypesOK, PlacesOK, ScreenOK, Flows, Reading
<1>5. OneRequest'
  BY <1>1, <1>3 DEF PayInv, OneRequest, Reading
<1>6. OnePayment'
  BY <1>1, <1>3 DEF serverVars, PayInv, OnePayment, Reading
<1> QED
  BY <1>2, <1>4, <1>5, <1>6 DEF PayInv, TypesOK

\* Pay sends the checkout that the page shows.
LEMMA PayKeeps == ASSUME PayInv, Pay PROVE PayInv'
<1> DEFINE e == [checkout |-> screen.checkout, step |-> "sent", mounted |-> TRUE]
<1>1. /\ page = "pay" /\ screen.stage = "review"
      /\ screen' = [screen EXCEPT !.stage = "processing"]
      /\ executes' = Append(executes, e)
      /\ UNCHANGED <<page, route, strayed, flows, abandoned, serverVars>>
  BY DEF Pay, Paying, Unpaid, scanVars
<1>2. PlacesOK' /\ ServerOK'
  BY <1>1 DEF serverVars, PayInv, TypesOK, PlacesOK, ServerOK
<1>3. screen' \in [stage : Stages, request : All \cup {None}, checkout : Nat] /\ screen'.stage = "processing"
      /\ screen'.request = screen.request /\ screen'.checkout = screen.checkout
      /\ screen.checkout \in DOMAIN checkouts
  BY <1>1 DEF PayInv, TypesOK, ScreenOK, Stages
<1>4. e \in Executes /\ e.checkout = screen.checkout /\ e.step = "sent" /\ e.mounted
  BY DEF PayInv, TypesOK, ScreenOK, Executes
<1> HIDE DEF e
<1>5. /\ executes' \in Seq(Executes) /\ Len(executes') = Len(executes) + 1
      /\ \A i \in DOMAIN executes' : (i \in DOMAIN executes /\ executes'[i] = executes[i])
                                     \/ (i = Len(executes) + 1 /\ executes'[i] = e)
  BY <1>1, <1>4, AppendProperties, LenProperties DEF PayInv, TypesOK, ScreenOK
<1>6. ScreenOK'
  BY <1>1, <1>3, <1>4, <1>5 DEF serverVars, PayInv, TypesOK, ScreenOK
<1>7. OneRequest'
  BY <1>1, <1>3 DEF serverVars, PayInv, OneRequest
<1>8. OnePayment'
  <2>1. SUFFICES ASSUME ~strayed, ~abandoned PROVE OnePayment'
    BY <1>1 DEF OnePayment
  <2>2. executes = << >> /\ screen.request = route /\ checkouts[screen.checkout].for = route
    BY <1>1, <2>1 DEF PayInv, OnePayment, OneRequest
  <2>3. route \in Theirs
    BY <1>3, <2>2, Elements DEF PayInv, Quotes
  <2>4. Len(executes') = 1 /\ executes'[1] = e
    BY <1>5, <2>2, EmptySeq, LenProperties
  <2> QED
    BY <1>1, <1>3, <1>4, <2>1, <2>3, <2>4 DEF serverVars, PayInv, OnePayment
<1> QED
  BY <1>2, <1>6, <1>7, <1>8 DEF PayInv, TypesOK

\* The request has been read.
LEMMA ReadRequestKeeps == ASSUME PayInv, NEW f \in flows, ReadRequest(f) PROVE PayInv'
<1>1. /\ page = "pay" /\ f \in Flows /\ f.step = "reading"
      /\ UNCHANGED <<page, route, strayed, executes, abandoned, serverVars>>
  BY DEF ReadRequest, Unpaid, scanVars, PayInv, TypesOK, ScreenOK
<1>2. PlacesOK' /\ ServerOK'
  BY <1>1 DEF serverVars, PayInv, TypesOK, PlacesOK, ServerOK
<1> DEFINE g == [f EXCEPT !.step = "quoting"]
<1>3. g \in Flows /\ g.of = f.of
  BY <1>1 DEF Flows
<1>4. CASE /\ f.of \in Theirs /\ requests[f.of] = "PENDING"
           /\ screen' = [screen EXCEPT !.request = f.of]
           /\ flows' = (flows \ {f}) \cup {g}
  <2>1. screen' \in [stage : Stages, request : All \cup {None}, checkout : Nat]
        /\ screen'.request = f.of
        /\ screen'.stage = screen.stage /\ screen'.checkout = screen.checkout
    BY <1>1, <1>4 DEF PayInv, TypesOK, ScreenOK, Flows
  <2> HIDE DEF g
  <2>2. ScreenOK'
    BY <1>1, <1>3, <1>4, <2>1 DEF serverVars, PayInv, TypesOK, ScreenOK
  <2>3. OneRequest'
    BY <1>1, <1>3, <1>4, <2>1 DEF serverVars, PayInv, OneRequest
  <2>4. paid[f.of] = 0
    BY <1>4 DEF PayInv, TypesOK, ServerOK
  <2>5. OnePayment'
    BY <1>1, <1>3, <1>4, <2>1, <2>4 DEF serverVars, PayInv, OnePayment
  <2> QED
    BY <1>2, <2>2, <2>3, <2>5 DEF PayInv, TypesOK
<1>5. ASSUME NEW stage \in {"not-found", "own-request", "unpayable"},
             NEW q \in {screen.request, f.of},
             screen' = [screen EXCEPT !.request = q, !.stage = stage], flows' = flows \ {f}
      PROVE  PayInv'
  <2>1. screen' \in [stage : Stages, request : All \cup {None}, checkout : Nat]
        /\ screen'.request = q /\ screen'.stage = stage
    BY <1>1, <1>5 DEF PayInv, TypesOK, ScreenOK, Flows, Stages
  <2>2. ScreenOK'
    BY <1>1, <1>5, <2>1 DEF serverVars, PayInv, TypesOK, ScreenOK
  <2>3. OneRequest'
    BY <1>1, <1>5, <2>1 DEF serverVars, PayInv, OneRequest
  <2>4. OnePayment'
    BY <1>1, <1>5, <2>1 DEF serverVars, PayInv, OnePayment
  <2> QED
    BY <1>2, <2>2, <2>3, <2>4 DEF PayInv, TypesOK
<1>6. [screen EXCEPT !.stage = "not-found"] = [screen EXCEPT !.request = screen.request, !.stage = "not-found"]
  BY DEF PayInv, TypesOK, ScreenOK
<1> QED
  BY <1>4, <1>5, <1>6 DEF ReadRequest

\* The quote is there: a checkout of its own for the request.
LEMMA QuoteKeeps == ASSUME PayInv, NEW f \in flows, Quote(f) PROVE PayInv'
<1> DEFINE e == [for |-> f.of, status |-> "PENDING_APPROVAL"]
<1>1. /\ page = "pay" /\ f.of \in Theirs /\ f.step = "quoting"
      /\ checkouts' = Append(checkouts, e)
      /\ screen' = [screen EXCEPT !.checkout = Len(checkouts'), !.stage = "review"]
      /\ flows' = flows \ {f}
      /\ UNCHANGED <<page, route, strayed, executes, abandoned, requests, paid>>
  BY DEF Quote, Unpaid, scanVars, PayInv, TypesOK, ScreenOK
<1>2. e \in Quotes /\ e.for = f.of
  BY <1>1 DEF Quotes
<1> HIDE DEF e
<1>3. /\ checkouts' \in Seq(Quotes) /\ Len(checkouts') = Len(checkouts) + 1
      /\ Len(checkouts') \in Nat /\ DOMAIN checkouts' = 1 .. Len(checkouts')
      /\ checkouts'[Len(checkouts')] = e
      /\ DOMAIN checkouts \subseteq DOMAIN checkouts'
  BY <1>1, <1>2, Elements, AppendProperties, LenProperties DEF PayInv, TypesOK, ServerOK
<1>4. screen' \in [stage : Stages, request : All \cup {None}, checkout : Nat]
      /\ screen'.stage = "review" /\ screen'.request = screen.request
      /\ screen'.checkout = Len(checkouts')
  BY <1>1, <1>3 DEF PayInv, TypesOK, ScreenOK, Stages
<1>5. PlacesOK' /\ ServerOK'
  BY <1>1, <1>3 DEF PayInv, TypesOK, PlacesOK, ServerOK
<1>6. screen'.checkout \in DOMAIN checkouts'
  BY <1>3, <1>4, Elements DEF PayInv
<1>7. ScreenOK'
  BY <1>1, <1>3, <1>4, <1>6 DEF PayInv, TypesOK, ScreenOK
<1>8. OneRequest'
  BY <1>1, <1>2, <1>3, <1>4 DEF PayInv, OneRequest
<1>9. OnePayment'
  <2>1. SUFFICES ASSUME ~strayed, ~abandoned PROVE OnePayment'
    BY <1>1 DEF OnePayment
  <2>2. paid[route] = 0
    BY <1>1, <2>1 DEF PayInv, OneRequest, OnePayment
  <2> QED
    BY <1>1, <1>4, <2>1, <2>2 DEF PayInv, OnePayment
<1> QED
  BY <1>5, <1>7, <1>8, <1>9 DEF PayInv, TypesOK

\* There is no quote.
LEMMA QuoteFailsKeeps == ASSUME PayInv, NEW f \in flows, QuoteFails(f) PROVE PayInv'
<1>1. /\ page = "pay" /\ f \in Flows /\ f.of \in Theirs /\ f.step = "quoting"
      /\ flows' = flows \ {f}
      /\ UNCHANGED <<page, route, strayed, executes, abandoned, checkouts, paid>>
  BY DEF QuoteFails, Unpaid, scanVars, PayInv, TypesOK, ScreenOK
<1>2. PICK stage \in {"insufficient", "error"} : screen' = [screen EXCEPT !.stage = stage]
  BY DEF QuoteFails
<1>3. requests' = requests
      \/ (requests[f.of] = "PENDING" /\ requests' = [requests EXCEPT ![f.of] = "EXPIRED"])
  BY DEF QuoteFails
<1>4. PlacesOK' /\ ServerOK'
  BY <1>1, <1>3 DEF PayInv, TypesOK, PlacesOK, ServerOK, All
<1>5. screen' \in [stage : Stages, request : All \cup {None}, checkout : Nat] /\ screen'.stage = stage
  BY <1>2 DEF PayInv, TypesOK, ScreenOK, Stages
<1>6. ScreenOK'
  BY <1>1, <1>5 DEF PayInv, TypesOK, ScreenOK
<1>7. OneRequest'
  BY <1>1, <1>2, <1>5 DEF PayInv, TypesOK, ScreenOK, OneRequest
<1>8. OnePayment'
  <2>1. SUFFICES ASSUME ~strayed, ~abandoned PROVE OnePayment'
    BY <1>1 DEF OnePayment
  <2>2. paid[route] = 0
    BY <1>1, <2>1 DEF PayInv, OneRequest, OnePayment
  <2> QED
    BY <1>1, <1>5, <2>1, <2>2 DEF PayInv, OnePayment
<1> QED
  BY <1>4, <1>6, <1>7, <1>8 DEF PayInv, TypesOK

\* A payment whose step changes keeps its checkout and its page.
LEMMA StepOfPayment ==
  ASSUME TypesOK, NEW i \in DOMAIN executes, NEW step \in {"sending", "paid", "refused"},
         executes' = [executes EXCEPT ![i].step = step]
  PROVE  /\ executes' \in Seq(Executes) /\ Len(executes') = Len(executes)
         /\ DOMAIN executes' = DOMAIN executes
         /\ executes'[i].step = step
         /\ \A j \in DOMAIN executes : /\ executes'[j].checkout = executes[j].checkout
                                       /\ executes'[j].mounted = executes[j].mounted
<1> DEFINE e == [executes[i] EXCEPT !.step = step]
<1>1. e \in Executes /\ e.step = step /\ e.checkout = executes[i].checkout
      /\ e.mounted = executes[i].mounted
  BY Elements DEF Executes
<1>2. executes' = [executes EXCEPT ![i] = e] /\ executes \in Seq(Executes) /\ i \in 1 .. Len(executes)
  BY Elements DEF TypesOK, ScreenOK
<1> HIDE DEF e
<1> QED
  BY <1>1, <1>2, ExceptSeq, LenProperties

\* A checkout whose status changes stays the checkout of its request.
LEMMA StatusOfCheckout ==
  ASSUME TypesOK, NEW k \in DOMAIN checkouts,
         NEW status \in {"PENDING_APPROVAL", "EXPIRED", "SETTLED", "FAILED"},
         checkouts' = [checkouts EXCEPT ![k].status = status]
  PROVE  /\ checkouts' \in Seq(Quotes) /\ DOMAIN checkouts' = DOMAIN checkouts
         /\ \A j \in DOMAIN checkouts : checkouts'[j].for = checkouts[j].for
<1> DEFINE e == [checkouts[k] EXCEPT !.status = status]
<1>1. e \in Quotes /\ e.for = checkouts[k].for
  BY Elements DEF Quotes
<1>2. checkouts' = [checkouts EXCEPT ![k] = e] /\ checkouts \in Seq(Quotes) /\ k \in 1 .. Len(checkouts)
  BY Elements DEF TypesOK, ServerOK
<1> HIDE DEF e
<1> QED
  BY <1>1, <1>2, ExceptSeq, LenProperties

\* RemoveAt leaves the other elements.
LEMMA Removed ==
  ASSUME NEW T, NEW s \in Seq(T), NEW i \in DOMAIN s, NEW r, r = RemoveAt(s, i)
  PROVE  /\ r \in Seq(T)
         /\ \A j \in DOMAIN r : \E m \in DOMAIN s : r[j] = s[m]
         /\ Len(s) = 1 => r = << >>
<1> DEFINE a == SubSeq(s, 1, i - 1)
           b == SubSeq(s, i + 1, Len(s))
<1>1. i \in 1 .. Len(s) /\ Len(s) \in Nat
  BY LenProperties
<1>2. /\ a \in Seq(T) /\ Len(a) = i - 1
      /\ \A j \in 1 .. Len(a) : \E m \in 1 .. Len(s) : a[j] = s[m]
  <2>1. /\ a \in Seq(T) /\ Len(a) = IF 1 <= i - 1 THEN (i - 1) - 1 + 1 ELSE 0
        /\ \A j \in 1 .. (i - 1) - 1 + 1 : a[j] = s[1 + j - 1]
    BY <1>1, LenProperties, SubSeqProperties
  <2>2. Len(a) = i - 1
    BY <1>1, <2>1
  <2>3. ASSUME NEW j \in 1 .. Len(a) PROVE 1 + j - 1 \in 1 .. Len(s) /\ a[j] = s[1 + j - 1]
    BY <1>1, <2>1, <2>2
  <2> HIDE DEF a
  <2> QED
    BY <2>1, <2>2, <2>3
<1>3. /\ b \in Seq(T) /\ Len(b) = Len(s) - i
      /\ \A j \in 1 .. Len(b) : \E m \in 1 .. Len(s) : b[j] = s[m]
  <2>1. /\ b \in Seq(T)
        /\ Len(b) = IF i + 1 <= Len(s) THEN Len(s) - (i + 1) + 1 ELSE 0
        /\ \A j \in 1 .. Len(s) - (i + 1) + 1 : b[j] = s[(i + 1) + j - 1]
    BY <1>1, LenProperties, SubSeqProperties
  <2>2. Len(b) = Len(s) - i
    BY <1>1, <2>1
  <2>3. ASSUME NEW j \in 1 .. Len(b)
        PROVE  (i + 1) + j - 1 \in 1 .. Len(s) /\ b[j] = s[(i + 1) + j - 1]
    BY <1>1, <2>1, <2>2
  <2> HIDE DEF b
  <2> QED
    BY <2>1, <2>2, <2>3
<1>4. r = a \o b
  BY DEF RemoveAt
<1> HIDE DEF a, b
<1>5. /\ r \in Seq(T) /\ Len(r) = Len(a) + Len(b)
      /\ \A j \in 1 .. Len(a) + Len(b) :
           r[j] = IF j <= Len(a) THEN a[j] ELSE b[j - Len(a)]
  BY <1>2, <1>3, <1>4, ConcatProperties
<1>6. \A j \in DOMAIN r : \E m \in DOMAIN s : r[j] = s[m]
  <2>1. Len(a) \in Nat /\ Len(b) \in Nat
    BY <1>2, <1>3, LenProperties
  <2>2. SUFFICES ASSUME NEW j \in 1 .. Len(a) + Len(b)
                 PROVE  \E m \in 1 .. Len(s) : r[j] = s[m]
    BY <1>5, LenProperties
  <2>3. CASE j <= Len(a)
    <3>1. j \in 1 .. Len(a) /\ r[j] = a[j]
      BY <1>5, <2>1, <2>3
    <3> QED
      BY <1>2, <3>1
  <2>4. CASE ~(j <= Len(a))
    <3>1. j - Len(a) \in 1 .. Len(b) /\ r[j] = b[j - Len(a)]
      BY <1>5, <2>1, <2>4
    <3> QED
      BY <1>3, <3>1
  <2> QED
    BY <2>3, <2>4
<1>7. Len(s) = 1 => r = << >>
  <2>1. Len(r) = Len(s) - 1
    BY <1>1, <1>2, <1>3, <1>5
  <2> QED
    BY <1>5, <2>1, EmptySeq
<1> QED
  BY <1>5, <1>6, <1>7

\* While PayRequest is paying and nothing has strayed, what it pays is the request
\* in the address.
LEMMA PaysTheRoute ==
  ASSUME PayInv, ~strayed, ~abandoned, NEW i \in DOMAIN executes
  PROVE  /\ page = "pay" /\ screen.stage = "processing" /\ flows = {}
         /\ i = 1 /\ Len(executes) = 1 /\ executes[1].mounted
         /\ executes[1].checkout = screen.checkout
         /\ checkouts[executes[1].checkout].for = route /\ route \in Theirs
         /\ paid[route] = IF executes[1].step = "paid" THEN 1 ELSE 0
<1>1. executes # << >>
  BY Elements, EmptySeq DEF PayInv
<1>2. screen.stage = "processing" /\ Len(executes) = 1 /\ executes[1].mounted
      /\ executes[1].checkout = screen.checkout /\ flows = {}
      /\ paid[route] = IF executes[1].step = "paid" THEN 1 ELSE 0
  BY <1>1 DEF PayInv, OnePayment
<1>3. i = 1
  BY <1>2, Elements DEF PayInv
<1>4. page = "pay" /\ screen.checkout \in DOMAIN checkouts
  BY <1>2 DEF PayInv, TypesOK, ScreenOK, NewScreen
<1>5. checkouts[screen.checkout].for = route
  BY <1>2, <1>4 DEF PayInv, OneRequest
<1>6. route \in Theirs
  BY <1>4, <1>5, Elements DEF PayInv, Quotes
<1> QED
  BY <1>2, <1>3, <1>4, <1>5, <1>6

\* The server accepts or refuses an execution.
LEMMA ServeKeeps == ASSUME PayInv, NEW i \in DOMAIN executes, Serve(i) PROVE PayInv'
<1> DEFINE k == executes[i].checkout
<1>1. UNCHANGED <<page, route, strayed, screen, flows, abandoned, requests, paid>>
      /\ executes[i].step = "sent"
  BY DEF Serve, Unpaid, scanVars
<1>2. PICK step \in {"sending", "refused"} : executes' = [executes EXCEPT ![i].step = step]
  BY DEF Serve
<1>3. k \in DOMAIN checkouts /\ checkouts[k] \in Quotes
  BY Elements DEF PayInv, TypesOK, ScreenOK
<1>4. checkouts' = checkouts \/ \E status \in {"PENDING_APPROVAL", "EXPIRED", "SETTLED", "FAILED"} :
                                  checkouts' = [checkouts EXCEPT ![k].status = status]
  BY <1>3 DEF Serve, Quotes
<1>5. /\ executes' \in Seq(Executes) /\ Len(executes') = Len(executes)
      /\ DOMAIN executes' = DOMAIN executes /\ executes'[i].step = step
      /\ \A j \in DOMAIN executes : /\ executes'[j].checkout = executes[j].checkout
                                    /\ executes'[j].mounted = executes[j].mounted
  BY <1>2, StepOfPayment DEF PayInv
<1>6. /\ checkouts' \in Seq(Quotes) /\ DOMAIN checkouts' = DOMAIN checkouts
      /\ \A j \in DOMAIN checkouts : checkouts'[j].for = checkouts[j].for
  BY <1>3, <1>4, StatusOfCheckout DEF PayInv, TypesOK, ServerOK
<1> HIDE DEF k
<1>7. PlacesOK' /\ ServerOK'
  BY <1>1, <1>6 DEF PayInv, TypesOK, PlacesOK, ServerOK
<1>8. ScreenOK'
  BY <1>1, <1>5, <1>6 DEF PayInv, TypesOK, ScreenOK
<1>9. OneRequest'
  BY <1>1, <1>6 DEF PayInv, TypesOK, ScreenOK, OneRequest
<1>10. OnePayment'
  <2>1. SUFFICES ASSUME ~strayed, ~abandoned PROVE OnePayment'
    BY <1>1 DEF OnePayment
  <2> QED
    BY <1>1, <1>5, <2>1, PaysTheRoute DEF PayInv, OnePayment
<1> QED
  BY <1>7, <1>8, <1>9, <1>10 DEF PayInv, TypesOK

\* A transfer settles, and pays its request.
LEMMA SettleKeeps == ASSUME PayInv, NEW i \in DOMAIN executes, Settle(i) PROVE PayInv'
<1> DEFINE k == executes[i].checkout
           q == checkouts[k].for
<1>1. UNCHANGED <<page, route, strayed, screen, flows, abandoned>> /\ executes[i].step = "sending"
  BY DEF Settle, Unpaid, scanVars
<1>2. k \in DOMAIN checkouts /\ q \in Theirs
  BY Elements DEF PayInv, TypesOK, ScreenOK, Quotes
<1>3. PICK step \in {"paid", "refused"} :
        /\ executes' = [executes EXCEPT ![i].step = step]
        /\ step = "paid" => paid' = [paid EXCEPT ![q] = @ + 1]
                            /\ requests' = [requests EXCEPT ![q] = "FULFILLED"]
        /\ step = "refused" => UNCHANGED <<paid, requests>>
  BY DEF Settle
<1>4. PICK status \in {"SETTLED", "PENDING_APPROVAL", "FAILED"} :
        checkouts' = [checkouts EXCEPT ![k].status = status]
  BY DEF Settle
<1>5. /\ executes' \in Seq(Executes) /\ Len(executes') = Len(executes)
      /\ DOMAIN executes' = DOMAIN executes /\ executes'[i].step = step
      /\ \A j \in DOMAIN executes : /\ executes'[j].checkout = executes[j].checkout
                                    /\ executes'[j].mounted = executes[j].mounted
  BY <1>3, StepOfPayment DEF PayInv
<1>6. /\ checkouts' \in Seq(Quotes) /\ DOMAIN checkouts' = DOMAIN checkouts
      /\ \A j \in DOMAIN checkouts : checkouts'[j].for = checkouts[j].for
  BY <1>2, <1>4, StatusOfCheckout DEF PayInv
<1>7. ~strayed /\ ~abandoned => k = executes[1].checkout /\ q = route
  BY PaysTheRoute
<1> HIDE DEF k, q
<1>8. PlacesOK' /\ ServerOK'
  <2>1. PlacesOK'
    BY <1>1 DEF PayInv, TypesOK, PlacesOK
  <2>2. CASE step = "paid"
    <3>1. paid' = [paid EXCEPT ![q] = @ + 1] /\ requests' = [requests EXCEPT ![q] = "FULFILLED"]
      BY <1>3, <2>2
    <3> QED
      BY <1>2, <1>6, <2>1, <3>1 DEF PayInv, TypesOK, ServerOK, All
  <2>3. CASE step = "refused"
    BY <1>3, <1>6, <2>1, <2>3 DEF PayInv, TypesOK, ServerOK
  <2> QED
    BY <2>2, <2>3
<1>9. ScreenOK'
  BY <1>1, <1>5, <1>6 DEF PayInv, TypesOK, ScreenOK
<1>10. OneRequest'
  BY <1>1, <1>6 DEF PayInv, TypesOK, ScreenOK, OneRequest
<1>11. OnePayment'
  <2>1. SUFFICES ASSUME ~strayed, ~abandoned PROVE OnePayment'
    BY <1>1 DEF OnePayment
  <2>2. /\ i = 1 /\ screen.stage = "processing" /\ flows = {} /\ executes # << >>
        /\ paid[route] = 0 /\ paid \in [Theirs -> Nat] /\ q = route /\ q \in Theirs
    BY <1>1, <1>2, <1>7, <2>1, PaysTheRoute, Elements, EmptySeq DEF PayInv, TypesOK, ServerOK
  <2>3. paid'[route] = IF step = "paid" THEN 1 ELSE 0
    BY <1>3, <2>2
  <2>4. \A p \in Theirs : paid'[p] <= 1
    BY <1>3, <2>1, <2>2, <2>3 DEF PayInv, OnePayment
  <2> QED
    BY <1>1, <1>5, <2>1, <2>2, <2>3, <2>4 DEF PayInv, OnePayment
<1> QED
  BY <1>8, <1>9, <1>10, <1>11 DEF PayInv, TypesOK

\* What PayRequest shows when a payment leaves its hands, with its answer or
\* without one, and that it knows of no other.
LEMMA Leaves ==
  ASSUME PayInv, NEW i \in DOMAIN executes,
         UNCHANGED <<page, route, strayed, flows, serverVars>>,
         executes' \in Seq(Executes),
         \A j \in DOMAIN executes' : \E m \in DOMAIN executes :
           /\ executes'[j].checkout = executes[m].checkout
           /\ executes'[j].mounted => executes[m].mounted,
         NEW stage \in {"done", "error"},
         screen' = IF executes[i].mounted THEN [screen EXCEPT !.stage = stage] ELSE screen,
         abandoned' \in BOOLEAN, abandoned => abandoned',
         ~strayed /\ ~abandoned' =>
           /\ executes' = << >>
           /\ stage = IF executes[i].step = "paid" THEN "done" ELSE "error"
  PROVE  PayInv'
<1>1. PlacesOK' /\ ServerOK'
  BY DEF serverVars, PayInv, TypesOK, PlacesOK, ServerOK
<1>2. /\ screen' \in [stage : Stages, request : All \cup {None}, checkout : Nat]
      /\ screen'.request = screen.request /\ screen'.checkout = screen.checkout
      /\ screen'.stage = IF executes[i].mounted THEN stage ELSE screen.stage
  BY DEF PayInv, TypesOK, ScreenOK, Stages
<1>3. ScreenOK'
  BY <1>2 DEF serverVars, PayInv, TypesOK, ScreenOK
<1>4. OneRequest'
  BY <1>2 DEF serverVars, PayInv, OneRequest
<1>5. OnePayment'
  <2>1. SUFFICES ASSUME ~strayed, ~abandoned, ~abandoned' PROVE OnePayment'
    BY DEF OnePayment, PayInv, TypesOK, PlacesOK
  <2>2. /\ executes[i].mounted /\ flows = {} /\ executes' = << >>
        /\ screen'.stage = IF executes[i].step = "paid" THEN "done" ELSE "error"
        /\ paid[route] = IF executes[i].step = "paid" THEN 1 ELSE 0
    BY <1>2, <2>1, PaysTheRoute
  <2> QED
    BY <2>1, <2>2 DEF serverVars, PayInv, OnePayment
<1> QED
  BY <1>1, <1>3, <1>4, <1>5 DEF PayInv, TypesOK

\* The answer reaches the page that asked, or nobody.
LEMMA RespondKeeps ==
  ASSUME PayInv, NEW i \in DOMAIN executes, Respond(i) \/ PayFails(i)
  PROVE  PayInv'
<1>1. UNCHANGED <<page, route, strayed, flows, abandoned, serverVars>>
      /\ executes' = RemoveAt(executes, i)
  BY DEF Respond, PayFails, Unpaid, scanVars
<1>2. PICK stage \in {"done", "error"} :
        /\ screen' = IF executes[i].mounted THEN [screen EXCEPT !.stage = stage] ELSE screen
        /\ stage = IF executes[i].step = "paid" THEN "done" ELSE "error"
  BY DEF Respond, PayFails, Report
<1>3. /\ executes' \in Seq(Executes)
      /\ \A j \in DOMAIN executes' : \E m \in DOMAIN executes : executes'[j] = executes[m]
      /\ Len(executes) = 1 => executes' = << >>
  BY <1>1, Removed DEF PayInv, TypesOK, ScreenOK
<1>4. ~strayed /\ ~abandoned => executes' = << >>
  BY <1>3, PaysTheRoute
<1>5. abandoned' \in BOOLEAN
  BY <1>1 DEF PayInv, TypesOK, PlacesOK
<1>6. \A j \in DOMAIN executes' : \E m \in DOMAIN executes :
        /\ executes'[j].checkout = executes[m].checkout
        /\ executes'[j].mounted => executes[m].mounted
  BY <1>3
<1> QED
  BY <1>1, <1>2, <1>3, <1>4, <1>5, <1>6, Leaves

\* The answer is lost, and the page takes it for a failure.
LEMMA AnswerLostKeeps == ASSUME PayInv, NEW i \in DOMAIN executes, AnswerLost(i) PROVE PayInv'
<1> DEFINE e == [executes[i] EXCEPT !.mounted = FALSE]
<1>1. /\ UNCHANGED <<page, route, strayed, flows, serverVars>> /\ abandoned' = TRUE
      /\ executes[i].mounted /\ screen' = [screen EXCEPT !.stage = "error"]
      /\ executes' = [executes EXCEPT ![i] = e]
  BY DEF AnswerLost, Unpaid, scanVars
<1>2. e \in Executes /\ e.checkout = executes[i].checkout /\ ~e.mounted
  BY Elements DEF PayInv, Executes
<1>3. executes \in Seq(Executes) /\ i \in 1 .. Len(executes)
  BY Elements DEF PayInv, TypesOK, ScreenOK
<1> HIDE DEF e
<1>4. /\ executes' \in Seq(Executes) /\ DOMAIN executes' = DOMAIN executes
      /\ \A j \in DOMAIN executes : executes'[j] = IF j = i THEN e ELSE executes[j]
  BY <1>1, <1>2, <1>3, ExceptSeq, LenProperties
<1>5. \A j \in DOMAIN executes' : /\ executes'[j].checkout = executes[j].checkout
                                  /\ executes'[j].mounted => executes[j].mounted
  BY <1>2, <1>4
<1> QED
  BY <1>1, <1>4, <1>5, Leaves

-----------------------------------------------------------------------------
\* The invariant holds at first.
LEMMA PayInit == Init => ScannerOK /\ PayInv
<1> SUFFICES ASSUME Init PROVE ScannerOK /\ PayInv
  OBVIOUS
<1>1. executes \in Seq(Executes) /\ checkouts \in Seq(Quotes) /\ DOMAIN executes = {}
  BY EmptySeq DEF Init
<1>2. ScannerOK
  BY DEF Init, ScannerOK, NewScanner
<1>3. PlacesOK /\ ServerOK
  BY <1>1 DEF Init, PlacesOK, ServerOK, Pages
<1>4. ScreenOK
  BY <1>1 DEF Init, ScreenOK, NewScreen, Stages
<1>5. OneRequest /\ OnePayment
  BY DEF Init, OneRequest, OnePayment, NewScreen
<1> QED
  BY <1>2, <1>3, <1>4, <1>5 DEF PayInv, TypesOK

\* Every step keeps the invariant.
LEMMA PaySteps ==
  ASSUME ScannerOK, PayInv, [Next]_vars
  PROVE  PayInv'
<1>1. CASE UNCHANGED vars
  BY <1>1 DEF vars, scanVars, payVars, serverVars, PayInv, TypesOK, PlacesOK, ServerOK, ScreenOK,
              OneRequest, OnePayment
<1>2. CASE AnswerStep
  <2>1. ASSUME NEW f \in flows, ReadRequest(f) \/ Quote(f) \/ QuoteFails(f) PROVE PayInv'
    BY <2>1, ReadRequestKeeps, QuoteKeeps, QuoteFailsKeeps
  <2>2. ASSUME NEW i \in DOMAIN executes,
               Serve(i) \/ Settle(i) \/ Respond(i) \/ PayFails(i) \/ AnswerLost(i)
        PROVE  PayInv'
    BY <2>2, ServeKeeps, SettleKeeps, RespondKeeps, AnswerLostKeeps
  <2> QED
    BY <1>2, <2>1, <2>2 DEF AnswerStep
<1>3. CASE TryAgain \/ Pay
  BY <1>3, TryAgainKeeps, PayKeeps
<1>4. CASE Next /\ ~(TryAgain \/ Pay \/ AnswerStep)
  <2>1. Replaced \/ Addressed \/ Untouched \/ Diverted
    BY <1>4, OtherPages DEF PayInv
  <2> QED
    BY <2>1, ReplacedKeeps, AddressedKeeps, UntouchedKeeps, DivertedKeeps
<1> QED
  BY <1>1, <1>2, <1>3, <1>4

\* The invariant of the payment pages holds throughout.
LEMMA PayInvariant == Spec => []PayInv
<1>1. ScannerOK /\ PayInv /\ [Next]_vars => (ScannerOK /\ PayInv)'
  BY ScannerSteps, PaySteps
<1> QED
  BY PayInit, <1>1, PTL DEF Spec

\* The payee and the checkout on the screen are those of the request in the
\* address, for any number of requests, quotes and visits, as long as no visit of
\* the scanner led to two requests: responses that come late, retries and reloads
\* never put one payee's name to another's checkout.
THEOREM PayeeShownForAll == Spec => []PayeeShown
<1>1. PayInv => PayeeShown
  BY DEF PayInv, OneRequest, PayeeShown
<1> QED
  BY PayInvariant, <1>1, PTL

\* The outcome on the screen is the one on the server, for any number of requests,
\* quotes and retries, as long as answers arrive and nothing strays.
THEOREM ReportIsTrueForAll == Spec => []ReportIsTrue
<1>1. PayInv => ReportIsTrue
  BY DEF PayInv, OnePayment, ReportIsTrue
<1> QED
  BY PayInvariant, <1>1, PTL

\* A request is paid at most once, under the same conditions, although the server
\* lets several checkouts of one request exist: the page offers a payment only
\* while the request is unpaid and takes the offer back before it pays.
THEOREM PaidOnceForAll == Spec => []PaidOnce
<1>1. PayInv => PaidOnce
  BY DEF PayInv, OnePayment, PaidOnce
<1> QED
  BY PayInvariant, <1>1, PTL

-----------------------------------------------------------------------------
(* The list of requests. *)

Statuses == {"ABSENT", "PENDING", "FULFILLED", "CANCELLED", "EXPIRED"}

Loads == [seen : {<< >>} \cup [Ours -> Statuses], cancels : BOOLEAN]

\* The list, or the one reading of it that is under way, has the request on display.
OnDisplay ==
  /\ loads = << >> /\ form.qr # None => form.list[form.qr] # "ABSENT"
  /\ loads # << >> => /\ Len(loads) = 1
                      /\ form.qr # None /\ loads[1].seen # << >> =>
                           loads[1].seen[form.qr] # "ABSENT"

ListOK ==
  /\ loads \in Seq(Loads)
  /\ form.qr # None => form.qr \in Ours /\ requests[form.qr] # "ABSENT"
  /\ mixed \/ OnDisplay

\* A request that exists goes on existing.
LEMMA NoneForgotten ==
  ASSUME TypesOK, [Next]_vars
  PROVE  \A q \in All : requests[q] # "ABSENT" => requests'[q] # "ABSENT"
<1>1. requests \in [All -> Statuses]
  BY DEF TypesOK, ServerOK, Statuses
<1>2. CASE UNCHANGED requests
  BY <1>2
<1>3. ASSUME NEW q, NEW status, status # "ABSENT", requests' = [requests EXCEPT ![q] = status]
      PROVE  \A p \in All : requests[p] # "ABSENT" => requests'[p] # "ABSENT"
  BY <1>1, <1>3
<1>4. CASE FormStep
  <2>1. CASE Created \/ CreateFails
    BY <1>1, <1>2, <1>3, <2>1 DEF Created, CreateFails, Insert
  <2>2. ASSUME NEW q \in Ours, Cancelled(q)
        PROVE  \A p \in All : requests[p] # "ABSENT" => requests'[p] # "ABSENT"
    BY <1>3, <2>2 DEF Cancelled
  <2>3. ASSUME NEW q \in Ours, CancelFails(q)
        PROVE  \A p \in All : requests[p] # "ABSENT" => requests'[p] # "ABSENT"
    BY <1>1, <2>3 DEF CancelFails
  <2>4. CASE Create \/ Reset \/ \E i \in DOMAIN loads : ReadList(i) \/ ShowList(i) \/ ListFails(i)
    BY <1>2, <2>4 DEF Create, Reset, ReadList, ShowList, ListFails, serverVars
  <2>5. ASSUME NEW q \in Ours, Cancel(q)
        PROVE  UNCHANGED requests
    BY <2>5 DEF Cancel, serverVars
  <2> QED
    BY <1>2, <1>4, <2>1, <2>2, <2>3, <2>4, <2>5 DEF FormStep
<1>5. ASSUME NEW q \in All, Closes(q) \/ Elsewhere(q)
      PROVE  \A p \in All : requests[p] # "ABSENT" => requests'[p] # "ABSENT"
  BY <1>3, <1>5 DEF Closes, Elsewhere
<1>6. ASSUME NEW f \in flows, QuoteFails(f)
      PROVE  \A p \in All : requests[p] # "ABSENT" => requests'[p] # "ABSENT"
  BY <1>2, <1>3, <1>6 DEF QuoteFails
<1>7. ASSUME NEW i \in DOMAIN executes, Settle(i)
      PROVE  \A p \in All : requests[p] # "ABSENT" => requests'[p] # "ABSENT"
  BY <1>2, <1>3, <1>7 DEF Settle
<1>8. ASSUME NEW p, NEW q, Show(p, q)
      PROVE  UNCHANGED requests
  BY <1>8 DEF Show, serverVars
<1>9. ASSUME NEW q, Navigate(q)
      PROVE  UNCHANGED requests
  BY <1>8, <1>9 DEF Navigate, serverVars
<1>10. CASE ScanStep
  BY <1>2, <1>9, <1>10 DEF ScanStep, StartCamera, StopCamera, ChooseFile, ImageFails, Decode,
                           Submit, ImageFound, serverVars
<1>11. CASE TryAgain \/ Pay \/ UNCHANGED vars
  BY <1>2, <1>11 DEF TryAgain, Pay, vars, serverVars
<1>12. ASSUME NEW f \in flows, ReadRequest(f) \/ Quote(f)
       PROVE  UNCHANGED requests
  BY <1>12 DEF ReadRequest, Quote, serverVars
<1>13. ASSUME NEW i \in DOMAIN executes, Serve(i) \/ Respond(i) \/ PayFails(i) \/ AnswerLost(i)
       PROVE  UNCHANGED requests
  BY <1>13 DEF Serve, Respond, PayFails, AnswerLost, serverVars
<1>14. CASE AnswerStep
  BY <1>2, <1>6, <1>7, <1>12, <1>13, <1>14 DEF AnswerStep
<1> QED
  BY <1>2, <1>4, <1>5, <1>8, <1>10, <1>11, <1>14 DEF Next, GoTo, OpenLink, Arrive

\* A reading of the list begins: of what is in the table by now.
LEMMA ReloadOK ==
  ASSUME loads \in Seq(Loads), NEW cancelled \in BOOLEAN, Reload(cancelled)
  PROVE  /\ loads' \in Seq(Loads)
         /\ loads' # << >>
         /\ ~mixed' => Len(loads') = 1 /\ loads'[1].seen = << >>
<1> DEFINE load == [seen |-> << >>, cancels |-> cancelled]
<1>1. load \in Loads /\ load.seen = << >>
  BY DEF Loads
<1>2. loads' = Append(loads, load) /\ (~mixed' => loads = << >>)
  BY DEF Reload
<1> HIDE DEF load
<1>3. /\ loads' \in Seq(Loads) /\ Len(loads') = Len(loads) + 1
      /\ loads'[Len(loads) + 1] = load /\ Len(loads) \in Nat
  BY <1>1, <1>2, AppendProperties, LenProperties
<1>4. loads = << >> => Len(loads) = 0
  OBVIOUS
<1>5. Len(loads') # 0
  BY <1>3
<1> QED
  BY <1>1, <1>2, <1>3, <1>4, <1>5

\* A reading that was started in time shows the request on display, and a page that
\* knows of one reading alone waits for that.
LEMMA FormListOK ==
  ASSUME FormOK, ListOK, TypesOK, FormStep, \A q \in All : requests[q] # "ABSENT" => requests'[q] # "ABSENT"
  PROVE  ListOK'
<1>1. /\ form.qr # None => /\ form.qr \in Ours /\ requests[form.qr] # "ABSENT"
                           /\ requests'[form.qr] # "ABSENT"
      /\ loads \in Seq(Loads) /\ (mixed \/ OnDisplay)
  BY DEF ListOK, All
<1>2. ASSUME UNCHANGED <<loads, mixed>>, form'.qr = form.qr, form'.list = form.list
      PROVE  ListOK'
  <2>1. OnDisplay => OnDisplay'
    BY <1>2 DEF OnDisplay
  <2> QED
    BY <1>1, <1>2, <2>1 DEF ListOK
<1>3. CASE Create \/ CreateFails \/ \E q \in Ours : Cancel(q)
  BY <1>2, <1>3 DEF Create, CreateFails, Cancel, FormOK, NewForm
<1>4. CASE Reset
  <2>1. UNCHANGED <<loads, mixed>> /\ form'.qr = None
    BY <1>4 DEF Reset, FormOK, NewForm
  <2>2. OnDisplay => OnDisplay'
    BY <2>1 DEF OnDisplay
  <2> QED
    BY <1>1, <2>1, <2>2 DEF ListOK
<1>5. ASSUME NEW cancelled \in BOOLEAN, Reload(cancelled),
             form'.qr # None => form'.qr \in Ours /\ requests'[form'.qr] # "ABSENT"
      PROVE  ListOK'
  <2>1. loads' \in Seq(Loads) /\ loads' # << >>
        /\ (~mixed' => Len(loads') = 1 /\ loads'[1].seen = << >>)
    BY <1>1, <1>5, ReloadOK
  <2>2. Len(loads') = 1 /\ loads'[1].seen = << >> => OnDisplay'
    BY <2>1 DEF OnDisplay
  <2> QED
    BY <1>5, <2>1, <2>2 DEF ListOK
<1>6. CASE Created
  <2>1. PICK q \in Ours : requests[q] = "ABSENT" /\ requests' = [requests EXCEPT ![q] = "PENDING"]
    BY <1>6 DEF Created, Insert
  <2>2. requests'[q] = "PENDING" /\ \A p \in Ours \ {q} : requests'[p] = requests[p]
    BY <2>1 DEF TypesOK, ServerOK, All
  <2>3. Inserted = q
    BY <2>1, <2>2 DEF Inserted
  <2>4. form'.qr = q
    BY <1>6, <2>3 DEF Created, FormOK, NewForm
  <2> QED
    BY <1>5, <1>6, <2>2, <2>4 DEF Created
<1>7. ASSUME NEW q \in Ours, Cancelled(q)
      PROVE  ListOK'
  BY <1>1, <1>5, <1>7 DEF Cancelled
<1>8. ASSUME NEW q \in Ours, CancelFails(q)
      PROVE  ListOK'
  <2>1. UNCHANGED loads /\ mixed' = TRUE /\ form'.qr = form.qr
    BY <1>8 DEF CancelFails, FormOK, NewForm
  <2> QED
    BY <1>1, <2>1 DEF ListOK
<1>9. ASSUME NEW i \in DOMAIN loads, ReadList(i)
      PROVE  ListOK'
  <2> DEFINE load == [loads[i] EXCEPT !.seen = [q \in Ours |-> requests[q]]]
  <2>1. i \in 1 .. Len(loads) /\ Len(loads) \in Nat /\ loads[i] \in Loads
    BY <1>1, LenProperties, ElementOfSeq
  <2>2. load \in Loads /\ \A q \in Ours : load.seen[q] = requests[q]
    BY <2>1 DEF Loads, TypesOK, ServerOK, Statuses, All
  <2>3. loads' = [loads EXCEPT ![i] = load] /\ UNCHANGED <<form, mixed, requests>>
    BY <1>9 DEF ReadList, serverVars
  <2> HIDE DEF load
  <2>4. loads' \in Seq(Loads) /\ Len(loads') = Len(loads) /\ loads'[i] = load
    BY <1>1, <2>1, <2>2, <2>3, ExceptSeq
  <2>5. loads # << >> /\ loads' # << >>
    BY <2>1, <2>4
  <2>6. OnDisplay => OnDisplay'
    <3>1. SUFFICES ASSUME OnDisplay PROVE OnDisplay'
      OBVIOUS
    <3>2. Len(loads) = 1 /\ i = 1
      BY <2>1, <2>5, <3>1 DEF OnDisplay
    <3>3. form.qr # None => form.qr \in Ours /\ requests[form.qr] # "ABSENT"
      BY <1>1
    <3>4. form.qr # None => load.seen[form.qr] # "ABSENT"
      BY <2>2, <3>3
    <3> QED
      BY <2>3, <2>4, <2>5, <3>2, <3>4 DEF OnDisplay
  <2> QED
    BY <1>1, <2>3, <2>4, <2>6 DEF ListOK
<1>10. ASSUME NEW i \in DOMAIN loads, ShowList(i) \/ ListFails(i)
       PROVE  ListOK'
  <2>1. /\ i \in 1 .. Len(loads) /\ Len(loads) \in Nat
        /\ loads' = RemoveAt(loads, i)
    BY <1>1, <1>10, LenProperties DEF ShowList, ListFails
  <2>2. loads' \in Seq(Loads) /\ (Len(loads) = 1 => loads' = << >>)
    BY <1>1, <2>1, Removed
  <2>3. ASSUME NEW f, NEW load, DOMAIN f = DOMAIN NewForm
        PROVE  Release(f, load).qr = f.qr /\ Release(f, load).list = f.list
    BY <2>3 DEF Release, NewForm
  <2>4. CASE ListFails(i)
    <3>1. mixed' = TRUE /\ form'.qr = form.qr /\ UNCHANGED requests
      BY <2>3, <2>4 DEF ListFails, FormOK, serverVars
    <3> QED
      BY <1>1, <2>2, <3>1 DEF ListOK
  <2>5. CASE ShowList(i)
    <3> DEFINE f == [form EXCEPT !.list = loads[i].seen]
    <3>1. DOMAIN f = DOMAIN NewForm /\ f.qr = form.qr /\ f.list = loads[i].seen
      BY DEF FormOK, NewForm
    <3>2. form' = Release(f, loads[i]) /\ UNCHANGED <<mixed, requests>> /\ loads[i].seen # << >>
      BY <2>5 DEF ShowList, serverVars
    <3> HIDE DEF f
    <3>3. form'.qr = form.qr /\ form'.list = loads[i].seen
      BY <2>3, <3>1, <3>2
    <3>4. OnDisplay => OnDisplay'
      <4>1. SUFFICES ASSUME OnDisplay PROVE OnDisplay'
        OBVIOUS
      <4>2. loads # << >>
        BY <2>1
      <4>3. i = 1 /\ loads' = << >>
        BY <2>1, <2>2, <4>1, <4>2 DEF OnDisplay
      <4> QED
        BY <3>2, <3>3, <4>1, <4>2, <4>3 DEF OnDisplay
    <3> QED
      BY <1>1, <2>2, <3>2, <3>3, <3>4 DEF ListOK
  <2> QED
    BY <1>10, <2>4, <2>5
<1> QED
  BY <1>3, <1>4, <1>6, <1>7, <1>8, <1>9, <1>10 DEF FormStep

\* The list shows what the page has done, for any number of requests, readings,
\* cancellations and failures: once it has been read to the end, alone and without
\* a failure, the request whose QR is on display is in it.
THEOREM ListIsCurrentForAll == Spec => []ListIsCurrent
<1>1. Init => FormOK /\ ListOK
  BY EmptySeq DEF Init, FormOK, ListOK, OnDisplay, NewForm
<1>2. FormOK /\ ListOK /\ PayInv /\ [Next]_vars => FormOK' /\ ListOK'
  <2> SUFFICES ASSUME FormOK, ListOK, PayInv, [Next]_vars PROVE FormOK' /\ ListOK'
    OBVIOUS
  <2>1. TypesOK /\ \A q \in All : requests[q] # "ABSENT" => requests'[q] # "ABSENT"
    BY NoneForgotten DEF PayInv
  <2>2. CASE FormStep
    BY <2>1, <2>2, FormListOK, FormSteps
  <2>3. CASE UNCHANGED <<page, formVars>>
    <3>1. FormOK'
      BY <2>3 DEF FormOK, formVars
    <3>2. OnDisplay => OnDisplay'
      BY <2>3 DEF OnDisplay, formVars
    <3>3. ListOK'
      BY <2>1, <2>3, <3>2 DEF ListOK, formVars, All
    <3> QED
      BY <3>1, <3>3
  <2>4. CASE Fresh
    <3>1. FormOK'
      BY <2>4 DEF Fresh, FormOK, NewForm
    <3>2. UnreadList \in Loads
      BY DEF UnreadList, Loads
    <3>3. <<UnreadList>> \in Seq(Loads) /\ Len(<<UnreadList>>) = 1 /\ << >> \in Seq(Loads)
      BY <3>2, EmptySeq
    <3>4. form'.qr = None /\ (loads' = <<UnreadList>> \/ loads' = << >>)
      BY <2>4 DEF Fresh, NewForm
    <3>5. ListOK'
      BY <3>3, <3>4 DEF ListOK, OnDisplay
    <3> QED
      BY <3>1, <3>5
  <2> QED
    BY <2>2, <2>3, <2>4, OtherSteps DEF vars
<1>3. ListOK => ListIsCurrent
  <2>1. OnDisplay => (loads = << >> /\ form.qr # None => form.list[form.qr] # "ABSENT")
    BY DEF OnDisplay
  <2> QED
    BY <2>1 DEF ListOK, ListIsCurrent
<1> QED
  BY <1>1, <1>2, <1>3, PayInvariant, PTL DEF Spec
=============================================================================
