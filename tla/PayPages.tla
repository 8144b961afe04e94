------------------------------ MODULE PayPages ------------------------------
(***************************************************************************)
(* The pages of person-to-person payments in one tab: asking for money,    *)
(* scanning a request, reviewing and paying it (frontend/src/pages/app:    *)
(* PayHub.tsx, RequestMoney.tsx, ScanToPay.tsx, PayRequest.tsx, and        *)
(* app/paymentRequestLink.ts), with the routes they call                   *)
(* (http/routes/paymentRequests.ts and checkout.ts), whose inside          *)
(* Checkouts describes.                                                    *)
(*                                                                         *)
(* What a page does between two awaits is one step.  A request is served   *)
(* when its response arrives, except where something may happen between:   *)
(* the list of requests and the execution of a payment.                    *)
(***************************************************************************)
EXTENDS Integers, FiniteSets, Sequences, SequencesExt

CONSTANTS Ours,         \* payment requests the user makes
          Theirs,       \* payment requests made to the user
          None,         \* no request
          MaxCheckouts, \* bound: quotes made for the user
          MaxLoads      \* bound: reads of the list under way

ASSUME PayPagesAssumption ==
  /\ Ours \cap Theirs = {} /\ None \notin Ours \cup Theirs
  /\ MaxCheckouts \in Nat /\ MaxLoads \in Nat

VARIABLES page,      \* what is mounted
          route,     \* the request in the route /app/pay/:requestId
          form,      \* state of RequestMoney
          loads,     \* its reads of the list under way, oldest first
          cancels,   \* requests it is having cancelled
          scanner,   \* state of ScanToPay
          ghosts,    \* navigatedRef of scanners gone whose camera is not stopped yet
          image,     \* an image is being scanned, for this page or one gone
          screen,    \* state of PayRequest
          flows,     \* its loadRequest() calls under way
          executes,  \* its POST /checkout/:id/execute under way
          requests,  \* server: table payment_requests
          checkouts, \* server: table checkouts, in the order of their quotes
          paid,      \* server: transfers sent for each request
          mixed,     \* history: reads of the list overlapped or failed since one ran alone
          strayed,   \* history: a visit of the scanner led to two requests
          abandoned  \* history: the user left, or never heard of, a payment under way

formVars == <<form, loads, cancels, mixed>>
scanVars == <<scanner, ghosts, image, strayed>>
payVars == <<screen, flows, executes, abandoned>>
serverVars == <<requests, checkouts, paid>>
vars == <<page, route, formVars, scanVars, payVars, serverVars>>

All == Ours \cup Theirs

NewForm == [stage |-> "form", list |-> [q \in Ours |-> "ABSENT"], cancelling |-> None, qr |-> None]

NewScanner == [camera |-> "off", navigated |-> FALSE]

NewScreen == [stage |-> "loading", request |-> None, checkout |-> 0]

Init ==
  /\ page = "elsewhere" /\ route = None
  /\ form = NewForm /\ loads = << >> /\ cancels = {}
  /\ scanner = NewScanner /\ ghosts = {} /\ image = "no"
  /\ screen = NewScreen /\ flows = {} /\ executes = << >>
  /\ requests = [q \in All |-> IF q \in Theirs THEN "PENDING" ELSE "ABSENT"]
  /\ checkouts = << >> /\ paid = [q \in Theirs |-> 0]
  /\ mixed = FALSE /\ strayed = FALSE /\ abandoned = FALSE

-----------------------------------------------------------------------------
(* Mounting and unmounting. *)

\* A scanner whose cleanup leaves navigatedRef as it was.
FaultyCleanup == scanner.navigated

\* navigatedRef, once the effect of ScanToPay has been cleaned up.
Cleanup == TRUE

\* The camera of a scanner that goes has yet to stop; an image has yet to be read.
LeaveScanner ==
  /\ ghosts' = IF scanner.camera \in {"starting", "scanning"} THEN ghosts \cup {Cleanup} ELSE ghosts
  /\ image' = IF image = "page" THEN "gone" ELSE image

Reading(q) == [of |-> q, step |-> "reading"]

UnreadList == [seen |-> << >>, cancels |-> FALSE]

\* Page p replaces whatever was mounted, whose responses still to come set
\* nothing any more (what the server still makes of them, Elsewhere does); the
\* effects of p start the camera, or read from the server.
Show(p, q) ==
  /\ page' = p /\ route' = q
  /\ form' = NewForm /\ mixed' = FALSE
  /\ loads' = IF p = "request" THEN <<UnreadList>> ELSE << >>
  /\ cancels' = {}
  /\ scanner' = IF p = "scan" THEN [NewScanner EXCEPT !.camera = "starting"] ELSE NewScanner
  /\ screen' = NewScreen
  /\ flows' = IF p = "pay" THEN {Reading(q)} ELSE {}
  /\ executes' = [i \in DOMAIN executes |-> [executes[i] EXCEPT !.mounted = FALSE]]
  /\ abandoned' = (abandoned \/ executes # << >>)
  /\ UNCHANGED serverVars

\* setMode(), "Done", and the links of the sidebar.
GoTo(p) ==
  /\ p # page
  /\ Show(p, None) /\ LeaveScanner
  /\ UNCHANGED strayed

\* A link to a request opens in the tab, or PayRequest is reloaded.
OpenLink(q) ==
  /\ requests[q] # "ABSENT"
  /\ Show("pay", q)
  /\ ghosts' = {} /\ image' = "no"
  /\ UNCHANGED strayed

\* navigate() has been called, and ScanToPay gives way to PayRequest.
Arrive ==
  /\ page = "scan" /\ route # None
  /\ Show("pay", route) /\ LeaveScanner
  /\ UNCHANGED strayed

-----------------------------------------------------------------------------
(* RequestMoney.tsx. *)

\* handleCreate(), up to its await.
Create ==
  /\ page = "request" /\ form.stage = "form"
  /\ form' = [form EXCEPT !.stage = "submitting"]
  /\ UNCHANGED <<page, route, loads, cancels, mixed, scanVars, payVars, serverVars>>

Insert == \E q \in Ours : requests[q] = "ABSENT" /\ requests' = [requests EXCEPT ![q] = "PENDING"]

Inserted == CHOOSE q \in Ours : requests'[q] # requests[q]

\* Without the reading of the list that follows.
FaultyReload(cancelled) == UNCHANGED <<loads, mixed>>

\* loadRequests(), awaited by a cancellation or not.
Reload(cancelled) ==
  /\ Len(loads) < MaxLoads
  /\ loads' = Append(loads, [seen |-> << >>, cancels |-> cancelled])
  /\ mixed' = (loads # << >>)

Created ==
  /\ form.stage = "submitting"
  /\ Insert
  /\ form' = [form EXCEPT !.stage = "ready", !.qr = Inserted]
  /\ Reload(FALSE)
  /\ UNCHANGED <<page, route, cancels, scanVars, payVars, checkouts, paid>>

\* The call fails, before or after it was served.
CreateFails ==
  /\ form.stage = "submitting"
  /\ form' = [form EXCEPT !.stage = "form"]
  /\ Insert \/ UNCHANGED requests
  /\ UNCHANGED <<page, route, loads, cancels, mixed, scanVars, payVars, checkouts, paid>>

\* reset()
Reset ==
  /\ page = "request" /\ form.stage = "ready"
  /\ form' = [form EXCEPT !.stage = "form", !.qr = None]
  /\ UNCHANGED <<page, route, loads, cancels, mixed, scanVars, payVars, serverVars>>

\* The server reads the list at one moment, and the page shows it at another.
ReadList(i) ==
  /\ loads[i].seen = << >>
  /\ loads' = [loads EXCEPT ![i].seen = [q \in Ours |-> requests[q]]]
  /\ UNCHANGED <<page, route, form, cancels, mixed, scanVars, payVars, serverVars>>

\* The finally block of handleCancelRequest, when it was that which read the list.
Release(f, load) == IF load.cancels THEN [f EXCEPT !.cancelling = None] ELSE f

ShowList(i) ==
  /\ loads[i].seen # << >>
  /\ form' = Release([form EXCEPT !.list = loads[i].seen], loads[i])
  /\ loads' = RemoveAt(loads, i)
  /\ UNCHANGED <<page, route, cancels, mixed, scanVars, payVars, serverVars>>

\* A list that cannot be read takes the page back to its form.
FaultyListFails(i) ==
  /\ form' = Release([form EXCEPT !.stage = "form"], loads[i])
  /\ loads' = RemoveAt(loads, i)
  /\ mixed' = TRUE
  /\ UNCHANGED <<page, route, cancels, scanVars, payVars, serverVars>>

\* Not fatal.
ListFails(i) ==
  /\ form' = Release(form, loads[i])
  /\ loads' = RemoveAt(loads, i)
  /\ mixed' = TRUE
  /\ UNCHANGED <<page, route, cancels, scanVars, payVars, serverVars>>

\* handleCancelRequest(), up to its await; the button of another request stays enabled.
Cancel(q) ==
  /\ page = "request" /\ form.list[q] = "PENDING" /\ form.cancelling # q
  /\ form' = [form EXCEPT !.cancelling = q]
  /\ cancels' = cancels \cup {q}
  /\ UNCHANGED <<page, route, loads, mixed, scanVars, payVars, serverVars>>

\* The request closes, and the list is read again.
Cancelled(q) ==
  /\ q \in cancels /\ requests[q] = "PENDING"
  /\ requests' = [requests EXCEPT ![q] = "CANCELLED"]
  /\ cancels' = cancels \ {q}
  /\ Reload(TRUE)
  /\ UNCHANGED <<page, route, form, scanVars, payVars, checkouts, paid>>

\* It is refused, or its answer is lost: only the finally block runs.
CancelFails(q) ==
  /\ q \in cancels /\ cancels' = cancels \ {q}
  /\ form' = [form EXCEPT !.cancelling = None]
  /\ requests' \in {requests, [requests EXCEPT ![q] = IF @ = "PENDING" THEN "CANCELLED" ELSE @]}
  /\ mixed' = TRUE
  /\ UNCHANGED <<page, route, loads, scanVars, payVars, checkouts, paid>>

-----------------------------------------------------------------------------
(* ScanToPay.tsx. *)

\* qr.start(): the user allows the camera, or not.
StartCamera ==
  /\ page = "scan" /\ scanner.camera = "starting"
  /\ \E c \in {"scanning", "unavailable"} : scanner' = [scanner EXCEPT !.camera = c]
  /\ UNCHANGED <<page, route, formVars, ghosts, image, strayed, payVars, serverVars>>

\* navigate() from a scanner.  PayRequest is not mounted anew when it is there
\* already: only its effect on [requestId] runs.
Navigate(q) ==
  IF page = "scan"
  THEN route' = q /\ UNCHANGED <<page, formVars, payVars, serverVars>>
  ELSE IF page = "pay"
  THEN /\ route' = q
       /\ IF q = route THEN UNCHANGED <<screen, flows>>
          ELSE screen' = [screen EXCEPT !.stage = "loading"] /\ flows' = flows \cup {Reading(q)}
       /\ abandoned' = (abandoned \/ executes # << >>)
       /\ UNCHANGED <<page, scanner, formVars, executes, serverVars>>
  ELSE Show("pay", q)

\* The scanner has led to a request already.
Twice == page = "scan" /\ route # None

\* navigatedRef of the scanners that still see.
Eyes == ghosts \cup IF scanner.camera = "scanning" THEN {scanner.navigated} ELSE {}

\* onDecoded(), of a request's QR.
Decode(q) ==
  /\ FALSE \in Eyes /\ requests[q] # "ABSENT"
  /\ Navigate(q)
  /\ page = "scan" => scanner' = [scanner EXCEPT !.navigated = TRUE]
  /\ strayed' = (strayed \/ Twice)
  /\ UNCHANGED <<ghosts, image>>

\* A stop() under way ends.
StopCamera ==
  /\ ghosts # {} /\ ghosts' = {}
  /\ UNCHANGED <<page, route, formVars, scanner, image, strayed, payVars, serverVars>>

\* handleManualSubmit(), of a link.
Submit(q) ==
  /\ page = "scan" /\ requests[q] # "ABSENT"
  /\ Navigate(q)
  /\ strayed' = (strayed \/ Twice)
  /\ UNCHANGED <<scanner, ghosts, image>>

\* handleFileChosen(), up to its awaits: it stops the camera.
ChooseFile ==
  /\ page = "scan" /\ scanner.camera \in {"scanning", "unavailable", "off"} /\ image = "no"
  /\ image' = "page"
  /\ scanner' = [scanner EXCEPT !.camera = IF @ = "scanning" THEN "off" ELSE @]
  /\ UNCHANGED <<page, route, formVars, ghosts, strayed, payVars, serverVars>>

\* No QR of a request in it: the camera stays off.
ImageFails ==
  /\ image # "no" /\ image' = "no"
  /\ UNCHANGED <<page, route, formVars, scanner, ghosts, strayed, payVars, serverVars>>

\* There is one, whatever the user has done meanwhile.
ImageFound(q) ==
  /\ image # "no" /\ image' = "no" /\ requests[q] # "ABSENT"
  /\ Navigate(q)
  /\ page = "scan" =>
       scanner' = IF image = "page" THEN [scanner EXCEPT !.navigated = TRUE] ELSE scanner
  /\ strayed' = (strayed \/ Twice \/ page = "pay")
  /\ UNCHANGED ghosts

-----------------------------------------------------------------------------
(* PayRequest.tsx. *)

Unpaid == <<page, route, formVars, scanVars>>

\* The request arrives, or cannot be read.
ReadRequest(f) ==
  /\ f.step = "reading"
  /\ \/ /\ screen' = [screen EXCEPT !.stage = "not-found"]
        /\ flows' = flows \ {f}
     \/ /\ f.of \in Theirs /\ requests[f.of] = "PENDING"
        /\ screen' = [screen EXCEPT !.request = f.of]
        /\ flows' = (flows \ {f}) \cup {[f EXCEPT !.step = "quoting"]}
     \/ /\ screen' = [screen EXCEPT !.request = f.of,
                        !.stage = IF f.of \in Ours THEN "own-request" ELSE "unpayable"]
        /\ flows' = flows \ {f}
  /\ UNCHANGED <<Unpaid, executes, abandoned, serverVars>>

\* requestQuote(): POST /payment-requests/:id/pay.
Quote(f) ==
  /\ f.step = "quoting" /\ requests[f.of] = "PENDING"
  /\ Len(checkouts) < MaxCheckouts
  /\ checkouts' = Append(checkouts, [for |-> f.of, status |-> "PENDING_APPROVAL"])
  /\ screen' = [screen EXCEPT !.checkout = Len(checkouts'), !.stage = "review"]
  /\ flows' = flows \ {f}
  /\ UNCHANGED <<Unpaid, executes, abandoned, requests, paid>>

\* INSUFFICIENT_BALANCE; or a request that is not open, or has expired; or no answer.
QuoteFails(f) ==
  /\ f.step = "quoting"
  /\ \/ /\ screen' = [screen EXCEPT !.stage = "insufficient"]
        /\ requests[f.of] = "PENDING" /\ UNCHANGED requests
     \/ /\ screen' = [screen EXCEPT !.stage = "error"]
        /\ \/ UNCHANGED requests
           \/ requests[f.of] = "PENDING" /\ requests' = [requests EXCEPT ![f.of] = "EXPIRED"]
  /\ flows' = flows \ {f}
  /\ UNCHANGED <<Unpaid, executes, abandoned, checkouts, paid>>

\* "Try again"
TryAgain ==
  /\ page = "pay" /\ screen.stage = "error"
  /\ screen' = [screen EXCEPT !.stage = "loading"]
  /\ flows' = flows \cup {Reading(route)}
  /\ UNCHANGED <<Unpaid, executes, abandoned, serverVars>>

\* A button that stays while the payment is under way.
FaultyPaying(s) == s

\* The page without its button.
Paying(s) == [s EXCEPT !.stage = "processing"]

\* handlePay(): the signer is put back, and the checkout executed.
Pay ==
  /\ page = "pay" /\ screen.stage = "review"
  /\ Len(executes) < MaxCheckouts
  /\ screen' = Paying(screen)
  /\ executes' = Append(executes, [checkout |-> screen.checkout, step |-> "sent", mounted |-> TRUE])
  /\ UNCHANGED <<Unpaid, flows, abandoned, serverVars>>

\* The server's side of it, as Checkouts has it: the transfer is sent ...
Serve(i) ==
  LET k == executes[i].checkout IN
  /\ executes[i].step = "sent"
  /\ \/ checkouts[k].status = "PENDING_APPROVAL" /\ executes' = [executes EXCEPT ![i].step = "sending"]
        /\ UNCHANGED checkouts
     \/ checkouts' = [checkouts EXCEPT ![k].status = IF @ = "PENDING_APPROVAL" THEN "EXPIRED" ELSE @]
        /\ executes' = [executes EXCEPT ![i].step = "refused"]
  /\ UNCHANGED <<Unpaid, screen, flows, abandoned, requests, paid>>

\* ... and confirmed or not in time, or it never left or was reverted.
Settle(i) ==
  LET k == executes[i].checkout
      q == checkouts[k].for
  IN
  /\ executes[i].step = "sending"
  /\ \/ /\ \E status \in {"SETTLED", "PENDING_APPROVAL"} :
             checkouts' = [checkouts EXCEPT ![k].status = status]
        /\ paid' = [paid EXCEPT ![q] = @ + 1]
        /\ requests' = [requests EXCEPT ![q] = "FULFILLED"]
        /\ executes' = [executes EXCEPT ![i].step = "paid"]
     \/ /\ checkouts' = [checkouts EXCEPT ![k].status = "FAILED"]
        /\ executes' = [executes EXCEPT ![i].step = "refused"]
        /\ UNCHANGED <<paid, requests>>
  /\ UNCHANGED <<Unpaid, screen, flows, abandoned>>

\* The reload of everything else is awaited, and its failure caught with the rest.
FaultyReport(step) == IF step = "paid" THEN {"done", "error"} ELSE {"error"}

\* What the page says of an outcome; refresh() is not awaited.
Report(step) == IF step = "paid" THEN {"done"} ELSE {"error"}

Respond(i) ==
  /\ executes[i].step \in {"paid", "refused"}
  /\ \E stage \in Report(executes[i].step) :
       screen' = IF executes[i].mounted THEN [screen EXCEPT !.stage = stage] ELSE screen
  /\ executes' = RemoveAt(executes, i)
  /\ UNCHANGED <<Unpaid, flows, abandoned, serverVars>>

\* The wallet or the call fails before anything is sent.
PayFails(i) ==
  /\ executes[i].step = "sent" /\ executes[i].mounted
  /\ screen' = [screen EXCEPT !.stage = "error"]
  /\ executes' = RemoveAt(executes, i)
  /\ UNCHANGED <<Unpaid, flows, abandoned, serverVars>>

\* The answer is lost, and the server goes on.
AnswerLost(i) ==
  /\ executes[i].mounted
  /\ screen' = [screen EXCEPT !.stage = "error"]
  /\ executes' = [executes EXCEPT ![i].mounted = FALSE]
  /\ abandoned' = TRUE
  /\ UNCHANGED <<Unpaid, flows, serverVars>>

\* A request made to the user closes elsewhere.
Closes(q) ==
  /\ q \in Theirs /\ requests[q] = "PENDING"
  /\ requests' = [requests EXCEPT ![q] = "CANCELLED"]
  /\ UNCHANGED <<Unpaid, payVars, checkouts, paid>>

\* A request of the user is paid; or it is made or cancelled elsewhere, or by a
\* page that is gone.  Only RequestMoney looks at it, so it may wait for that.
Elsewhere(q) ==
  /\ q \in Ours /\ page = "request"
  /\ \/ requests[q] = "PENDING" /\ \E s \in {"FULFILLED", "CANCELLED"} :
          requests' = [requests EXCEPT ![q] = s]
     \/ requests[q] = "ABSENT" /\ requests' = [requests EXCEPT ![q] = "PENDING"]
  /\ UNCHANGED <<Unpaid, payVars, checkouts, paid>>

-----------------------------------------------------------------------------
FormStep ==
  \/ Create \/ Created \/ CreateFails \/ Reset
  \/ \E i \in DOMAIN loads : ReadList(i) \/ ShowList(i) \/ ListFails(i)
  \/ \E q \in Ours : Cancel(q) \/ Cancelled(q) \/ CancelFails(q)

ScanStep ==
  \/ StartCamera \/ StopCamera \/ ChooseFile \/ ImageFails
  \/ \E q \in All : Decode(q) \/ Submit(q) \/ ImageFound(q)

\* The answers to what PayRequest has asked.
AnswerStep ==
  \/ \E f \in flows : ReadRequest(f) \/ Quote(f) \/ QuoteFails(f)
  \/ \E i \in DOMAIN executes :
       Serve(i) \/ Settle(i) \/ Respond(i) \/ PayFails(i) \/ AnswerLost(i)

Next ==
  \/ \E p \in {"request", "scan", "elsewhere"} : GoTo(p)
  \/ \E q \in All : OpenLink(q) \/ Closes(q) \/ Elsewhere(q)
  \/ Arrive
  \/ FormStep
  \/ ScanStep
  \/ TryAgain \/ Pay
  \/ AnswerStep

Spec == Init /\ [][Next]_vars

-----------------------------------------------------------------------------
\* The QR of a request just made stays on display until the user puts it away,
\* whatever fails behind it (the bug a comment of handleCreate tells of).
QrStays ==
  [][form.stage = "ready" /\ page' = "request" /\ form'.stage # "ready" => Reset]_vars

\* The list shows what the page has done: once it has been read to the end, the
\* request whose QR is on display is in it, provided that its readings did not
\* overlap (an older one that ends later shows an older list) and did not fail.
ListIsCurrent ==
  page = "request" /\ loads = << >> /\ cancels = {} /\ ~mixed /\ form.qr # None =>
    form.list[form.qr] # "ABSENT"

\* What the user approves is what the page shows: the amount, and the checkout it
\* stands for, are those of the request in the address and of the payee on the
\* screen, unless a visit of the scanner led to two requests (an image that is
\* read late, or a second tap).
PayeeShown ==
  page = "pay" /\ screen.stage \in {"review", "processing"} /\ ~strayed =>
    screen.request = route /\ checkouts[screen.checkout].for = route

\* The page reports a payment as it went: an error is never shown for money that
\* was sent, nor "Paid" for money that was not, as long as the answer arrives.
ReportIsTrue ==
  page = "pay" /\ route \in Theirs /\ ~strayed /\ ~abandoned =>
    /\ screen.stage = "error" => paid[route] = 0
    /\ screen.stage = "done" => paid[route] = 1

\* A request is paid once by this user, however often its page is opened and its
\* payment tried again, unless a payment under way was left or its answer lost, or
\* the scanner took the page to another request meanwhile.
PaidOnce == ~abandoned /\ ~strayed => \A q \in Theirs : paid[q] <= 1
=============================================================================
