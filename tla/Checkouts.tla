----------------------------- MODULE Checkouts -----------------------------
(***************************************************************************)
(* One-off payments: merchant checkouts and payment requests               *)
(* (engine/checkoutEngine.ts, http/routes/checkout.ts and                  *)
(* http/routes/paymentRequests.ts, the page PayRequest.tsx), which share   *)
(* the agent signer, and so the policy, with the recurring payments.       *)
(*                                                                         *)
(* A page asks for a quote (the server reads the balance and creates a     *)
(* policy, one await each), attaches the policy, and has the checkout      *)
(* executed (the server sends the transfer and awaits its receipt).        *)
(***************************************************************************)
EXTENDS OperationsPolicy

CONSTANTS Requests,       \* ids of payment requests; other payables are merchants
          QuoteSeconds,   \* lifetime of a quote, in ticks
          RequestSeconds, \* lifetime of a request, in ticks
          MaxTransfers,   \* bound: transfers ever sent
          MaxLost,        \* bound: send calls that throw although they arrived
          Retries         \* whether a client executes a checkout again

ASSUME CheckoutAssumption ==
  /\ Requests \subseteq Payables
  /\ QuoteSeconds \in Nat /\ RequestSeconds \in Nat
  /\ MaxTransfers \in Nat /\ MaxLost \in Nat
  /\ Retries \in BOOLEAN

VARIABLES requests,   \* table payment_requests
          transfers   \* transfers that reached the chain, in the order of sending

checkoutVars == <<requests, transfers>>
vars == <<policyVars, checkouts, screens, now, checkoutVars>>

Request == [status : {"ABSENT", "PENDING", "FULFILLED", "EXPIRED", "CANCELLED"},
            expires : Nat, by : CheckoutIds \cup {None}]

Transfer == [checkout : CheckoutIds, status : {"SENT", "LANDED", "REVERTED"},
             reported : BOOLEAN]   \* whether the send call returned

TypeOK ==
  /\ PolicyTypeOK
  /\ requests \in [Requests -> Request]
  /\ transfers \in Seq(Transfer)

Init ==
  /\ PolicyInit
  /\ requests = [q \in Requests |-> [status |-> "ABSENT", expires |-> 0, by |-> None]]
  /\ transfers = << >>

-----------------------------------------------------------------------------
(* Payment requests. *)

\* POST /payment-requests.
RequestMoney(q) ==
  /\ requests[q].status = "ABSENT"
  /\ requests' = [requests EXCEPT ![q].status = "PENDING", ![q].expires = now + RequestSeconds]
  /\ UNCHANGED <<policyVars, checkouts, screens, now, transfers>>

\* POST /payment-requests/:id/cancel.
CancelRequest(q) ==
  /\ requests[q].status = "PENDING"
  /\ requests' = [requests EXCEPT ![q].status = "CANCELLED"]
  /\ UNCHANGED <<policyVars, checkouts, screens, now, transfers>>

\* /pay finds the request past its expiry.
ExpireRequest(s, q) ==
  /\ screens[s] = Idle
  /\ requests[q].status = "PENDING"
  /\ requests[q].expires <= now
  /\ requests' = [requests EXCEPT ![q].status = "EXPIRED"]
  /\ UNCHANGED <<policyVars, checkouts, screens, now, transfers>>

-----------------------------------------------------------------------------
(* Quotes. *)

UsedIds == DOMAIN checkouts \cup {screens[s].checkout : s \in Screens}

\* /pay without a look at the request's status.
FaultyPayable(x) == x \in Requests => requests[x].status # "ABSENT"

\* /pay takes a request that is PENDING and open; /checkout/quote any merchant.
Payable(x) ==
  x \in Requests => requests[x].status = "PENDING" /\ now < requests[x].expires

\* POST /payment-requests/:id/pay or /checkout/quote, up to the balance lookup.
AskQuote(s, x, k) ==
  /\ screens[s] = Idle
  /\ Payable(x)
  /\ k \notin UsedIds
  /\ screens' = [screens EXCEPT ![s] =
                   [flow |-> "pay", step |-> "pricing", of |-> {x}, checkout |-> k,
                    policy |-> 0, expires |-> 0]]
  /\ UNCHANGED <<policyVars, checkouts, now, checkoutVars>>

\* buildCheckoutQuote: INSUFFICIENT_BALANCE.
RefuseQuote(s) ==
  /\ screens[s].step = "pricing"
  /\ screens' = [screens EXCEPT ![s] = Idle]
  /\ UNCHANGED <<policyVars, checkouts, now, checkoutVars>>

\* createCheckout: the quote, and a policy with its rule.
BuildQuote(s) ==
  /\ screens[s].step = "pricing"
  /\ \E x \in screens[s].of :
       RebuildOperationsPolicy({RuleFor(x, now + QuoteSeconds)}, {})
  /\ screens' = [screens EXCEPT ![s].step = "building", ![s].policy = Len(policies) + 1,
                                ![s].expires = now + QuoteSeconds]
  /\ UNCHANGED <<obligations, grants, attached, interrupted, checkouts, now, checkoutVars>>

\* insertCheckout, once the policy exists.
InsertCheckout(s) ==
  /\ screens[s].step = "building"
  /\ \E x \in screens[s].of :
       checkouts' = [k \in DOMAIN checkouts \cup {screens[s].checkout} |->
                       IF k = screens[s].checkout
                       THEN [status |-> "PENDING_APPROVAL", for |-> x,
                             policy |-> screens[s].policy, expires |-> screens[s].expires]
                       ELSE checkouts[k]]
  /\ screens' = [screens EXCEPT ![s].step = "built"]
  /\ UNCHANGED <<policyVars, now, checkoutVars>>

-----------------------------------------------------------------------------
(* POST /checkout/:id/execute. *)

UpdateStatus(k, status) == checkouts' = [checkouts EXCEPT ![k].status = status]

\* The newest transfer of a checkout.
SentFor(k) == Max({i \in DOMAIN transfers : transfers[i].checkout = k})

\* executeCheckout's guards, up to the send call.
ExecuteCheckout(s) ==
  LET k == screens[s].checkout IN
  /\ screens[s].flow = "pay"
  /\ screens[s].step = "attached"
  /\ checkouts[k].status = "PENDING_APPROVAL"
  /\ now < checkouts[k].expires
  /\ screens' = [screens EXCEPT ![s].step = "sending"]
  /\ UNCHANGED <<policyVars, checkouts, now, checkoutVars>>

\* A status the table refuses.
FaultyExpired(s) ==
  LET k == screens[s].checkout IN
  /\ screens[s].flow = "pay"
  /\ screens[s].step = "attached"
  /\ checkouts[k].status = "PENDING_APPROVAL"
  /\ checkouts[k].expires <= now
  /\ UpdateStatus(k, "CANCELLED")
  /\ screens' = [screens EXCEPT ![s] = Idle]
  /\ UNCHANGED <<policyVars, now, checkoutVars>>

\* The quote expired before execution.
ExecuteExpired(s) ==
  LET k == screens[s].checkout IN
  /\ screens[s].flow = "pay"
  /\ screens[s].step = "attached"
  /\ checkouts[k].status = "PENDING_APPROVAL"
  /\ checkouts[k].expires <= now
  /\ UpdateStatus(k, "EXPIRED")
  /\ screens' = [screens EXCEPT ![s] = Idle]
  /\ UNCHANGED <<policyVars, now, checkoutVars>>

Fails(s) ==
  /\ UpdateStatus(screens[s].checkout, "FAILED")
  /\ screens' = [screens EXCEPT ![s] = Idle]

\* The send call throws: no rule allows it, or the service is out of reach.
SendRefused(s) ==
  /\ screens[s].step = "sending"
  /\ Fails(s)
  /\ UNCHANGED <<policyVars, now, checkoutVars>>

Sends(s, reported) ==
  /\ screens[s].step = "sending"
  /\ \E x \in screens[s].of : Allows(x)
  /\ Len(transfers) < MaxTransfers
  /\ transfers' = Append(transfers, [checkout |-> screens[s].checkout, status |-> "SENT",
                                     reported |-> reported])

\* The send call throws after the request arrived.
ResponseLost(s) ==
  /\ Cardinality({i \in DOMAIN transfers : ~transfers[i].reported}) < MaxLost
  /\ Sends(s, FALSE)
  /\ Fails(s)
  /\ UNCHANGED <<policyVars, now, requests>>

SendAccepted(s) ==
  /\ Sends(s, TRUE)
  /\ screens' = [screens EXCEPT ![s].step = "confirming"]
  /\ UNCHANGED <<policyVars, checkouts, now, requests>>

\* What the route does once the transfer was sent, landed or not.
BookSent(k) ==
  /\ grants' = Retarget(grants, checkouts[k].policy)
  /\ requests' = [q \in Requests |->
                    IF q = checkouts[k].for
                    THEN [requests[q] EXCEPT !.status = "FULFILLED", !.by = k]
                    ELSE requests[q]]
  /\ UNCHANGED <<obligations, policies, attached, interrupted, now, transfers>>

\* The receipt is there in time, and good.
ReceiptLanded(s) ==
  LET k == screens[s].checkout IN
  /\ screens[s].step = "confirming"
  /\ transfers[SentFor(k)].status = "LANDED"
  /\ UpdateStatus(k, "SETTLED")
  /\ BookSent(k)
  /\ screens' = [screens EXCEPT ![s] = Idle]

\* The receipt is there in time, and bad.
ReceiptReverted(s) ==
  /\ screens[s].step = "confirming"
  /\ transfers[SentFor(screens[s].checkout)].status = "REVERTED"
  /\ Fails(s)
  /\ UNCHANGED <<policyVars, now, checkoutVars>>

\* After PENDING_CONFIRMATION the page is done; another client may call again.
AfterTimeout(s) == IF Retries THEN {Idle, [screens[s] EXCEPT !.step = "attached"]} ELSE {Idle}

\* No receipt in time taken for a failure.
FaultyTimeout(s) ==
  /\ screens[s].step = "confirming"
  /\ Fails(s)
  /\ UNCHANGED <<policyVars, now, checkoutVars>>

\* No receipt in time: PENDING_CONFIRMATION leaves the row as it is.
ReceiptTimeout(s) ==
  /\ screens[s].step = "confirming"
  /\ BookSent(screens[s].checkout)
  /\ \E next \in AfterTimeout(s) : screens' = [screens EXCEPT ![s] = next]
  /\ UNCHANGED checkouts

-----------------------------------------------------------------------------
(* The chain. *)

Mine(i) ==
  /\ transfers[i].status = "SENT"
  /\ \E status \in {"LANDED", "REVERTED"} :
       transfers' = [transfers EXCEPT ![i].status = status]
  /\ UNCHANGED <<policyVars, checkouts, screens, now, requests>>

PayStep(s) ==
  \/ \E q \in Requests : ExpireRequest(s, q)
  \/ \E x \in Payables, k \in CheckoutIds : AskQuote(s, x, k)
  \/ RefuseQuote(s)
  \/ BuildQuote(s)
  \/ InsertCheckout(s)
  \/ ExecuteCheckout(s)
  \/ ExecuteExpired(s)
  \/ SendRefused(s)
  \/ ResponseLost(s)
  \/ SendAccepted(s)
  \/ ReceiptLanded(s)
  \/ ReceiptReverted(s)
  \/ ReceiptTimeout(s)

Next ==
  \/ \E s \in Screens : PolicyStep(s) /\ UNCHANGED checkoutVars
  \/ \E s \in Screens : PayStep(s)
  \/ \E q \in Requests : RequestMoney(q) \/ CancelRequest(q)
  \/ \E i \in DOMAIN transfers : Mine(i)
  \/ Tick /\ UNCHANGED checkoutVars

Spec == Init /\ [][Next]_vars

-----------------------------------------------------------------------------
Quiet == \A s \in Screens : screens[s] = Idle

\* Every grant the tables call ACTIVE names the same policy
\* (reattachSigners.ts puts back whichever it finds first), however the flows
\* of several pages interleave.
SameRecordedPolicy ==
  \A i, j \in DOMAIN grants :
    grants[i].status = "ACTIVE" /\ grants[j].status = "ACTIVE" => grants[i].policy = grants[j].policy

\* What is granted can be paid: between flows, and unless one was left half
\* done and none has completed since, the attached policy has a rule for every
\* ACTIVE obligation with a live grant.  Attaching a policy for one payment takes
\* the authority of no other away.
GrantedIsAuthorised ==
  Quiet /\ ~interrupted =>
    \A i \in ListActiveGrants({}) :
      obligations[grants[i].obligation] = "ACTIVE" => Allows(grants[i].obligation)

\* Nothing else can be paid: with the same provisos, an obligation the attached
\* policy pays has a grant row that says so.
AuthorityIsRecorded ==
  Quiet /\ ~interrupted =>
    \A o \in Obligations : Allows(o) => ActiveOf(o) \cap ListActiveGrants({}) # {}

PaymentsOf(q) ==
  {i \in DOMAIN transfers : transfers[i].reported /\ checkouts[transfers[i].checkout].for = q}

Good(is) == {i \in is : transfers[i].status # "REVERTED"}

\* What the tables say of a payment is what became of it, as far as the server was
\* told of what it sent: a SETTLED checkout has landed, FAILED and EXPIRED ones have
\* nothing on its way, and between flows a request is FULFILLED exactly when money
\* was sent for it that the server has not seen fail.
OutcomeIsTrue ==
  /\ \A k \in DOMAIN checkouts :
       LET sent == {i \in DOMAIN transfers : transfers[i].checkout = k /\ transfers[i].reported} IN
       /\ checkouts[k].status = "SETTLED" => \E i \in sent : transfers[i].status = "LANDED"
       /\ checkouts[k].status \in {"FAILED", "EXPIRED"} => Good(sent) = {}
  /\ Quiet => \A q \in Requests :
       /\ Good(PaymentsOf(q)) # {} => requests[q].status = "FULFILLED"
       /\ requests[q].status = "FULFILLED" => PaymentsOf(q) # {}

\* A payment request is paid once, through however many quotes it takes, as far as
\* the server was told of what it sent; and a checkout is paid once, although a
\* late receipt leaves its row in the state that executeCheckout() accepts: what
\* keeps it from a second transfer is that the page does not execute it again.
\* With Retries it is paid twice.
NothingPaidTwice ==
  /\ \A q \in Requests : Cardinality(Good(PaymentsOf(q))) <= 1
  /\ \A k \in DOMAIN checkouts :
       Cardinality(Good({i \in DOMAIN transfers : transfers[i].checkout = k})) <= 1

\* What the user has stopped is not paid: between flows, and none left half
\* done, the attached policy has no rule for an obligation that was cancelled or
\* paused.
StoppedHasNoAuthority ==
  Quiet /\ ~interrupted =>
    \A o \in Obligations : obligations[o] \in {"CANCELLED", "PAUSED"} => ~Allows(o)
=============================================================================
