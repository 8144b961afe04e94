-------------------------- MODULE CheckoutsProofs --------------------------
(***************************************************************************)
(* Checkouts for any number of obligations, payables, pages at work at     *)
(* once and lost responses: its type invariant, that every grant the       *)
(* tables call ACTIVE names the same policy, and that the tables tell what *)
(* became of a payment.  For one page at work: what is granted and what    *)
(* the signer may pay are the same, and a request is paid once.            *)
(***************************************************************************)
EXTENDS Checkouts, OperationsPolicyProofs, FiniteSetTheorems

\* The inductive invariant.
Consistent ==
  /\ Tables
  /\ requests \in [Requests -> Request]
  /\ transfers \in Seq(Transfer)

-----------------------------------------------------------------------------
(* Payment requests and checkouts. *)

\* Requests and the chain leave everything the invariant relates alone.
LEMMA RequestsOK ==
  ASSUME Consistent,
         \/ \E q \in Requests : RequestMoney(q) \/ CancelRequest(q)
         \/ \E s \in Screens, q \in Requests : ExpireRequest(s, q)
  PROVE  Consistent'
<1>1. now + RequestSeconds \in Nat
  BY PolicyAssumption, CheckoutAssumption DEF Consistent, Tables, PolicyTypeOK
<1>2. requests' \in [Requests -> Request]
  <2>1. \A q \in Requests : requests[q] \in Request /\ requests \in [Requests -> Request]
    BY DEF Consistent
  <2>2. \A q \in Requests, status \in {"PENDING", "EXPIRED", "CANCELLED"} :
          [requests[q] EXCEPT !.status = status] \in Request
    BY <2>1 DEF Request
  <2>3. \A q \in Requests :
          [requests[q] EXCEPT !.status = "PENDING", !.expires = now + RequestSeconds] \in Request
    BY <1>1, <2>1 DEF Request
  <2>4. ASSUME NEW q \in Requests, RequestMoney(q)
        PROVE  requests' \in [Requests -> Request]
    BY <2>1, <2>3, <2>4 DEF RequestMoney
  <2>5. ASSUME NEW q \in Requests, CancelRequest(q)
        PROVE  requests' \in [Requests -> Request]
    BY <2>1, <2>2, <2>5 DEF CancelRequest
  <2>6. ASSUME NEW s \in Screens, NEW q \in Requests, ExpireRequest(s, q)
        PROVE  requests' \in [Requests -> Request]
    BY <2>1, <2>2, <2>6 DEF ExpireRequest
  <2> QED
    BY <2>4, <2>5, <2>6
<1>3. UNCHANGED <<policyVars, checkouts, screens, now, transfers>>
  BY DEF RequestMoney, CancelRequest, ExpireRequest
<1> QED
  BY <1>2, <1>3
  DEF policyVars, Consistent, Tables, PolicyTypeOK, OneRecorded, ScreenOK

\* The chain decides on a transfer.
LEMMA MineOK ==
  ASSUME Consistent, NEW i \in DOMAIN transfers, Mine(i)
  PROVE  Consistent'
<1>1. PICK status \in {"LANDED", "REVERTED"} : transfers' = [transfers EXCEPT ![i].status = status]
  BY DEF Mine
<1>2. transfers \in Seq(Transfer) /\ transfers[i] \in Transfer
  BY LenProperties, ElementOfSeq DEF Consistent
<1>3. [transfers[i] EXCEPT !.status = status] \in Transfer
  BY <1>2 DEF Transfer
<1>4. transfers' = [transfers EXCEPT ![i] = [transfers[i] EXCEPT !.status = status]]
  BY <1>1
<1>5. transfers' \in Seq(Transfer)
  BY <1>2, <1>3, <1>4, ExceptSeq, LenProperties
<1> QED
  BY <1>5 DEF Mine, policyVars, Consistent, Tables, PolicyTypeOK, OneRecorded, ScreenOK

\* The clock ticks.
LEMMA TickOK ==
  ASSUME Consistent, Tick, UNCHANGED checkoutVars
  PROVE  Consistent'
  BY TickKeepsTables DEF Consistent, checkoutVars

\* Asking for a quote, and getting it.
LEMMA QuoteOK ==
  ASSUME Consistent, NEW s \in Screens,
         \/ \E x \in Payables, k \in CheckoutIds : AskQuote(s, x, k)
         \/ RefuseQuote(s)
         \/ BuildQuote(s)
  PROVE  Consistent'
<1>1. screens[s] \in Screen /\ ScreenOK(s) /\ Len(policies) \in Nat /\ now + QuoteSeconds \in Nat
  BY LenProperties, PolicyAssumption, CheckoutAssumption DEF Consistent, Tables, PolicyTypeOK
<1>2. ASSUME NEW x \in Payables, NEW k \in CheckoutIds, AskQuote(s, x, k)
      PROVE  Consistent'
  <2> DEFINE page == [flow |-> "pay", step |-> "pricing", of |-> {x}, checkout |-> k,
                      policy |-> 0, expires |-> 0]
  <2>1. screens' = [screens EXCEPT ![s] = page] /\ page \in Screen
    BY <1>2 DEF AskQuote, Screen
  <2>2. screens' \in [Screens -> Screen] /\ screens'[s] = page
        /\ \A t \in Screens \ {s} : screens'[t] = screens[t]
    <3> HIDE DEF page
    <3> QED
      BY <2>1 DEF Consistent, Tables, PolicyTypeOK
  <2>3. Grows
    BY <1>2, SameGrows DEF Consistent, AskQuote, policyVars
  <2>4. ScreenOK(s)'
    BY <2>2, <2>3 DEF ScreenOK, Grows
  <2>5. \A t \in Screens : ScreenOK(t)'
    BY <2>2, <2>3, <2>4, OthersOK DEF Consistent
  <2> QED
    BY <1>2, <2>2, <2>5
    DEF AskQuote, policyVars, checkoutVars, Consistent, Tables, PolicyTypeOK, OneRecorded
<1>3. CASE RefuseQuote(s)
  <2>1. Grows /\ screens' = [screens EXCEPT ![s] = Idle]
    BY <1>3, SameGrows DEF Consistent, RefuseQuote, policyVars
  <2>2. screens' \in [Screens -> Screen] /\ \A t \in Screens : ScreenOK(t)'
    BY <2>1, IdleOK DEF Consistent
  <2> QED
    BY <1>3, <2>2
    DEF RefuseQuote, policyVars, checkoutVars, Consistent, Tables, PolicyTypeOK, OneRecorded
<1>4. CASE BuildQuote(s)
  <2>1. PICK x \in screens[s].of : RebuildOperationsPolicy({RuleFor(x, now + QuoteSeconds)}, {})
    BY <1>4 DEF BuildQuote
  <2>2. screens[s].flow = "pay" /\ x \in Payables
    BY <1>1, <1>4 DEF BuildQuote, ScreenOK
  <2>3. {RuleFor(x, now + QuoteSeconds)} \in SUBSET Rule
    BY <1>1, <2>2 DEF Rule, RuleFor
  <2>4. policies' \in Seq(SUBSET Rule) /\ Len(policies') = Len(policies) + 1
    BY <2>1, <2>3, RebuildType DEF Consistent
  <2>5. Grows
    BY <1>1, <1>4, <2>4 DEF Grows, BuildQuote
  <2>6. /\ screens'[s] = [screens[s] EXCEPT !.step = "building", !.policy = Len(policies) + 1,
                                            !.expires = now + QuoteSeconds]
        /\ \A t \in Screens \ {s} : screens'[t] = screens[t]
        /\ DOMAIN screens' = Screens
    BY <1>4 DEF BuildQuote, Consistent, Tables, PolicyTypeOK
  <2>7. screens'[s] \in Screen
    <3>1. PICK n \in Nat, e \in Nat : n = Len(policies) + 1 /\ e = now + QuoteSeconds
      BY <1>1
    <3>2. \A page \in Screen :
            [page EXCEPT !.step = "building", !.policy = n, !.expires = e] \in Screen
      BY DEF Screen
    <3> QED
      BY <1>1, <2>6, <3>1, <3>2
  <2>8. screens' \in [Screens -> Screen]
    BY <1>4, <2>6, <2>7 DEF BuildQuote, Consistent, Tables, PolicyTypeOK
  <2>9. ScreenOK(s)'
    BY <1>1, <2>2, <2>4, <2>6 DEF ScreenOK, Screen
  <2>10. \A t \in Screens : ScreenOK(t)'
    BY <2>5, <2>6, <2>9, OthersOK DEF Consistent
  <2>11. attached \in 0 .. Len(policies')
    BY <1>1, <2>4 DEF Consistent, Tables, PolicyTypeOK
  <2> QED
    BY <1>4, <2>4, <2>8, <2>10, <2>11
    DEF BuildQuote, checkoutVars, Consistent, Tables, PolicyTypeOK, OneRecorded
<1> QED
  BY <1>2, <1>3, <1>4

\* updateCheckoutStatus keeps the table well typed and its rows.
LEMMA UpdateType ==
  ASSUME Consistent, NEW k, NEW status \in {"PENDING_APPROVAL", "SETTLED", "FAILED", "EXPIRED"},
         UpdateStatus(k, status)
  PROVE  DOMAIN checkouts' = DOMAIN checkouts /\ checkouts' \in [DOMAIN checkouts' -> Checkout]
<1>1. \A row \in Checkout : [row EXCEPT !.status = status] \in Checkout
  BY DEF Checkout
<1>2. checkouts \in [DOMAIN checkouts -> Checkout]
  BY DEF Consistent, Tables, PolicyTypeOK
<1> QED
  BY <1>1, <1>2 DEF UpdateStatus

\* A call that ends with a new status and a page that has finished.
LEMMA FinishOK ==
  ASSUME Consistent, NEW s \in Screens, NEW k,
         NEW status \in {"SETTLED", "FAILED", "EXPIRED"}, UpdateStatus(k, status),
         screens' = [screens EXCEPT ![s] = Idle], UNCHANGED policies
  PROVE  /\ screens' \in [Screens -> Screen]
         /\ \A t \in Screens : ScreenOK(t)'
         /\ DOMAIN checkouts' \subseteq CheckoutIds
         /\ checkouts' \in [DOMAIN checkouts' -> Checkout]
<1>1. DOMAIN checkouts' = DOMAIN checkouts /\ checkouts' \in [DOMAIN checkouts' -> Checkout]
  BY UpdateType
<1>2. Grows
  BY <1>1, LenProperties DEF Grows, Consistent, Tables, PolicyTypeOK
<1> QED
  BY <1>1, <1>2, IdleOK DEF Consistent, Tables, PolicyTypeOK

\* A transfer that is sent for a page's checkout.
LEMMA SendsType ==
  ASSUME Consistent, NEW s \in Screens, NEW reported \in BOOLEAN, Sends(s, reported)
  PROVE  transfers' \in Seq(Transfer) /\ screens[s].flow = "pay"
<1>1. screens[s].flow = "pay" /\ screens[s].checkout \in CheckoutIds
  BY DEF Sends, Consistent, Tables, ScreenOK
<1>2. [checkout |-> screens[s].checkout, status |-> "SENT", reported |-> reported] \in Transfer
  BY <1>1 DEF Transfer
<1> QED
  BY <1>1, <1>2, AppendProperties DEF Sends, Consistent

\* The checkout is stored.
LEMMA InsertOK ==
  ASSUME Consistent, NEW s \in Screens, InsertCheckout(s)
  PROVE  Consistent'
<1>1. screens[s] \in Screen /\ ScreenOK(s)
  BY DEF Consistent, Tables, PolicyTypeOK
<1>2. screens[s].flow = "pay" /\ screens[s].checkout \in CheckoutIds
  BY <1>1 DEF InsertCheckout, ScreenOK
<1>3. PICK x \in screens[s].of :
        checkouts' = [k \in DOMAIN checkouts \cup {screens[s].checkout} |->
                        IF k = screens[s].checkout
                        THEN [status |-> "PENDING_APPROVAL", for |-> x,
                              policy |-> screens[s].policy, expires |-> screens[s].expires]
                        ELSE checkouts[k]]
  BY DEF InsertCheckout
<1>4. [status |-> "PENDING_APPROVAL", for |-> x,
       policy |-> screens[s].policy, expires |-> screens[s].expires] \in Checkout
  BY <1>1, <1>2 DEF ScreenOK, Screen, Checkout
<1>5. /\ DOMAIN checkouts' = DOMAIN checkouts \cup {screens[s].checkout}
      /\ DOMAIN checkouts' \subseteq CheckoutIds
      /\ checkouts' \in [DOMAIN checkouts' -> Checkout]
  BY <1>2, <1>3, <1>4 DEF Consistent, Tables, PolicyTypeOK
<1>6. Grows
  BY <1>5, LenProperties DEF InsertCheckout, policyVars, Grows, Consistent, Tables, PolicyTypeOK
<1>7. screens' = [screens EXCEPT ![s].step = "built"] /\ screens[s].checkout \in DOMAIN checkouts'
  BY <1>5 DEF InsertCheckout
<1>8. screens' \in [Screens -> Screen] /\ \A t \in Screens : ScreenOK(t)'
  BY <1>6, <1>7, StepOK DEF Consistent
<1> QED
  BY <1>5, <1>8
  DEF InsertCheckout, policyVars, checkoutVars, Consistent, Tables, PolicyTypeOK, OneRecorded

\* The send call is made, refused, lost or accepted.
LEMMA SendOK ==
  ASSUME Consistent, NEW s \in Screens,
         \/ ExecuteCheckout(s) \/ ExecuteExpired(s)
         \/ SendRefused(s) \/ ResponseLost(s) \/ SendAccepted(s)
  PROVE  Consistent'
<1> DEFINE k == screens[s].checkout
<1>1. ScreenOK(s)
  BY DEF Consistent, Tables
<1>2. CASE ExecuteCheckout(s)
  <2>1. /\ Grows
        /\ screens' = [screens EXCEPT ![s].step = "sending"]
        /\ screens[s].flow = "pay" /\ k \in DOMAIN checkouts'
    BY <1>1, <1>2, SameGrows DEF Consistent, ExecuteCheckout, policyVars, ScreenOK
  <2>2. screens' \in [Screens -> Screen] /\ \A t \in Screens : ScreenOK(t)'
    BY <2>1, StepOK DEF Consistent
  <2> QED
    BY <1>2, <2>2 DEF ExecuteCheckout, policyVars, checkoutVars, Consistent,
                      Tables, PolicyTypeOK, OneRecorded
<1>3. CASE ExecuteExpired(s)
  <2>1. UpdateStatus(k, "EXPIRED") /\ screens' = [screens EXCEPT ![s] = Idle] /\ UNCHANGED policies
    BY <1>3 DEF ExecuteExpired, policyVars
  <2>2. /\ screens' \in [Screens -> Screen]
        /\ \A t \in Screens : ScreenOK(t)'
        /\ DOMAIN checkouts' \subseteq CheckoutIds
        /\ checkouts' \in [DOMAIN checkouts' -> Checkout]
    BY <2>1, FinishOK
  <2> QED
    BY <1>3, <2>2 DEF ExecuteExpired, policyVars, checkoutVars, Consistent,
                      Tables, PolicyTypeOK, OneRecorded
<1>4. CASE SendRefused(s) \/ ResponseLost(s)
  <2>1. UpdateStatus(k, "FAILED") /\ screens' = [screens EXCEPT ![s] = Idle] /\ UNCHANGED policies
    BY <1>4 DEF SendRefused, ResponseLost, Fails, policyVars
  <2>2. /\ screens' \in [Screens -> Screen]
        /\ \A t \in Screens : ScreenOK(t)'
        /\ DOMAIN checkouts' \subseteq CheckoutIds
        /\ checkouts' \in [DOMAIN checkouts' -> Checkout]
    BY <2>1, FinishOK
  <2>3. transfers' \in Seq(Transfer)
    BY <1>4, SendsType DEF SendRefused, ResponseLost, checkoutVars, Consistent
  <2>4. UNCHANGED <<policyVars, now, requests>>
    BY <1>4 DEF SendRefused, ResponseLost, checkoutVars
  <2> QED
    BY <2>2, <2>3, <2>4 DEF policyVars, Consistent, Tables, PolicyTypeOK, OneRecorded
<1>5. CASE SendAccepted(s)
  <2>1. transfers' \in Seq(Transfer) /\ screens[s].flow = "pay"
    BY <1>5, SendsType DEF SendAccepted
  <2>2. /\ Grows
        /\ screens' = [screens EXCEPT ![s].step = "confirming"]
        /\ k \in DOMAIN checkouts'
    BY <1>1, <1>5, <2>1, SameGrows DEF Consistent, SendAccepted, Sends, policyVars, ScreenOK
  <2>3. screens' \in [Screens -> Screen] /\ \A t \in Screens : ScreenOK(t)'
    BY <2>1, <2>2, StepOK DEF Consistent
  <2> QED
    BY <1>5, <2>1, <2>3 DEF SendAccepted, policyVars, Consistent, Tables, PolicyTypeOK,
                            OneRecorded
<1> QED
  BY <1>2, <1>3, <1>4, <1>5

\* What the route books keeps one policy among the ACTIVE rows.
LEMMA BookType ==
  ASSUME Consistent, NEW k \in DOMAIN checkouts, BookSent(k)
  PROVE  /\ grants' \in Seq(Grant)
         /\ OneRecorded'
         /\ requests' \in [Requests -> Request]
<1>1. checkouts[k].policy \in Nat /\ k \in CheckoutIds /\ grants \in Seq(Grant)
  BY DEF Consistent, Tables, PolicyTypeOK, Checkout
<1>2. grants' \in Seq(Grant) /\ OneRecorded'
  BY <1>1, RetargetSame DEF BookSent
<1>3. \A q \in Requests : [requests[q] EXCEPT !.status = "FULFILLED", !.by = k] \in Request
  BY <1>1 DEF Consistent, Request
<1>4. requests' \in [Requests -> Request]
  BY <1>3 DEF BookSent, Consistent
<1> QED
  BY <1>2, <1>4

\* The receipt is good, bad, or late.
LEMMA ReceiptOK ==
  ASSUME Consistent, NEW s \in Screens,
         ReceiptLanded(s) \/ ReceiptReverted(s) \/ ReceiptTimeout(s)
  PROVE  Consistent'
<1> DEFINE k == screens[s].checkout
<1>1. ScreenOK(s) /\ screens[s].step = "confirming"
  BY DEF ReceiptLanded, ReceiptReverted, ReceiptTimeout, Consistent, Tables
<1>2. k \in DOMAIN checkouts
  BY <1>1 DEF ScreenOK
<1>3. CASE ReceiptLanded(s)
  <2>1. /\ UpdateStatus(k, "SETTLED") /\ BookSent(k)
        /\ screens' = [screens EXCEPT ![s] = Idle] /\ UNCHANGED policies
    BY <1>3 DEF ReceiptLanded, BookSent
  <2>2. /\ screens' \in [Screens -> Screen]
        /\ \A t \in Screens : ScreenOK(t)'
        /\ DOMAIN checkouts' \subseteq CheckoutIds
        /\ checkouts' \in [DOMAIN checkouts' -> Checkout]
    BY <2>1, FinishOK
  <2>3. grants' \in Seq(Grant) /\ OneRecorded' /\ requests' \in [Requests -> Request]
    BY <1>2, <2>1, BookType
  <2>4. UNCHANGED <<obligations, policies, attached, interrupted, now, transfers>>
    BY <2>1 DEF BookSent
  <2> QED
    BY <2>2, <2>3, <2>4 DEF Consistent, Tables, PolicyTypeOK
<1>4. CASE ReceiptReverted(s)
  <2>1. UpdateStatus(k, "FAILED") /\ screens' = [screens EXCEPT ![s] = Idle] /\ UNCHANGED policies
    BY <1>4 DEF ReceiptReverted, Fails, policyVars
  <2>2. /\ screens' \in [Screens -> Screen]
        /\ \A t \in Screens : ScreenOK(t)'
        /\ DOMAIN checkouts' \subseteq CheckoutIds
        /\ checkouts' \in [DOMAIN checkouts' -> Checkout]
    BY <2>1, FinishOK
  <2> QED
    BY <1>4, <2>2 DEF ReceiptReverted, policyVars, checkoutVars, Consistent,
                      Tables, PolicyTypeOK, OneRecorded
<1>5. CASE ReceiptTimeout(s)
  <2>1. BookSent(k) /\ UNCHANGED <<policies, checkouts>>
    BY <1>5 DEF ReceiptTimeout, BookSent
  <2>2. \/ screens' = [screens EXCEPT ![s] = Idle]
        \/ screens' = [screens EXCEPT ![s].step = "attached"]
    BY <1>5 DEF ReceiptTimeout, AfterTimeout
  <2>3. Grows
    BY <2>1, SameGrows DEF Consistent
  <2>4. screens' \in [Screens -> Screen] /\ \A t \in Screens : ScreenOK(t)'
    <3>1. CASE screens' = [screens EXCEPT ![s] = Idle]
      BY <2>3, <3>1, IdleOK DEF Consistent
    <3>2. CASE screens' = [screens EXCEPT ![s].step = "attached"]
      BY <1>2, <2>1, <2>3, <3>2, StepOK DEF Consistent
    <3> QED
      BY <2>2, <3>1, <3>2
  <2>5. grants' \in Seq(Grant) /\ OneRecorded' /\ requests' \in [Requests -> Request]
    BY <1>2, <2>1, BookType
  <2>6. UNCHANGED <<obligations, policies, attached, checkouts, interrupted, now, transfers>>
    BY <2>1 DEF BookSent
  <2> QED
    BY <2>4, <2>5, <2>6 DEF Consistent, Tables, PolicyTypeOK
<1> QED
  BY <1>3, <1>4, <1>5

\* Every step of a one-off payment's page.
LEMMA PayStepOK ==
  ASSUME Consistent, NEW s \in Screens, PayStep(s)
  PROVE  Consistent'
  BY RequestsOK, QuoteOK, InsertOK, SendOK, ReceiptOK DEF PayStep

-----------------------------------------------------------------------------
(* The invariant. *)

\* Nothing is there at the start.
LEMMA InitOK == Init => Consistent
<1> SUFFICES ASSUME Init
             PROVE  Consistent
  OBVIOUS
<1>1. Tables
  BY TablesInit DEF Init
<1>2. requests \in [Requests -> Request] /\ transfers \in Seq(Transfer)
  BY EmptySeq DEF Init, Request
<1> QED
  BY <1>1, <1>2 DEF Consistent

\* Every step keeps the invariant.
LEMMA StepKeeps == Consistent /\ [Next]_vars => Consistent'
<1> SUFFICES ASSUME Consistent, [Next]_vars
             PROVE  Consistent'
  OBVIOUS
<1>1. ASSUME NEW s \in Screens, PolicyStep(s), UNCHANGED checkoutVars
      PROVE  Consistent'
  BY <1>1, PolicyStepOK DEF Consistent, checkoutVars
<1>2. ASSUME NEW s \in Screens, PayStep(s)
      PROVE  Consistent'
  BY <1>2, PayStepOK
<1>3. ASSUME NEW q \in Requests, RequestMoney(q) \/ CancelRequest(q)
      PROVE  Consistent'
  BY <1>3, RequestsOK
<1>4. ASSUME NEW i \in DOMAIN transfers, Mine(i)
      PROVE  Consistent'
  BY <1>4, MineOK
<1>5. CASE Tick /\ UNCHANGED checkoutVars
  BY <1>5, TickOK
<1>6. CASE UNCHANGED vars
  BY <1>6 DEF vars, policyVars, checkoutVars, Consistent, Tables, PolicyTypeOK,
              OneRecorded, ScreenOK
<1> QED
  BY <1>1, <1>2, <1>3, <1>4, <1>5, <1>6 DEF Next

\* The state stays well typed, whatever pages do at the same time.
THEOREM TypesKept == Spec => []TypeOK
<1>1. Consistent => TypeOK
  BY DEF Consistent, Tables, TypeOK
<1> QED
  BY <1>1, InitOK, StepKeeps, PTL DEF Spec

\* All ACTIVE grants name one policy after every interleaving of the flows of
\* any number of pages: retargetActiveGrantsPolicyId runs in every handler that
\* confirms one.
THEOREM OnePolicyRecorded == Spec => []SameRecordedPolicy
<1>1. Consistent => SameRecordedPolicy
  BY DEF Consistent, Tables, OneRecorded, SameRecordedPolicy
<1> QED
  BY <1>1, InitOK, StepKeeps, PTL DEF Spec

-----------------------------------------------------------------------------
(* What the wallet may pay while one-off payments come in between. *)

\* Each page is owed what its step promises, and a wallet that nobody is changing
\* is right.
Sound(U) == \A s \in Screens : Promised(s, U) /\ (Clean(s) => Wallet(U))

\* A step that leaves the wallet and the tables of the recurring payments alone.
Apart == UNCHANGED <<obligations, grants, policies, attached, interrupted, now>>

\* A wallet that a page does not touch stays right.
LEMMA ApartWallet ==
  ASSUME Consistent, NEW U, Apart, Wallet(U)
  PROVE  Wallet(U)'
  BY RightKept DEF Apart, Wallet, Consistent

\* A one-off payment goes on to its next step.
LEMMA GoesOn ==
  ASSUME Consistent, NEW s \in Screens, NEW U, Promised(s, U), screens[s].flow = "pay",
         NEW step, screens'[s] = [screens[s] EXCEPT !.step = step],
         \/ screens[s].step = "building" /\ step = "built"
         \/ /\ screens[s].step \in {"attached", "sending", "confirming"}
            /\ step \in {"attached", "sending", "confirming"},
         UNCHANGED <<obligations, policies, attached, now>>,
         Revoked(grants, grants', U)
  PROVE  Promised(s, U)'
<1>1. Tables /\ Known /\ PageOK(s) /\ RecordOK(s, U) /\ HasPolicy(s) /\ PolicyOK(s)
  BY DEF Consistent, Promised, PageOK, HasPolicy
<1>2. /\ screens'[s].flow = "pay" /\ screens'[s].of = screens[s].of
      /\ screens'[s].policy = screens[s].policy /\ screens'[s].expires = screens[s].expires
      /\ screens'[s].step = step
  BY <1>1, TablesHave DEF Screen
<1>3. Pays(policies', grants', screens[s].policy,
           Owed(grants', obligations', now', screens[s].of))
  <2> DEFINE a == screens[s].policy
             ex == screens[s].of
  <2>1. Pays(policies, grants, a, Owed(grants, obligations, now, ex))
    BY <1>1 DEF PolicyOK
  <2>2. \A i \in DOMAIN grants :
          /\ now' < grants[i].expires => now < grants[i].expires
          /\ obligations'[grants[i].obligation] = "ACTIVE"
               => obligations[grants[i].obligation] = "ACTIVE"
    OBVIOUS
  <2>3. \A o \in ex : o \notin ex => obligations'[o] # "ACTIVE"
    OBVIOUS
  <2> HIDE DEF a, ex
  <2>4. Pays(policies', grants', a, Owed(grants', obligations', now', ex))
    BY <2>1, <2>2, <2>3, PaysKept
  <2> QED
    BY <2>4 DEF a, ex
<1>4. PageOK(s)'
  BY <1>1, <1>2, <1>3 DEF PageOK, PolicyOK
<1>5. RecordOK(s, U)'
  <2>1. \A u \in U : \A e : Granted(grants, u, e) => Granted(grants', u, e)
    BY DEF Granted, Revoked
  <2> QED
    BY <1>1, <1>2, <2>1 DEF RecordOK
<1>6. Known'
  BY <1>1 DEF Known, Revoked
<1> QED
  BY <1>4, <1>5, <1>6 DEF Promised

\* Once its policy is attached, the wallet is right: a one-off payment takes the
\* place of no obligation.
LEMMA AttachedIsRight ==
  ASSUME Consistent, NEW s \in Screens, NEW U \in SUBSET Obligations, Promised(s, U),
         screens[s].flow = "pay", screens[s].step \in {"attached", "sending", "confirming"}
  PROVE  Wallet(U)
<1>1. Tables /\ PolicyOK(s) /\ RecordOK(s, U) /\ HasPolicy(s) /\ attached = screens[s].policy
  BY DEF Consistent, Promised, PageOK, HasPolicy, PolicyOK
<1>2. screens[s].of \cap Obligations = {}
  BY <1>1, PolicyAssumption, TablesHave DEF ScreenOK
<1>3. Owed(grants, obligations, now, {}) = Owed(grants, obligations, now, screens[s].of)
  BY <1>1, <1>2, TablesHave DEF Owed
<1>4. Pays(policies, grants, attached, Owed(grants, obligations, now, {}))
  BY <1>1, <1>3 DEF PolicyOK
<1>5. Records(policies, grants, attached, U)
  BY <1>1, <1>2 DEF RecordOK, Records
<1> QED
  BY <1>4, <1>5 DEF Wallet, Right

\* A one-off payment ends: the wallet keeps its policy.
LEMMA PaymentEnds ==
  ASSUME Consistent, NEW s \in Screens, NEW U \in SUBSET Obligations, Promised(s, U),
         screens[s].flow = "pay", screens[s].step \in {"attached", "sending", "confirming"},
         screens'[s] = Idle, UNCHANGED <<obligations, policies, attached, now>>,
         Revoked(grants, grants', U)
  PROVE  Promised(s, U)' /\ Wallet(U)'
<1>1. Tables /\ Known
  BY DEF Consistent, Promised
<1>2. Known'
  BY <1>1 DEF Known, Revoked
<1>3. Wallet(U)
  BY AttachedIsRight
<1>4. now' \in Nat /\ now <= now'
  BY <1>1, TablesHave
<1>5. Right(policies', grants', obligations', now', attached, U)
  BY <1>1, <1>3, <1>4, WalletKept DEF Wallet
<1> QED
  BY <1>2, <1>5, IdlePromised DEF Wallet

\* Asking for a quote, getting its policy, and storing it.
LEMMA QuotePromised ==
  ASSUME Consistent, NEW s \in Screens, NEW U \in SUBSET Obligations, U = {} \/ Distinct,
         Promised(s, U),
         \/ \E x \in Payables, k \in CheckoutIds : AskQuote(s, x, k)
         \/ RefuseQuote(s) \/ BuildQuote(s) \/ InsertCheckout(s)
  PROVE  /\ Promised(s, U)'
         /\ (Clean(s) => Wallet(U)) /\ Clean(s)' => Wallet(U)'
<1>1. /\ Tables /\ Known /\ DOMAIN screens = Screens /\ screens[s] \in Screen /\ ScreenOK(s)
      /\ PageOK(s)
  BY TablesHave DEF Consistent, Promised, Tables, PolicyTypeOK
<1>2. ASSUME NEW x \in Payables, NEW k \in CheckoutIds, AskQuote(s, x, k)
      PROVE  Promised(s, U)' /\ (Clean(s)' => Clean(s)) /\ Apart
  <2>1. /\ screens'[s] = [flow |-> "pay", step |-> "pricing", of |-> {x}, checkout |-> k,
                          policy |-> 0, expires |-> 0]
        /\ screens[s] = Idle /\ Apart
    BY <1>1, <1>2 DEF AskQuote, policyVars, Apart
  <2>2. PageOK(s)' /\ RecordOK(s, U)' /\ Known'
    BY <1>1, <2>1 DEF PageOK, RecordOK, HasPolicy, Known, Apart
  <2> QED
    BY <2>1, <2>2 DEF Promised, Clean, Idle, Apart
<1>3. CASE RefuseQuote(s)
  <2>1. screens'[s] = Idle /\ Apart /\ Known' /\ screens[s].step = "pricing"
    BY <1>1, <1>3 DEF RefuseQuote, policyVars, Apart, Known
  <2>2. (Clean(s)' => Clean(s)) /\ Promised(s, U)'
    BY <2>1, IdlePromised DEF Clean, Apart
  <2> QED
    BY <2>1, <2>2, ApartWallet
<1>4. CASE BuildQuote(s)
  <2>1. PICK x \in Payables : screens[s].of = {x}
    BY <1>1, <1>4 DEF BuildQuote, ScreenOK, PageOK
  <2> DEFINE e == now + QuoteSeconds
  <2>2. /\ RebuildOperationsPolicy({RuleFor(x, e)}, {})
        /\ UNCHANGED <<obligations, grants, attached, interrupted, now>>
        /\ screens[s].flow = "pay" /\ screens[s].step = "pricing"
    BY <1>1, <1>4, <2>1 DEF BuildQuote, ScreenOK
  <2>3. e \in Nat
    BY <1>1, CheckoutAssumption, TablesHave
  <2>4. Adds("pay", x, e, {RuleFor(x, e)}, {}) /\ Extends("pay", x, e) /\ SameGranted
    BY <2>2, <2>3 DEF Adds, Extends, SameGranted, Rule, RuleFor
  <2>5. NewPage(s, "pay", x, e) /\ screens'[s].step = "building"
    BY <1>1, <1>4, <2>1, <2>2 DEF BuildQuote, NewPage, Screen
  <2>6. Promised(s, U)'
    BY <1>1, <2>2, <2>4, <2>5, NewPolicyOK
  <2>7. ASSUME Clean(s) => Wallet(U), Clean(s)'
        PROVE  Wallet(U)'
    <3>1. Wallet(U)
      BY <2>2, <2>7 DEF Clean
    <3>2. attached \in 0 .. Len(policies) /\ now' \in Nat /\ now <= now'
      BY <1>1, <2>2, TablesHave
    <3>3. attached # 0 => policies'[attached] = policies[attached]
      <4>1. \A a \in 1 .. Len(policies) : policies'[a] = policies[a]
        BY <1>1, <2>2, <2>4, Built DEF Adds
      <4> QED
        BY <1>1, <3>2, <4>1, TablesHave
    <3>4. Revoked(grants, grants', U)
      BY <2>2, NotRevoked
    <3>5. Right(policies', grants', obligations', now', attached, U)
      BY <1>1, <2>2, <3>1, <3>2, <3>3, <3>4, WalletKept DEF Wallet
    <3> QED
      BY <2>2, <3>5 DEF Wallet
  <2> QED
    BY <2>6, <2>7
<1>5. CASE InsertCheckout(s)
  <2>1. /\ screens'[s] = [screens[s] EXCEPT !.step = "built"]
        /\ screens[s].step = "building" /\ screens[s].flow = "pay" /\ Apart
    BY <1>1, <1>5 DEF InsertCheckout, policyVars, ScreenOK, Apart
  <2>2. Promised(s, U)'
    BY <2>1, GoesOn, NotRevoked DEF Apart
  <2>3. Clean(s)' => Clean(s)
    BY <2>1 DEF Clean, Apart
  <2> QED
    BY <2>1, <2>2, <2>3, ApartWallet
<1> QED
  BY <1>2, <1>3, <1>4, <1>5, ApartWallet

\* A retarget revokes nothing.
LEMMA BookRevokes ==
  ASSUME Consistent, NEW k \in DOMAIN checkouts, BookSent(k), NEW U
  PROVE  Revoked(grants, grants', U)
<1>1. grants \in Seq(Grant) /\ checkouts[k].policy \in Nat
  BY DEF Consistent, Tables, PolicyTypeOK, Checkout
<1> QED
  BY <1>1, RetargetKeeps DEF BookSent, Revoked

\* Sending the transfer and hearing of it.
LEMMA SendPromised ==
  ASSUME Consistent, NEW s \in Screens, NEW U \in SUBSET Obligations, Promised(s, U),
         \/ ExecuteCheckout(s) \/ ExecuteExpired(s)
         \/ SendRefused(s) \/ ResponseLost(s) \/ SendAccepted(s)
         \/ ReceiptLanded(s) \/ ReceiptReverted(s) \/ ReceiptTimeout(s)
  PROVE  Promised(s, U)' /\ (Clean(s)' => Wallet(U)')
<1> DEFINE k == screens[s].checkout
<1>1. DOMAIN screens = Screens /\ ScreenOK(s)
  BY DEF Consistent, Tables, PolicyTypeOK
<1>2. screens[s].flow = "pay" /\ screens[s].step \in {"attached", "sending", "confirming"}
      /\ k \in DOMAIN checkouts
  BY <1>1 DEF ExecuteCheckout, ExecuteExpired, SendRefused, ResponseLost, SendAccepted, Sends,
              ReceiptLanded, ReceiptReverted, ReceiptTimeout, ScreenOK
<1>3. UNCHANGED <<obligations, policies, attached, now>>
  BY DEF ExecuteCheckout, ExecuteExpired, SendRefused, ResponseLost, SendAccepted,
         ReceiptLanded, ReceiptReverted, ReceiptTimeout, BookSent, policyVars, checkoutVars
<1>4. Revoked(grants, grants', U)
  <2>1. CASE ReceiptLanded(s) \/ ReceiptTimeout(s)
    BY <1>2, <2>1, BookRevokes DEF ReceiptLanded, ReceiptTimeout
  <2>2. CASE \/ ExecuteCheckout(s) \/ ExecuteExpired(s)
             \/ SendRefused(s) \/ ResponseLost(s) \/ SendAccepted(s) \/ ReceiptReverted(s)
    BY <2>2, NotRevoked DEF ExecuteCheckout, ExecuteExpired, SendRefused, ResponseLost,
                            SendAccepted, ReceiptReverted, policyVars
  <2> QED
    BY <2>1, <2>2
<1>5. \/ screens'[s] = Idle
      \/ \E step \in {"attached", "sending", "confirming"} :
           screens'[s] = [screens[s] EXCEPT !.step = step]
  <2>1. CASE ExecuteCheckout(s) \/ SendAccepted(s)
    BY <1>1, <2>1 DEF ExecuteCheckout, SendAccepted
  <2>2. CASE ReceiptTimeout(s)
    BY <1>1, <2>2 DEF ReceiptTimeout, AfterTimeout
  <2>3. CASE \/ ExecuteExpired(s) \/ SendRefused(s) \/ ResponseLost(s)
             \/ ReceiptLanded(s) \/ ReceiptReverted(s)
    BY <1>1, <2>3 DEF ExecuteExpired, SendRefused, ResponseLost, ReceiptLanded,
                      ReceiptReverted, Fails
  <2> QED
    BY <2>1, <2>2, <2>3
<1>6. CASE screens'[s] = Idle
  BY <1>2, <1>3, <1>4, <1>6, PaymentEnds
<1>7. ASSUME NEW step \in {"attached", "sending", "confirming"},
             screens'[s] = [screens[s] EXCEPT !.step = step]
      PROVE  Promised(s, U)' /\ ~Clean(s)'
  <2>1. screens'[s].step = step
    BY <1>7, TablesHave DEF Consistent, Screen
  <2> QED
    BY <1>2, <1>3, <1>4, <1>7, <2>1, GoesOn DEF Clean
<1> QED
  BY <1>5, <1>6, <1>7

\* Payment requests and the chain have nothing to do with the wallet.
LEMMA RestSound ==
  ASSUME Consistent, NEW U, Sound(U), Apart, UNCHANGED screens
  PROVE  Sound(U)'
<1>1. ASSUME NEW s \in Screens
      PROVE  Promised(s, U)' /\ (Clean(s)' => Wallet(U)')
  <2>1. Promised(s, U) /\ (Clean(s) => Wallet(U))
    BY DEF Sound
  <2>2. Promised(s, U)'
    BY <2>1 DEF Apart, Promised, Known, PageOK, RecordOK, HasPolicy, PolicyOK
  <2>3. Clean(s)' => Clean(s)
    BY DEF Clean, Apart
  <2> QED
    BY <2>1, <2>2, <2>3, ApartWallet
<1> QED
  BY <1>1 DEF Sound

\* With one page at work, every step keeps the wallet right.
LEMMA StepSound ==
  ASSUME Consistent, OnePage, NEW U \in SUBSET Obligations, U = {} \/ Distinct, Sound(U),
         [Next]_vars
  PROVE  Sound(U)'
<1>1. Tables
  BY DEF Consistent
<1>2. ASSUME NEW s \in Screens, Promised(s, U)', (Clean(s) => Wallet(U)) /\ Clean(s)' => Wallet(U)'
      PROVE  Sound(U)'
  BY <1>2 DEF OnePage, Sound
<1>3. ASSUME NEW s \in Screens, PolicyStep(s)
      PROVE  Sound(U)'
  BY <1>1, <1>2, <1>3, PolicyStepPromised DEF Sound
<1>4. ASSUME NEW s \in Screens, PayStep(s)
      PROVE  Sound(U)'
  <2>1. Promised(s, U)
    BY DEF Sound
  <2>2. ASSUME NEW q \in Requests, ExpireRequest(s, q)
        PROVE  Sound(U)'
    BY <2>2, RestSound DEF ExpireRequest, policyVars, Apart
  <2>3. CASE \/ \E x \in Payables, k \in CheckoutIds : AskQuote(s, x, k)
             \/ RefuseQuote(s) \/ BuildQuote(s) \/ InsertCheckout(s)
    BY <1>2, <2>1, <2>3, QuotePromised
  <2>4. CASE \/ ExecuteCheckout(s) \/ ExecuteExpired(s)
             \/ SendRefused(s) \/ ResponseLost(s) \/ SendAccepted(s)
             \/ ReceiptLanded(s) \/ ReceiptReverted(s) \/ ReceiptTimeout(s)
    BY <1>2, <2>1, <2>4, SendPromised
  <2> QED
    BY <1>4, <2>2, <2>3, <2>4 DEF PayStep
<1>5. ASSUME NEW q \in Requests, RequestMoney(q) \/ CancelRequest(q)
      PROVE  Sound(U)'
  BY <1>5, RestSound DEF RequestMoney, CancelRequest, policyVars, Apart
<1>6. ASSUME NEW i \in DOMAIN transfers, Mine(i)
      PROVE  Sound(U)'
  BY <1>6, RestSound DEF Mine, policyVars, Apart
<1>7. CASE Tick /\ UNCHANGED checkoutVars
  <2>1. PICK s : Screens = {s}
    BY DEF OnePage
  <2>2. UNCHANGED <<attached, interrupted, screens>> /\ attached \in 0 .. Len(policies)
    BY <1>1, <1>7, TablesHave DEF Tick, policyVars
  <2>3. Promised(s, U)'
    BY <1>1, <1>7, <2>1, TickPromised DEF Sound
  <2>4. Wallet(U) => Wallet(U)'
    BY <1>1, <1>7, <2>1, <2>2, TickPromised DEF Wallet
  <2>5. Clean(s)' => Clean(s)
    BY <2>2 DEF Clean
  <2> QED
    BY <2>1, <2>3, <2>4, <2>5 DEF Sound
<1>8. CASE UNCHANGED vars
  BY <1>8, RestSound DEF vars, policyVars, Apart
<1> QED
  BY <1>3, <1>4, <1>5, <1>6, <1>7, <1>8 DEF Next

\* What was granted can be paid, whatever one-off payments came in between: with
\* one page at work, the policy of a quote carries the rules of every grant
\* (operationsPolicy.ts:78-113), and attaching it takes the place of none.
THEOREM GrantsAuthorised ==
  ASSUME OnePage
  PROVE  Spec => []GrantedIsAuthorised
<1>1. Init => Consistent /\ Sound({})
  BY InitOK, InitPromised DEF Init, Sound
<1>2. Consistent /\ Sound({}) /\ [Next]_vars => Consistent' /\ Sound({})'
  BY StepKeeps, StepSound
<1>3. Consistent /\ Sound({}) => GrantedIsAuthorised
  <2> SUFFICES ASSUME Consistent, Sound({}), Quiet, ~interrupted
               PROVE  \A i \in ListActiveGrants({}) :
                        obligations[grants[i].obligation] = "ACTIVE" => Allows(grants[i].obligation)
    BY DEF GrantedIsAuthorised
  <2>1. Wallet({})
    BY DEF OnePage, Sound, Quiet, Clean, Idle
  <2> QED
    BY <2>1, WalletAllows DEF Consistent
<1> QED
  BY <1>1, <1>2, <1>3, PTL DEF Spec

\* Nothing else can be paid: with one page at work and an address for everybody,
\* an obligation that the signer may pay has a live grant that says so, although
\* grants are written after the policy is attached (obligations.ts:182-212).
THEOREM AuthorityRecorded ==
  ASSUME OnePage, Distinct
  PROVE  Spec => []AuthorityIsRecorded
<1>1. Init => Consistent /\ Sound(Obligations)
  BY InitOK, InitPromised DEF Init, Sound
<1>2. Consistent /\ Sound(Obligations) /\ [Next]_vars => Consistent' /\ Sound(Obligations)'
  BY StepKeeps, StepSound
<1>3. Consistent /\ Sound(Obligations) => AuthorityIsRecorded
  <2> SUFFICES ASSUME Consistent, Sound(Obligations), Quiet, ~interrupted
               PROVE  \A o \in Obligations : Allows(o) => ActiveOf(o) \cap ListActiveGrants({}) # {}
    BY DEF AuthorityIsRecorded
  <2>1. Wallet(Obligations)
    BY DEF OnePage, Sound, Quiet, Clean, Idle
  <2> QED
    BY <2>1, WalletAllows DEF Consistent
<1> QED
  BY <1>1, <1>2, <1>3, PTL DEF Spec

-----------------------------------------------------------------------------
(* The accounts: checkouts, the transfers sent for them, and the requests  *)
(* they pay.                                                               *)

For(i) == checkouts[transfers[i].checkout].for

\* The server was told of the transfer, and it has not failed.
InPlay(i) == transfers[i].reported /\ transfers[i].status # "REVERTED"

Confirming(k) ==
  \E s \in Screens :
    screens[s].flow = "pay" /\ screens[s].step = "confirming" /\ screens[s].checkout = k

\* A page pays with a checkout of its own, which is pending once it is stored,
\* and sends for it once.
PageAccount(s) ==
  screens[s].flow = "pay" =>
    /\ screens[s].step # "revoking"
    /\ \E x \in Payables : screens[s].of = {x}
    /\ \A t \in Screens : screens[t].flow = "pay" /\ screens[t].checkout = screens[s].checkout => t = s
    /\ IF screens[s].step \in {"pricing", "building"}
       THEN screens[s].checkout \notin DOMAIN checkouts
       ELSE /\ screens[s].checkout \in DOMAIN checkouts
            /\ checkouts[screens[s].checkout].status = "PENDING_APPROVAL"
            /\ checkouts[screens[s].checkout].for \in screens[s].of
    /\ IF screens[s].step = "confirming"
       THEN \E i \in DOMAIN transfers :
              transfers[i].checkout = screens[s].checkout /\ transfers[i].reported
       ELSE \A i \in DOMAIN transfers : transfers[i].checkout # screens[s].checkout

\* A transfer is the only one of its checkout; one in play has fulfilled its
\* request, or a page is waiting for it.
TransferAccount(i) ==
  /\ transfers[i].checkout \in DOMAIN checkouts
  /\ \A j \in DOMAIN transfers : transfers[j].checkout = transfers[i].checkout => j = i
  /\ InPlay(i) /\ For(i) \in Requests =>
       requests[For(i)].status = "FULFILLED" \/ Confirming(transfers[i].checkout)

CheckoutAccount(k) ==
  /\ checkouts[k].status = "SETTLED" =>
       \E i \in DOMAIN transfers :
         transfers[i].checkout = k /\ transfers[i].reported /\ transfers[i].status = "LANDED"
  /\ checkouts[k].status \in {"FAILED", "EXPIRED"} =>
       \A i \in DOMAIN transfers : transfers[i].checkout = k => ~InPlay(i)

RequestAccount(q) ==
  requests[q].status = "FULFILLED" =>
    \E i \in DOMAIN transfers : transfers[i].reported /\ For(i) = q

Accounts ==
  /\ \A s \in Screens : PageAccount(s)
  /\ \A i \in DOMAIN transfers : TransferAccount(i)
  /\ \A k \in DOMAIN checkouts : CheckoutAccount(k)
  /\ \A q \in Requests : RequestAccount(q)

\* Checkout c is page s's alone, before and after a step that is of that page.
Owns(s, c) ==
  /\ screens[s].flow = "pay" => screens[s].checkout = c
  /\ screens'[s].flow = "pay" => screens'[s].checkout = c
  /\ \A t \in Screens \ {s} :
       screens'[t] = screens[t] /\ (screens[t].flow = "pay" => screens[t].checkout # c)

\* A step that writes the row of checkout c and sends for it, and no other.
OnlyOf(c) ==
  /\ \A i \in DOMAIN transfers : i \in DOMAIN transfers' /\ transfers'[i] = transfers[i]
  /\ \A i \in DOMAIN transfers' : i \in DOMAIN transfers \/ transfers'[i].checkout = c
  /\ \A k : k # c => /\ k \in DOMAIN checkouts' <=> k \in DOMAIN checkouts
                     /\ k \in DOMAIN checkouts => checkouts'[k] = checkouts[k]
  /\ c \in DOMAIN checkouts => c \in DOMAIN checkouts' /\ checkouts'[c].for = checkouts[c].for
  /\ \A q \in Requests : requests'[q].status \in {requests[q].status, "FULFILLED"}

\* Nothing changes in the accounts of other checkouts.
LEMMA OtherAccounts ==
  ASSUME Accounts, NEW s \in Screens, NEW c, Owns(s, c), OnlyOf(c)
  PROVE  /\ \A t \in Screens \ {s} : PageAccount(t)'
         /\ \A i \in DOMAIN transfers : transfers[i].checkout # c => TransferAccount(i)'
         /\ \A k \in DOMAIN checkouts' : k # c => CheckoutAccount(k)'
         /\ \A q \in Requests : requests'[q].status = requests[q].status => RequestAccount(q)'
<1>1. \A i \in DOMAIN transfers : i \in DOMAIN transfers' /\ transfers'[i] = transfers[i]
  BY DEF OnlyOf
<1>2. \A i \in DOMAIN transfers' : i \notin DOMAIN transfers => transfers'[i].checkout = c
  BY DEF OnlyOf
<1>3. \A i \in DOMAIN transfers : transfers[i].checkout \in DOMAIN checkouts
  BY DEF Accounts, TransferAccount
<1>4. \A i \in DOMAIN transfers : For(i)' = For(i) /\ InPlay(i)' = InPlay(i)
  BY <1>1, <1>3 DEF OnlyOf, For, InPlay
<1>5. ASSUME NEW t \in Screens \ {s}
      PROVE  PageAccount(t)'
  <2>1. PageAccount(t) /\ screens'[t] = screens[t]
    BY DEF Accounts, Owns
  <2>2. SUFFICES ASSUME screens[t].flow = "pay" PROVE PageAccount(t)'
    BY <2>1 DEF PageAccount
  <2>3. screens[t].checkout # c
    BY <2>2 DEF Owns
  <2>4. \A u \in Screens :
          screens'[u].flow = "pay" /\ screens'[u].checkout = screens[t].checkout => u = t
    BY <2>1, <2>2, <2>3 DEF Owns, PageAccount
  <2>5. /\ screens[t].checkout \in DOMAIN checkouts' <=> screens[t].checkout \in DOMAIN checkouts
        /\ screens[t].checkout \in DOMAIN checkouts =>
             checkouts'[screens[t].checkout] = checkouts[screens[t].checkout]
    BY <2>3 DEF OnlyOf
  <2>6. IF screens[t].step = "confirming"
        THEN \E i \in DOMAIN transfers' :
               transfers'[i].checkout = screens[t].checkout /\ transfers'[i].reported
        ELSE \A i \in DOMAIN transfers' : transfers'[i].checkout # screens[t].checkout
    BY <1>1, <1>2, <2>1, <2>2, <2>3 DEF PageAccount
  <2> QED
    BY <2>1, <2>2, <2>4, <2>5, <2>6 DEF PageAccount
<1>6. ASSUME NEW i \in DOMAIN transfers, NEW k, transfers[i].checkout = k, k # c
      PROVE  TransferAccount(i)'
  <2>1. TransferAccount(i) /\ transfers'[i] = transfers[i]
    BY <1>1 DEF Accounts
  <2>2. transfers'[i].checkout \in DOMAIN checkouts'
    BY <1>6, <2>1 DEF TransferAccount, OnlyOf
  <2>3. \A j \in DOMAIN transfers' : transfers'[j].checkout = transfers'[i].checkout => j = i
    BY <1>1, <1>2, <1>6, <2>1 DEF TransferAccount
  <2>4. Confirming(k) => Confirming(k)'
    BY <1>6 DEF Confirming, Owns
  <2>5. \A q \in Requests : requests[q].status = "FULFILLED" => requests'[q].status = "FULFILLED"
    BY DEF OnlyOf
  <2>6. PICK q : q = For(i)
    OBVIOUS
  <2>7. For(i)' = q /\ InPlay(i)' = InPlay(i)
    BY <1>4, <2>6
  <2>8. InPlay(i) /\ q \in Requests => requests[q].status = "FULFILLED" \/ Confirming(k)
    BY <1>6, <2>1, <2>6 DEF TransferAccount
  <2>9. InPlay(i)' /\ For(i)' \in Requests =>
          requests'[For(i)'].status = "FULFILLED" \/ Confirming(k)'
    BY <2>4, <2>5, <2>7, <2>8
  <2> QED
    BY <1>6, <2>1, <2>2, <2>3, <2>9 DEF TransferAccount
<1>7. ASSUME NEW k \in DOMAIN checkouts', k # c
      PROVE  CheckoutAccount(k)'
  <2>1. k \in DOMAIN checkouts /\ checkouts'[k] = checkouts[k] /\ CheckoutAccount(k)
    BY <1>7 DEF OnlyOf, Accounts
  <2> QED
    BY <1>1, <1>2, <1>4, <1>7, <2>1 DEF CheckoutAccount, InPlay
<1>8. ASSUME NEW q \in Requests, requests'[q].status = requests[q].status
      PROVE  RequestAccount(q)'
  BY <1>1, <1>4, <1>8 DEF Accounts, RequestAccount
<1> QED
  BY <1>5, <1>6, <1>7, <1>8

\* A page goes on and nothing is written.
LEMMA PageOnly ==
  ASSUME Accounts, NEW s \in Screens, NEW c, Owns(s, c), PageAccount(s)',
         screens[s].step # "confirming", UNCHANGED <<checkouts, transfers, requests>>
  PROVE  Accounts'
<1>1. OnlyOf(c)
  BY DEF OnlyOf
<1>2. /\ \A t \in Screens \ {s} : PageAccount(t)'
      /\ \A i \in DOMAIN transfers : transfers[i].checkout # c => TransferAccount(i)'
      /\ \A q \in Requests : RequestAccount(q)'
  BY <1>1, OtherAccounts
<1>3. \A k \in DOMAIN checkouts : CheckoutAccount(k)'
  BY DEF Accounts, CheckoutAccount, InPlay
<1>4. ASSUME NEW i \in DOMAIN transfers, transfers[i].checkout = c
      PROVE  TransferAccount(i)'
  <2>1. TransferAccount(i) /\ ~Confirming(c)
    BY DEF Accounts, Confirming, Owns
  <2> QED
    BY <1>4, <2>1 DEF TransferAccount, InPlay, For
<1> QED
  BY <1>2, <1>3, <1>4 DEF Accounts

\* A step of one page: what is left to look at is its own checkout, and the
\* requests that it fulfils.
LEMMA OwnStep ==
  ASSUME Accounts, NEW s \in Screens, NEW c, Owns(s, c), OnlyOf(c),
         PageAccount(s)',
         \A i \in DOMAIN transfers' : transfers'[i].checkout = c => TransferAccount(i)',
         c \in DOMAIN checkouts' => CheckoutAccount(c)',
         \A q \in Requests : requests'[q].status # requests[q].status => RequestAccount(q)'
  PROVE  Accounts'
<1>1. /\ \A t \in Screens \ {s} : PageAccount(t)'
      /\ \A i \in DOMAIN transfers : transfers[i].checkout # c => TransferAccount(i)'
      /\ \A k \in DOMAIN checkouts' : k # c => CheckoutAccount(k)'
      /\ \A q \in Requests : requests'[q].status = requests[q].status => RequestAccount(q)'
  BY OtherAccounts
<1>2. \A i \in DOMAIN transfers' :
        transfers'[i].checkout # c => i \in DOMAIN transfers /\ transfers[i].checkout # c
  BY DEF OnlyOf
<1>3. \A i \in DOMAIN transfers' : TransferAccount(i)'
  BY <1>1, <1>2
<1>4. \A k \in DOMAIN checkouts' : CheckoutAccount(k)'
  BY <1>1
<1>5. \A t \in Screens : PageAccount(t)'
  BY <1>1
<1>6. \A q \in Requests : RequestAccount(q)'
  BY <1>1
<1> QED
  BY <1>3, <1>4, <1>5, <1>6 DEF Accounts

\* A paying page goes on with its checkout, or is done.
LEMMA PageOwns ==
  ASSUME Accounts, NEW s \in Screens, screens[s].flow = "pay",
         \A t \in Screens \ {s} : screens'[t] = screens[t],
         screens'[s] = Idle \/ screens'[s].checkout = screens[s].checkout
  PROVE  Owns(s, screens[s].checkout)
<1>1. PageAccount(s)
  BY DEF Accounts
<1> QED
  BY <1>1 DEF PageAccount, Owns, Idle

\* Nobody is waiting for a transfer of this page's checkout before it was sent.
LEMMA NotSent ==
  ASSUME Accounts, NEW s \in Screens, screens[s].flow = "pay", screens[s].step # "confirming"
  PROVE  \A i \in DOMAIN transfers : transfers[i].checkout # screens[s].checkout
  BY DEF Accounts, PageAccount

\* updateCheckoutStatus writes one column of one row.
LEMMA UpdateOnly ==
  ASSUME Consistent, NEW k, NEW status, UpdateStatus(k, status)
  PROVE  /\ DOMAIN checkouts' = DOMAIN checkouts
         /\ \A c \in DOMAIN checkouts : c # k => checkouts'[c] = checkouts[c]
         /\ k \in DOMAIN checkouts => /\ checkouts'[k].status = status
                                      /\ checkouts'[k].for = checkouts[k].for
<1>1. checkouts \in [DOMAIN checkouts -> Checkout]
  BY DEF Consistent, Tables, PolicyTypeOK
<1> QED
  BY <1>1 DEF UpdateStatus, Checkout

\* A quote is asked for, refused or built.
LEMMA QuoteAccounts ==
  ASSUME Consistent, Accounts, NEW s \in Screens,
         \/ \E x \in Payables, k \in CheckoutIds : AskQuote(s, x, k)
         \/ RefuseQuote(s) \/ BuildQuote(s)
  PROVE  Accounts'
<1>1. DOMAIN screens = Screens /\ ScreenOK(s) /\ PageAccount(s) /\ screens[s] \in Screen
  BY DEF Consistent, Tables, PolicyTypeOK, Accounts
<1>2. UNCHANGED <<checkouts, transfers, requests>> /\ screens[s].step # "confirming"
  BY DEF AskQuote, RefuseQuote, BuildQuote, checkoutVars, Idle
<1>3. \A t \in Screens \ {s} : screens'[t] = screens[t]
  BY <1>1 DEF AskQuote, RefuseQuote, BuildQuote
<1>4. ASSUME NEW x \in Payables, NEW k \in CheckoutIds, AskQuote(s, x, k)
      PROVE  Accounts'
  <2>1. /\ screens'[s] = [flow |-> "pay", step |-> "pricing", of |-> {x}, checkout |-> k,
                          policy |-> 0, expires |-> 0]
        /\ screens[s] = Idle /\ k \notin UsedIds
    BY <1>1, <1>4 DEF AskQuote
  <2>2. k \notin DOMAIN checkouts /\ \A t \in Screens : screens[t].checkout # k
    BY <2>1 DEF UsedIds
  <2>3. Owns(s, k)
    BY <1>3, <2>1, <2>2 DEF Owns, Idle
  <2>4. \A i \in DOMAIN transfers : transfers[i].checkout # k
    BY <2>2 DEF Accounts, TransferAccount
  <2>5. PageAccount(s)'
    BY <1>2, <1>3, <2>1, <2>2, <2>4 DEF PageAccount
  <2> QED
    BY <1>2, <2>3, <2>5, PageOnly
<1>5. CASE RefuseQuote(s) \/ BuildQuote(s)
  <2>1. screens[s].flow = "pay" /\ screens[s].step = "pricing"
    BY <1>1, <1>5 DEF RefuseQuote, BuildQuote, ScreenOK
  <2>2. \/ screens'[s] = Idle
        \/ /\ screens'[s].checkout = screens[s].checkout /\ screens'[s].flow = "pay"
           /\ screens'[s].of = screens[s].of /\ screens'[s].step = "building"
    <3>1. CASE RefuseQuote(s)
      BY <1>1, <3>1 DEF RefuseQuote
    <3>2. CASE BuildQuote(s)
      <4>1. screens'[s] = [screens[s] EXCEPT !.step = "building", !.policy = Len(policies) + 1,
                                             !.expires = now + QuoteSeconds]
        BY <1>1, <3>2 DEF BuildQuote
      <4>2. \A n, e : \A page \in Screen :
              LET after == [page EXCEPT !.step = "building", !.policy = n, !.expires = e] IN
              /\ after.checkout = page.checkout /\ after.flow = page.flow
              /\ after.of = page.of /\ after.step = "building"
        BY DEF Screen
      <4> QED
        BY <1>1, <2>1, <4>1, <4>2
    <3> QED
      BY <1>5, <3>1, <3>2
  <2>3. Owns(s, screens[s].checkout)
    BY <1>3, <2>1, <2>2, PageOwns
  <2>4. PageAccount(s)'
    <3>1. CASE screens'[s] = Idle
      BY <3>1 DEF PageAccount, Idle
    <3>2. CASE screens'[s] # Idle
      BY <1>1, <1>2, <1>3, <2>1, <2>2, <3>2 DEF PageAccount
    <3> QED
      BY <3>1, <3>2
  <2> QED
    BY <1>2, <2>3, <2>4, PageOnly
<1> QED
  BY <1>4, <1>5

\* What a flow of the policy does to a page that pays: the taps of its own
\* policy, or leaving it.
LEMMA PolicyStepPage ==
  ASSUME Consistent, NEW s \in Screens, PageAccount(s), PolicyStep(s)
  PROVE  /\ UNCHANGED checkouts
         /\ \A t \in Screens \ {s} : screens'[t] = screens[t]
         /\ screens[s].step # "confirming"
         /\ \/ screens'[s].flow # "pay"
            \/ /\ screens[s].flow = "pay"
               /\ screens[s].step \in {"built", "detached"}
               /\ screens'[s].flow = "pay"
               /\ screens'[s].step \in {"detached", "attached"}
               /\ screens'[s].of = screens[s].of
               /\ screens'[s].checkout = screens[s].checkout
<1>1. DOMAIN screens = Screens /\ screens[s] \in Screen /\ ScreenOK(s)
  BY DEF Consistent, Tables, PolicyTypeOK
<1>2. UNCHANGED checkouts /\ \A t \in Screens \ {s} : screens'[t] = screens[t]
  BY <1>1 DEF PolicyStep, Begin, CreateObligation, RenewObligation, CancelObligation, ConfirmKill,
              RemoveSigners, AddSigners, GrantRoute, CancelConfirm, KillSwitchRoute, Killed, GiveUp
<1>3. ASSUME NEW flow \in {"create", "renew", "cancel", "kill"}, NEW of, NEW e, Begin(s, flow, of, e)
      PROVE  screens[s].step # "confirming" /\ screens'[s].flow # "pay"
  BY <1>1, <1>3 DEF Begin, Idle
<1>4. CASE \/ \E o \in Obligations : CreateObligation(s, o) \/ RenewObligation(s, o)
                                     \/ CancelObligation(s, o)
           \/ ConfirmKill(s)
  BY <1>2, <1>3, <1>4 DEF CreateObligation, RenewObligation, CancelObligation, ConfirmKill
<1>5. CASE RemoveSigners(s) \/ AddSigners(s)
  <2>1. PICK step \in {"revoking", "detached", "attached"} :
          /\ screens'[s] = [screens[s] EXCEPT !.step = step]
          /\ screens[s].step \in {"built", "detached"}
          /\ step = "revoking" => screens[s].flow # "pay"
    BY <1>1, <1>5 DEF RemoveSigners, AddSigners
  <2> QED
    BY <1>1, <1>2, <2>1 DEF Screen
<1>6. CASE GrantRoute(s) \/ CancelConfirm(s) \/ Killed(s) \/ GiveUp(s)
  <2>1. screens'[s] = Idle /\ screens[s].step # "confirming"
    BY <1>1, <1>6 DEF GrantRoute, CancelConfirm, Killed, GiveUp
  <2> QED
    BY <1>2, <2>1 DEF Idle
<1>7. CASE KillSwitchRoute(s)
  <2>1. PICK o : screens'[s] = [screens[s] EXCEPT !.of = screens[s].of \ {o}]
    BY <1>1, <1>7 DEF KillSwitchRoute
  <2>2. screens[s].step = "revoking" /\ screens[s].flow # "pay"
    BY <1>7 DEF KillSwitchRoute, PageAccount
  <2> QED
    BY <1>1, <1>2, <2>1, <2>2 DEF Screen
<1> QED
  BY <1>4, <1>5, <1>6, <1>7 DEF PolicyStep

\* The flows of the policy leave the accounts alone.
LEMMA PolicyStepAccounts ==
  ASSUME Consistent, Accounts, NEW s \in Screens, PolicyStep(s), UNCHANGED checkoutVars
  PROVE  Accounts'
<1>1. /\ UNCHANGED <<checkouts, transfers, requests>>
      /\ \A t \in Screens \ {s} : screens'[t] = screens[t]
      /\ screens[s].step # "confirming"
  BY PolicyStepPage DEF checkoutVars, Accounts
<1>2. PageAccount(s) /\ \A t \in Screens : ScreenOK(t)
  BY DEF Accounts, Consistent, Tables
<1>3. CASE screens'[s].flow # "pay"
  <2> DEFINE c == IF screens[s].flow = "pay" THEN screens[s].checkout ELSE None
  <2>1. \A t \in Screens : screens[t].flow = "pay" => screens[t].checkout # None
    BY <1>2, PolicyAssumption DEF ScreenOK
  <2>2. Owns(s, c)
    BY <1>1, <1>2, <1>3, <2>1 DEF Owns, PageAccount
  <2>3. PageAccount(s)'
    BY <1>3 DEF PageAccount
  <2> QED
    BY <1>1, <2>2, <2>3, PageOnly
<1>4. CASE screens'[s].flow = "pay"
  <2>1. /\ screens[s].flow = "pay"
        /\ screens[s].step \in {"built", "detached"}
        /\ screens'[s].step \in {"detached", "attached"}
        /\ screens'[s].of = screens[s].of
        /\ screens'[s].checkout = screens[s].checkout
    BY <1>2, <1>4, PolicyStepPage
  <2>2. Owns(s, screens[s].checkout)
    BY <1>1, <2>1, PageOwns
  <2>3. PageAccount(s)'
    BY <1>1, <1>2, <1>4, <2>1 DEF PageAccount
  <2> QED
    BY <1>1, <2>2, <2>3, PageOnly
<1> QED
  BY <1>3, <1>4

\* A checkout is stored, executed, found expired or refused: nothing was sent.
LEMMA UnsentAccounts ==
  ASSUME Consistent, Accounts, NEW s \in Screens,
         InsertCheckout(s) \/ ExecuteCheckout(s) \/ ExecuteExpired(s) \/ SendRefused(s)
  PROVE  Accounts'
<1>1. /\ DOMAIN screens = Screens /\ ScreenOK(s) /\ PageAccount(s) /\ screens[s] \in Screen
      /\ UNCHANGED <<transfers, requests>>
  BY DEF Consistent, Tables, PolicyTypeOK, Accounts, InsertCheckout, ExecuteCheckout,
         ExecuteExpired, SendRefused, checkoutVars
<1>2. /\ screens[s].flow = "pay" /\ screens[s].step \in {"building", "attached", "sending"}
      /\ \A t \in Screens \ {s} : screens'[t] = screens[t]
  BY <1>1 DEF InsertCheckout, ExecuteCheckout, ExecuteExpired, SendRefused, Fails, ScreenOK
<1>3. PICK k : k = screens[s].checkout
  OBVIOUS
<1>4. \A i \in DOMAIN transfers : transfers[i].checkout # k
  BY <1>2, <1>3, NotSent
<1>5. ASSUME Owns(s, k), OnlyOf(k), PageAccount(s)',
             k \in DOMAIN checkouts' => CheckoutAccount(k)'
      PROVE  Accounts'
  BY <1>1, <1>4, <1>5, OwnStep
<1>6. CASE InsertCheckout(s)
  <2>1. PICK x \in screens[s].of :
          checkouts' = [c \in DOMAIN checkouts \cup {k} |->
                          IF c = k THEN [status |-> "PENDING_APPROVAL", for |-> x,
                                         policy |-> screens[s].policy, expires |-> screens[s].expires]
                          ELSE checkouts[c]]
    BY <1>3, <1>6 DEF InsertCheckout
  <2>2. /\ screens'[s] = [screens[s] EXCEPT !.step = "built"]
        /\ screens[s].step = "building" /\ k \notin DOMAIN checkouts
    BY <1>1, <1>2, <1>3, <1>6 DEF InsertCheckout, PageAccount
  <2>3. /\ screens'[s].checkout = k /\ screens'[s].step = "built"
        /\ screens'[s].of = screens[s].of /\ screens'[s].flow = "pay"
    BY <1>1, <1>2, <1>3, <2>2 DEF Screen
  <2>4. /\ \A c : c # k => /\ c \in DOMAIN checkouts' <=> c \in DOMAIN checkouts
                           /\ c \in DOMAIN checkouts => checkouts'[c] = checkouts[c]
        /\ k \in DOMAIN checkouts'
        /\ checkouts'[k].status = "PENDING_APPROVAL" /\ checkouts'[k].for = x
    BY <2>1
  <2>5. Owns(s, k)
    BY <1>2, <1>3, <2>3, PageOwns
  <2>6. OnlyOf(k)
    BY <1>1, <2>2, <2>4 DEF OnlyOf
  <2>7. PageAccount(s)'
    BY <1>1, <1>2, <1>3, <1>4, <2>3, <2>4 DEF PageAccount
  <2>8. CheckoutAccount(k)'
    BY <2>4 DEF CheckoutAccount
  <2> QED
    BY <1>5, <2>5, <2>6, <2>7, <2>8
<1>7. CASE ExecuteCheckout(s)
  <2>1. screens'[s] = [screens[s] EXCEPT !.step = "sending"] /\ UNCHANGED checkouts
    BY <1>1, <1>7 DEF ExecuteCheckout
  <2>2. /\ screens'[s].checkout = k /\ screens'[s].step = "sending"
        /\ screens'[s].of = screens[s].of /\ screens'[s].flow = "pay"
    BY <1>1, <1>2, <1>3, <2>1 DEF Screen
  <2>3. screens[s].step = "attached"
    BY <1>7 DEF ExecuteCheckout
  <2>4. Owns(s, k) /\ OnlyOf(k)
    BY <1>1, <1>2, <1>3, <2>1, <2>2, PageOwns DEF OnlyOf
  <2>5. PageAccount(s)'
    BY <1>1, <1>2, <1>3, <1>4, <2>1, <2>2, <2>3 DEF PageAccount
  <2>6. k \in DOMAIN checkouts' => CheckoutAccount(k)'
    BY <1>1, <2>1 DEF Accounts, CheckoutAccount, InPlay
  <2> QED
    BY <1>5, <2>4, <2>5, <2>6
<1>8. CASE ExecuteExpired(s) \/ SendRefused(s)
  <2>1. PICK status \in {"EXPIRED", "FAILED"} :
          UpdateStatus(k, status) /\ screens'[s] = Idle
    BY <1>1, <1>3, <1>8 DEF ExecuteExpired, SendRefused, Fails
  <2>2. Owns(s, k) /\ OnlyOf(k)
    <3>1. Owns(s, k)
      BY <1>2, <1>3, <2>1, PageOwns
    <3>2. OnlyOf(k)
      BY <1>1, <2>1, UpdateOnly DEF OnlyOf
    <3> QED
      BY <3>1, <3>2
  <2>3. PageAccount(s)'
    BY <2>1 DEF PageAccount, Idle
  <2>4. CheckoutAccount(k)'
    <3>1. k \in DOMAIN checkouts => checkouts'[k].status = status
      BY <2>1, UpdateOnly
    <3>2. k \in DOMAIN checkouts
      BY <1>1, <1>2, <1>3, <1>8 DEF ScreenOK, ExecuteExpired, SendRefused
    <3> QED
      BY <1>1, <1>4, <3>1, <3>2 DEF CheckoutAccount
  <2> QED
    BY <1>5, <2>2, <2>3, <2>4
<1> QED
  BY <1>6, <1>7, <1>8

\* Transfer n is sent for checkout k, and the only one for it.
SentFirst(n, k, reported) ==
  /\ n \in DOMAIN transfers'
  /\ transfers'[n] = [checkout |-> k, status |-> "SENT", reported |-> reported]
  /\ \A i \in DOMAIN transfers' : i = n <=> transfers'[i].checkout = k
  /\ \A i \in DOMAIN transfers :
       i # n /\ i \in DOMAIN transfers' /\ transfers'[i] = transfers[i]

\* The transfer that a send call brings to the chain is the first of its checkout.
LEMMA SendsNew ==
  ASSUME Consistent, Accounts, NEW s \in Screens, NEW reported \in BOOLEAN, Sends(s, reported),
         NEW k, k = screens[s].checkout,
         UNCHANGED requests, DOMAIN checkouts' = DOMAIN checkouts,
         \A c \in DOMAIN checkouts : c # k => checkouts'[c] = checkouts[c],
         k \in DOMAIN checkouts => checkouts'[k].for = checkouts[k].for
  PROVE  OnlyOf(k) /\ \E n : SentFirst(n, k, reported)
<1>1. transfers \in Seq(Transfer) /\ screens[s].flow = "pay" /\ screens[s].step = "sending"
  BY SendsType DEF Consistent, Sends
<1>2. \A i \in DOMAIN transfers : transfers[i].checkout # k
  BY <1>1, NotSent
<1> DEFINE row == [checkout |-> k, status |-> "SENT", reported |-> reported]
           n == Len(transfers) + 1
<1>3. transfers' = Append(transfers, row)
  BY DEF Sends
<1> HIDE DEF row
<1>4. /\ DOMAIN transfers = 1 .. Len(transfers) /\ Len(transfers) \in Nat
      /\ DOMAIN transfers' = 1 .. n
      /\ transfers'[n] = row
      /\ \A i \in 1 .. Len(transfers) : transfers'[i] = transfers[i]
  BY <1>1, <1>3, LenProperties, AppendProperties
<1>5. n \in DOMAIN transfers' /\ \A i \in DOMAIN transfers' : i = n \/ i \in DOMAIN transfers
  BY <1>4
<1>6. \A i \in DOMAIN transfers : i # n /\ i \in DOMAIN transfers' /\ transfers'[i] = transfers[i]
  BY <1>4
<1>7. transfers'[n] = [checkout |-> k, status |-> "SENT", reported |-> reported]
  BY <1>4 DEF row
<1>8. \A i \in DOMAIN transfers' : i = n <=> transfers'[i].checkout = k
  BY <1>2, <1>5, <1>6, <1>7
<1>9. OnlyOf(k)
  BY <1>5, <1>6, <1>7 DEF OnlyOf
<1>10. SentFirst(n, k, reported)
  BY <1>5, <1>6, <1>7, <1>8 DEF SentFirst
<1> QED
  BY <1>9, <1>10

\* The send call returns: the page waits for the receipt of what was sent.
LEMMA AcceptedAccounts ==
  ASSUME Consistent, Accounts, NEW s \in Screens, SendAccepted(s)
  PROVE  Accounts'
<1>1. /\ DOMAIN screens = Screens /\ ScreenOK(s) /\ PageAccount(s) /\ screens[s] \in Screen
      /\ UNCHANGED <<checkouts, requests>> /\ Sends(s, TRUE)
      /\ screens'[s] = [screens[s] EXCEPT !.step = "confirming"]
      /\ \A t \in Screens \ {s} : screens'[t] = screens[t]
  BY DEF Consistent, Tables, PolicyTypeOK, Accounts, SendAccepted
<1>2. screens[s].flow = "pay" /\ screens[s].step = "sending"
  BY <1>1 DEF Sends, ScreenOK
<1>3. PICK k : k = screens[s].checkout
  OBVIOUS
<1>4. PICK reported \in BOOLEAN : reported = TRUE /\ Sends(s, reported)
  BY <1>1
<1>5. OnlyOf(k) /\ \E n : SentFirst(n, k, reported)
  BY <1>1, <1>3, <1>4, SendsNew
<1>6. PICK n : SentFirst(n, k, reported)
  BY <1>5
<1>7. /\ screens'[s].checkout = k /\ screens'[s].step = "confirming"
      /\ screens'[s].of = screens[s].of /\ screens'[s].flow = "pay"
  BY <1>1, <1>2, <1>3 DEF Screen
<1>8. Owns(s, k)
  BY <1>1, <1>2, <1>3, <1>7, PageOwns
<1>9. k \in DOMAIN checkouts /\ checkouts[k].status = "PENDING_APPROVAL"
      /\ checkouts[k].for \in screens[s].of
  BY <1>1, <1>2, <1>3 DEF PageAccount
<1>10. PageAccount(s)'
  <2>1. n \in DOMAIN transfers' /\ transfers'[n].checkout = k /\ transfers'[n].reported = reported
    BY <1>6 DEF SentFirst
  <2>2. transfers'[n].reported
    BY <1>4, <2>1
  <2>3. \E i \in DOMAIN transfers' : transfers'[i].checkout = k /\ transfers'[i].reported
    BY <2>1, <2>2
  <2> QED
    BY <1>1, <1>2, <1>3, <1>7, <1>9, <2>3 DEF PageAccount
<1>11. Confirming(k)'
  BY <1>7 DEF Confirming
<1>12. ASSUME NEW i \in DOMAIN transfers', transfers'[i].checkout = k
       PROVE  TransferAccount(i)'
  BY <1>1, <1>6, <1>9, <1>11, <1>12 DEF TransferAccount, SentFirst
<1>13. CheckoutAccount(k)'
  BY <1>1, <1>9 DEF CheckoutAccount
<1> QED
  BY <1>1, <1>5, <1>8, <1>10, <1>12, <1>13, OwnStep

\* The send call throws although it arrived: what was sent is not in play.
LEMMA LostAccounts ==
  ASSUME Consistent, Accounts, NEW s \in Screens, ResponseLost(s)
  PROVE  Accounts'
<1>1. /\ DOMAIN screens = Screens /\ ScreenOK(s)
      /\ UNCHANGED requests /\ Sends(s, FALSE)
      /\ UpdateStatus(screens[s].checkout, "FAILED")
      /\ screens'[s] = Idle
      /\ \A t \in Screens \ {s} : screens'[t] = screens[t]
  BY DEF Consistent, Tables, PolicyTypeOK, ResponseLost, Fails
<1>2. screens[s].flow = "pay" /\ screens[s].step = "sending"
  BY <1>1 DEF Sends, ScreenOK
<1>3. PICK k : k = screens[s].checkout
  OBVIOUS
<1>4. /\ k \in DOMAIN checkouts
      /\ DOMAIN checkouts' = DOMAIN checkouts
      /\ \A c \in DOMAIN checkouts : c # k => checkouts'[c] = checkouts[c]
      /\ checkouts'[k].status = "FAILED" /\ checkouts'[k].for = checkouts[k].for
  BY <1>1, <1>2, <1>3, UpdateOnly DEF ScreenOK
<1>5. PICK reported \in BOOLEAN : reported = FALSE /\ Sends(s, reported)
  BY <1>1
<1>6. OnlyOf(k) /\ \E n : SentFirst(n, k, reported)
  BY <1>1, <1>3, <1>4, <1>5, SendsNew
<1>7. PICK n : SentFirst(n, k, reported)
  BY <1>6
<1>8. Owns(s, k) /\ PageAccount(s)'
  <2>1. Owns(s, k)
    BY <1>1, <1>2, <1>3, PageOwns
  <2>2. PageAccount(s)'
    BY <1>1 DEF PageAccount, Idle
  <2> QED
    BY <2>1, <2>2
<1>9. ~InPlay(n)'
  BY <1>5, <1>7 DEF InPlay, SentFirst
<1>10. ASSUME NEW i \in DOMAIN transfers', transfers'[i].checkout = k
       PROVE  TransferAccount(i)'
  BY <1>4, <1>7, <1>9, <1>10 DEF TransferAccount, SentFirst
<1>11. CheckoutAccount(k)'
  BY <1>4, <1>7, <1>9 DEF CheckoutAccount, SentFirst
<1> QED
  BY <1>1, <1>6, <1>8, <1>10, <1>11, OwnStep

\* A page that waits knows its transfer.
LEMMA Awaited ==
  ASSUME Consistent, Accounts, NEW s \in Screens, screens[s].flow = "pay",
         screens[s].step = "confirming", NEW k, k = screens[s].checkout
  PROVE  /\ k \in DOMAIN checkouts /\ SentFor(k) \in DOMAIN transfers
         /\ transfers[SentFor(k)].reported
         /\ \A i \in DOMAIN transfers : i = SentFor(k) <=> transfers[i].checkout = k
<1> DEFINE mine == {i \in DOMAIN transfers : transfers[i].checkout = k}
<1>1. PICK n \in DOMAIN transfers : transfers[n].checkout = k /\ transfers[n].reported
  BY DEF Accounts, PageAccount
<1>2. \A j \in DOMAIN transfers : transfers[j].checkout = k => j = n
  BY <1>1 DEF Accounts, TransferAccount
<1>3. mine \subseteq 1 .. Len(transfers) /\ mine # {} /\ Len(transfers) \in Nat
  BY <1>1, LenProperties DEF Consistent
<1>4. SentFor(k) \in mine
  BY <1>3, MaxIsIn DEF SentFor
<1> QED
  BY <1>1, <1>2, <1>4 DEF Accounts, TransferAccount

\* The receipt is good, bad, or late, and nobody executes the checkout again.
LEMMA ReceiptAccounts ==
  ASSUME Consistent, Accounts, ~Retries, NEW s \in Screens,
         ReceiptLanded(s) \/ ReceiptReverted(s) \/ ReceiptTimeout(s)
  PROVE  Accounts'
<1>1. /\ DOMAIN screens = Screens /\ ScreenOK(s) /\ PageAccount(s)
      /\ UNCHANGED transfers /\ screens[s].step = "confirming"
  BY DEF Consistent, Tables, PolicyTypeOK, Accounts, ReceiptLanded, ReceiptReverted,
         ReceiptTimeout, BookSent, checkoutVars
<1>2. screens[s].flow = "pay"
  BY <1>1 DEF ScreenOK
<1>3. screens' = [screens EXCEPT ![s] = Idle]
  BY DEF ReceiptLanded, ReceiptReverted, Fails, ReceiptTimeout, AfterTimeout
<1>4. PICK k : k = screens[s].checkout
  OBVIOUS
<1>5. PICK n : n = SentFor(k)
  OBVIOUS
<1>6. /\ k \in DOMAIN checkouts /\ n \in DOMAIN transfers /\ transfers[n].reported
      /\ \A i \in DOMAIN transfers : i = n <=> transfers[i].checkout = k
  BY <1>1, <1>2, <1>4, <1>5, Awaited
<1>7. Owns(s, k)
  BY <1>1, <1>2, <1>3, <1>4, PageOwns
<1>8. PageAccount(s)'
  BY <1>1, <1>3 DEF PageAccount, Idle
<1>9. ASSUME OnlyOf(k), TransferAccount(n)', CheckoutAccount(k)',
             \A q \in Requests : requests'[q].status # requests[q].status => RequestAccount(q)'
      PROVE  Accounts'
  BY <1>1, <1>6, <1>7, <1>8, <1>9, OwnStep
<1>10. CASE ReceiptReverted(s)
  <2>1. /\ UNCHANGED requests /\ transfers[n].status = "REVERTED"
        /\ UpdateStatus(k, "FAILED")
    BY <1>4, <1>5, <1>10 DEF ReceiptReverted, Fails, checkoutVars
  <2>2. /\ DOMAIN checkouts' = DOMAIN checkouts
        /\ \A c \in DOMAIN checkouts : c # k => checkouts'[c] = checkouts[c]
        /\ checkouts'[k].status = "FAILED" /\ checkouts'[k].for = checkouts[k].for
    BY <1>6, <2>1, UpdateOnly
  <2>3. OnlyOf(k)
    BY <1>1, <2>1, <2>2 DEF OnlyOf
  <2>4. ~InPlay(n)'
    BY <1>1, <2>1 DEF InPlay
  <2>5. TransferAccount(n)'
    BY <1>1, <1>6, <2>2, <2>4 DEF TransferAccount
  <2>6. CheckoutAccount(k)'
    BY <1>1, <1>6, <2>2, <2>4 DEF CheckoutAccount
  <2> QED
    BY <1>9, <2>1, <2>3, <2>5, <2>6
<1>11. CASE ReceiptLanded(s) \/ ReceiptTimeout(s)
  <2>1. BookSent(k)
    BY <1>4, <1>11 DEF ReceiptLanded, ReceiptTimeout
  <2>2. /\ \A q \in Requests : q = checkouts[k].for => requests'[q].status = "FULFILLED"
        /\ \A q \in Requests : q # checkouts[k].for => requests'[q] = requests[q]
    BY <2>1 DEF BookSent, Consistent, Request
  <2>3. /\ DOMAIN checkouts' = DOMAIN checkouts
        /\ \A c \in DOMAIN checkouts : c # k => checkouts'[c] = checkouts[c]
        /\ checkouts'[k].for = checkouts[k].for
        /\ checkouts'[k].status = IF ReceiptLanded(s) THEN "SETTLED" ELSE checkouts[k].status
    <3>1. CASE ReceiptLanded(s)
      <4>1. UpdateStatus(k, "SETTLED")
        BY <1>4, <3>1 DEF ReceiptLanded
      <4> QED
        BY <1>6, <3>1, <4>1, UpdateOnly
    <3>2. CASE ~ReceiptLanded(s)
      BY <1>11, <3>2 DEF ReceiptTimeout
    <3> QED
      BY <3>1, <3>2
  <2>4. OnlyOf(k)
    BY <1>1, <2>2, <2>3 DEF OnlyOf
  <2>5. For(n)' = checkouts[k].for /\ For(n) = checkouts[k].for
    BY <1>1, <1>6, <2>3 DEF For
  <2>6. TransferAccount(n)'
    BY <1>1, <1>6, <2>2, <2>3, <2>5 DEF TransferAccount
  <2>7. CheckoutAccount(k)'
    <3>1. CASE ReceiptLanded(s)
      <4>1. transfers[n].status = "LANDED"
        BY <1>4, <1>5, <3>1 DEF ReceiptLanded
      <4> QED
        BY <1>1, <1>6, <2>3, <3>1, <4>1 DEF CheckoutAccount
    <3>2. CASE ~ReceiptLanded(s)
      <4>1. checkouts[k].status = "PENDING_APPROVAL"
        BY <1>1, <1>2, <1>4 DEF PageAccount
      <4> QED
        BY <2>3, <3>2, <4>1 DEF CheckoutAccount
    <3> QED
      BY <3>1, <3>2
  <2>8. \A q \in Requests : requests'[q].status # requests[q].status => RequestAccount(q)'
    BY <1>1, <1>6, <2>2, <2>5 DEF RequestAccount
  <2> QED
    BY <1>9, <2>4, <2>6, <2>7, <2>8
<1> QED
  BY <1>10, <1>11

\* A request that is made, cancelled or expires was not fulfilled, and is not.
LEMMA NoneFulfilled ==
  ASSUME Consistent,
         \/ \E q \in Requests : RequestMoney(q) \/ CancelRequest(q)
         \/ \E s \in Screens, q \in Requests : ExpireRequest(s, q)
  PROVE  \A p \in Requests : requests'[p].status = "FULFILLED" <=> requests[p].status = "FULFILLED"
<1>1. requests \in [Requests -> Request]
  BY DEF Consistent
<1>2. ASSUME NEW q \in Requests, RequestMoney(q)
      PROVE  \A p \in Requests : requests'[p].status = "FULFILLED" <=> requests[p].status = "FULFILLED"
  BY <1>1, <1>2 DEF RequestMoney, Request
<1>3. ASSUME NEW q \in Requests, CancelRequest(q)
      PROVE  \A p \in Requests : requests'[p].status = "FULFILLED" <=> requests[p].status = "FULFILLED"
  BY <1>1, <1>3 DEF CancelRequest, Request
<1>4. ASSUME NEW s \in Screens, NEW q \in Requests, ExpireRequest(s, q)
      PROVE  \A p \in Requests : requests'[p].status = "FULFILLED" <=> requests[p].status = "FULFILLED"
  BY <1>1, <1>4 DEF ExpireRequest, Request
<1> QED
  BY <1>2, <1>3, <1>4

\* No receipt is booked by a request that is made, cancelled or expires.
LEMMA RequestAccounts ==
  ASSUME Consistent, Accounts,
         \/ \E q \in Requests : RequestMoney(q) \/ CancelRequest(q)
         \/ \E s \in Screens, q \in Requests : ExpireRequest(s, q)
  PROVE  Accounts'
<1>1. UNCHANGED <<checkouts, transfers, screens>>
  BY DEF RequestMoney, CancelRequest, ExpireRequest
<1>2. \A q \in Requests : requests'[q].status = "FULFILLED" <=> requests[q].status = "FULFILLED"
  BY NoneFulfilled
<1>3. \A s \in Screens : PageAccount(s)'
  BY <1>1 DEF Accounts, PageAccount
<1>4. \A i \in DOMAIN transfers : TransferAccount(i)'
  BY <1>1, <1>2 DEF Accounts, TransferAccount, InPlay, For, Confirming
<1>5. \A k \in DOMAIN checkouts : CheckoutAccount(k)'
  BY <1>1 DEF Accounts, CheckoutAccount, InPlay
<1>6. \A q \in Requests : RequestAccount(q)'
  BY <1>1, <1>2 DEF Accounts, RequestAccount, For
<1> QED
  BY <1>1, <1>3, <1>4, <1>5, <1>6 DEF Accounts

\* The chain decides: what has landed was in play, and nothing comes into play.
LEMMA MineAccounts ==
  ASSUME Consistent, Accounts, NEW n \in DOMAIN transfers, Mine(n)
  PROVE  Accounts'
<1>1. UNCHANGED <<checkouts, requests, screens>> /\ transfers[n].status = "SENT"
  BY DEF Mine
<1>2. PICK status : transfers' = [transfers EXCEPT ![n].status = status]
  BY DEF Mine
<1>3. \A i \in DOMAIN transfers : transfers[i] \in Transfer
  BY LenProperties, ElementOfSeq DEF Consistent
<1>4. /\ DOMAIN transfers' = DOMAIN transfers
      /\ \A i \in DOMAIN transfers :
           /\ transfers'[i].checkout = transfers[i].checkout
           /\ transfers'[i].reported = transfers[i].reported
           /\ i # n => transfers'[i].status = transfers[i].status
  BY <1>2, <1>3 DEF Transfer
<1>5. \A i \in DOMAIN transfers : /\ For(i)' = For(i)
                                  /\ InPlay(i)' => InPlay(i)
                                  /\ transfers[i].status = "LANDED" => transfers'[i].status = "LANDED"
  BY <1>1, <1>4 DEF For, InPlay
<1>6. \A s \in Screens : PageAccount(s)'
  BY <1>1, <1>4 DEF Accounts, PageAccount
<1>7. \A i \in DOMAIN transfers : TransferAccount(i)'
  <2>1. \A k : Confirming(k)' = Confirming(k)
    BY <1>1 DEF Confirming
  <2> QED
    BY <1>1, <1>4, <1>5, <2>1 DEF Accounts, TransferAccount
<1>8. \A k \in DOMAIN checkouts : CheckoutAccount(k)'
  BY <1>1, <1>4, <1>5 DEF Accounts, CheckoutAccount
<1>9. \A q \in Requests : RequestAccount(q)'
  BY <1>1, <1>4, <1>5 DEF Accounts, RequestAccount
<1> QED
  BY <1>1, <1>4, <1>6, <1>7, <1>8, <1>9 DEF Accounts

\* Every step keeps the accounts, whatever pages do at the same time.
LEMMA StepAccounts ==
  ASSUME Consistent, Accounts, ~Retries, [Next]_vars
  PROVE  Accounts'
<1>1. ASSUME NEW s \in Screens, PolicyStep(s), UNCHANGED checkoutVars
      PROVE  Accounts'
  BY <1>1, PolicyStepAccounts
<1>2. ASSUME NEW s \in Screens, PayStep(s)
      PROVE  Accounts'
  <2>1. CASE \E q \in Requests : ExpireRequest(s, q)
    BY <2>1, RequestAccounts
  <2>2. CASE \/ \E x \in Payables, k \in CheckoutIds : AskQuote(s, x, k)
             \/ RefuseQuote(s) \/ BuildQuote(s)
    BY <2>2, QuoteAccounts
  <2>3. CASE InsertCheckout(s) \/ ExecuteCheckout(s) \/ ExecuteExpired(s) \/ SendRefused(s)
    BY <2>3, UnsentAccounts
  <2>4. CASE ResponseLost(s)
    BY <2>4, LostAccounts
  <2>5. CASE SendAccepted(s)
    BY <2>5, AcceptedAccounts
  <2>6. CASE ReceiptLanded(s) \/ ReceiptReverted(s) \/ ReceiptTimeout(s)
    BY <2>6, ReceiptAccounts
  <2> QED
    BY <1>2, <2>1, <2>2, <2>3, <2>4, <2>5, <2>6 DEF PayStep
<1>3. CASE \E q \in Requests : RequestMoney(q) \/ CancelRequest(q)
  BY <1>3, RequestAccounts
<1>4. CASE \E i \in DOMAIN transfers : Mine(i)
  BY <1>4, MineAccounts
<1>5. CASE UNCHANGED <<checkouts, transfers, requests, screens>>
  <2>1. \A i \in DOMAIN transfers : TransferAccount(i)'
    BY <1>5 DEF Accounts, TransferAccount, InPlay, For, Confirming
  <2> QED
    BY <1>5, <2>1 DEF Accounts, PageAccount, CheckoutAccount, InPlay, RequestAccount, For
<1>6. (Tick /\ UNCHANGED checkoutVars) \/ UNCHANGED vars
        => UNCHANGED <<checkouts, transfers, requests, screens>>
  BY DEF Tick, vars, checkoutVars, policyVars
<1> QED
  BY <1>1, <1>2, <1>3, <1>4, <1>5, <1>6 DEF Next

\* Nothing is open at first.
LEMMA InitAccounts == Init => Accounts
  BY DEF Init, PolicyInit, Idle, Accounts, PageAccount, RequestAccount

\* A set without two elements has one at most.
LEMMA AtMostOne ==
  ASSUME NEW S, \A x, y \in S : x = y
  PROVE  Cardinality(S) <= 1
<1>1. CASE S = {}
  BY <1>1, FS_EmptySet
<1>2. ASSUME NEW x \in S
      PROVE  Cardinality(S) <= 1
  <2>1. S = {x}
    BY <1>2
  <2> QED
    BY <2>1, FS_Singleton
<1> QED
  BY <1>1, <1>2

\* What the tables say of a payment is what became of it, for any number of pages
\* and lost responses, when no client executes a checkout again: the status of a
\* checkout and of a request follow the receipt and not the call
\* (checkoutEngine.ts:136-187, checkout.ts:86-124).
THEOREM OutcomeTrue ==
  ASSUME ~Retries
  PROVE  Spec => []OutcomeIsTrue
<1>1. Init => Consistent /\ Accounts
  BY InitOK, InitAccounts
<1>2. Consistent /\ Accounts /\ [Next]_vars => Consistent' /\ Accounts'
  BY StepKeeps, StepAccounts
<1>3. Accounts => OutcomeIsTrue
  <2> SUFFICES ASSUME Accounts PROVE OutcomeIsTrue
    OBVIOUS
  <2>1. ASSUME NEW k \in DOMAIN checkouts
        PROVE  LET sent == {i \in DOMAIN transfers :
                              transfers[i].checkout = k /\ transfers[i].reported} IN
               /\ checkouts[k].status = "SETTLED" => \E i \in sent : transfers[i].status = "LANDED"
               /\ checkouts[k].status \in {"FAILED", "EXPIRED"} => Good(sent) = {}
    BY DEF Accounts, CheckoutAccount, InPlay, Good
  <2>2. ASSUME Quiet, NEW q \in Requests
        PROVE  /\ Good(PaymentsOf(q)) # {} => requests[q].status = "FULFILLED"
               /\ requests[q].status = "FULFILLED" => PaymentsOf(q) # {}
    <3>1. \A k : ~Confirming(k)
      BY <2>2 DEF Quiet, Idle, Confirming
    <3> QED
      BY <3>1 DEF Accounts, TransferAccount, RequestAccount, InPlay, For, Good, PaymentsOf
  <2> QED
    BY <2>1, <2>2 DEF OutcomeIsTrue
<1> QED
  BY <1>1, <1>2, <1>3, PTL DEF Spec

-----------------------------------------------------------------------------
(* A request is paid once. *)

\* The request a page pays is not fulfilled yet.
Unfulfilled(s) ==
  screens[s].flow = "pay" =>
    \A q \in screens[s].of \cap Requests : requests[q].status # "FULFILLED"

Once ==
  /\ \A s \in Screens : Unfulfilled(s)
  /\ \A i, j \in DOMAIN transfers :
       InPlay(i) /\ InPlay(j) /\ For(i) = For(j) /\ For(i) \in Requests => i = j

\* What checkout is for never changes.
SameFor ==
  \A k \in DOMAIN checkouts : k \in DOMAIN checkouts' /\ checkouts'[k].for = checkouts[k].for

\* No transfer is new, and none comes into play.
NoneNew ==
  /\ DOMAIN transfers' = DOMAIN transfers
  /\ \A i \in DOMAIN transfers : /\ transfers'[i].checkout = transfers[i].checkout
                                 /\ InPlay(i)' => InPlay(i)

\* A page goes on, or nothing that it does fulfils a request.
Goes(s) ==
  \/ screens'[s].flow # "pay"
  \/ /\ screens[s].flow = "pay" /\ screens'[s].of = screens[s].of
     /\ \A q \in Requests : requests'[q].status = "FULFILLED" => requests[q].status = "FULFILLED"

\* A step without a new transfer.
LEMMA OnceKept ==
  ASSUME Accounts, Once, SameFor, NoneNew, \A s \in Screens : Goes(s) \/ Unfulfilled(s)'
  PROVE  Once'
<1>1. \A i \in DOMAIN transfers : For(i)' = For(i)
  BY DEF Accounts, TransferAccount, SameFor, NoneNew, For
<1>2. ASSUME NEW s \in Screens
      PROVE  Unfulfilled(s)'
  BY DEF Once, Unfulfilled, Goes
<1> QED
  BY <1>1, <1>2 DEF Once, NoneNew

\* A new transfer pays a request that nothing in play has paid: one that has would
\* have fulfilled it, or its page would be waiting.
LEMMA OnceSent ==
  ASSUME Consistent, Accounts, Once, OnePage, NEW s \in Screens,
         NEW reported \in BOOLEAN, Sends(s, reported), UNCHANGED requests,
         screens'[s] = Idle \/ screens'[s] = [screens[s] EXCEPT !.step = "confirming"],
         UNCHANGED checkouts \/ UpdateStatus(screens[s].checkout, "FAILED")
  PROVE  Once'
<1>1. PICK k : k = screens[s].checkout
  OBVIOUS
<1>2. /\ ScreenOK(s) /\ PageAccount(s) /\ Unfulfilled(s) /\ screens[s] \in Screen
      /\ screens[s].step = "sending"
  BY DEF Consistent, Tables, PolicyTypeOK, Accounts, Once, Sends
<1>3. /\ screens[s].flow = "pay" /\ k \in DOMAIN checkouts
      /\ checkouts[k].for \in screens[s].of
  BY <1>1, <1>2 DEF ScreenOK, PageAccount
<1>4. /\ DOMAIN checkouts' = DOMAIN checkouts
      /\ \A c \in DOMAIN checkouts : c # k => checkouts'[c] = checkouts[c]
      /\ checkouts'[k].for = checkouts[k].for
  BY <1>1, <1>3, UpdateOnly
<1>5. PICK n : SentFirst(n, k, reported)
  BY <1>1, <1>4, SendsNew
<1>6. \A i \in DOMAIN transfers : For(i)' = For(i) /\ InPlay(i)' = InPlay(i)
  BY <1>4, <1>5 DEF Accounts, TransferAccount, SentFirst, For, InPlay
<1>7. For(n)' = checkouts[k].for
  BY <1>4, <1>5 DEF SentFirst, For
<1>8. ASSUME NEW i \in DOMAIN transfers, InPlay(i), For(i) \in Requests
      PROVE  For(i) # checkouts[k].for
  <2>1. ~Confirming(transfers[i].checkout)
    BY <1>2 DEF OnePage, Confirming
  <2> QED
    BY <1>2, <1>3, <1>8, <2>1 DEF Accounts, TransferAccount, Unfulfilled
<1>9. \A i \in DOMAIN transfers' : i = n \/ i \in DOMAIN transfers
  <2>1. OnlyOf(k)
    BY <1>1, <1>4, SendsNew
  <2> QED
    BY <1>5, <2>1 DEF SentFirst, OnlyOf
<1>10. Unfulfilled(s)'
  BY <1>2, <1>3 DEF Unfulfilled, Screen, Idle
<1> QED
  BY <1>6, <1>7, <1>8, <1>9, <1>10 DEF Once, OnePage

\* With one page at work, every step pays a request at most once.
LEMMA StepOnce ==
  ASSUME Consistent, Accounts, Once, OnePage, ~Retries, [Next]_vars
  PROVE  Once'
<1>1. \A t \in Screens : /\ DOMAIN screens = Screens /\ screens[t] \in Screen /\ ScreenOK(t)
                         /\ PageAccount(t) /\ Unfulfilled(t)
  BY DEF Consistent, Tables, PolicyTypeOK, Accounts, Once
<1>2. UNCHANGED checkouts => SameFor
  BY DEF SameFor
<1>3. UNCHANGED <<checkouts, transfers>> => NoneNew
  BY DEF NoneNew, InPlay
<1>4. ASSUME NEW s \in Screens, PolicyStep(s), UNCHANGED checkoutVars
      PROVE  Once'
  <2>1. UNCHANGED <<checkouts, transfers, requests>>
    BY <1>1, <1>4, PolicyStepPage DEF checkoutVars
  <2>2. Goes(s)
    BY <1>1, <1>4, <2>1, PolicyStepPage DEF Goes
  <2> QED
    BY <1>2, <1>3, <2>1, <2>2, OnceKept DEF OnePage
<1>5. CASE \/ \E q \in Requests : RequestMoney(q) \/ CancelRequest(q)
           \/ \E s \in Screens, q \in Requests : ExpireRequest(s, q)
  <2>1. UNCHANGED <<checkouts, transfers, screens>>
    BY <1>5 DEF RequestMoney, CancelRequest, ExpireRequest
  <2>2. \A t \in Screens : Goes(t)
    BY <1>5, <2>1, NoneFulfilled DEF Goes
  <2> QED
    BY <1>2, <1>3, <2>1, <2>2, OnceKept
<1>6. ASSUME NEW s \in Screens, NEW x \in Payables, NEW k \in CheckoutIds, AskQuote(s, x, k)
      PROVE  Once'
  <2>1. UNCHANGED <<checkouts, transfers, requests>> /\ screens'[s].of = {x} /\ Payable(x)
    BY <1>1, <1>6 DEF AskQuote, checkoutVars
  <2>2. Unfulfilled(s)'
    BY <2>1 DEF Unfulfilled, Payable
  <2> QED
    BY <1>2, <1>3, <2>1, <2>2, OnceKept DEF OnePage
<1>7. ASSUME NEW s \in Screens, RefuseQuote(s) \/ BuildQuote(s)
      PROVE  Once'
  <2>1. UNCHANGED <<checkouts, transfers, requests>> /\ screens[s].flow = "pay"
    BY <1>1, <1>7 DEF RefuseQuote, BuildQuote, checkoutVars, ScreenOK
  <2>2. Goes(s)
    <3>1. CASE RefuseQuote(s)
      BY <1>1, <3>1 DEF RefuseQuote, Goes, Idle
    <3>2. CASE BuildQuote(s)
      <4>1. screens'[s] = [screens[s] EXCEPT !.step = "building", !.policy = Len(policies) + 1,
                                             !.expires = now + QuoteSeconds]
        BY <1>1, <3>2 DEF BuildQuote
      <4>2. \A n, e : \A page \in Screen :
              [page EXCEPT !.step = "building", !.policy = n, !.expires = e].of = page.of
        BY DEF Screen
      <4> QED
        BY <1>1, <2>1, <4>1, <4>2 DEF Goes
    <3> QED
      BY <1>7, <3>1, <3>2
  <2> QED
    BY <1>2, <1>3, <2>1, <2>2, OnceKept DEF OnePage
<1>8. ASSUME NEW s \in Screens,
             InsertCheckout(s) \/ ExecuteCheckout(s) \/ ExecuteExpired(s) \/ SendRefused(s)
      PROVE  Once'
  <2>1. /\ UNCHANGED <<transfers, requests>> /\ screens[s].flow = "pay"
        /\ \/ screens'[s] = Idle
           \/ \E step : screens'[s] = [screens[s] EXCEPT !.step = step]
    BY <1>1, <1>8 DEF InsertCheckout, ExecuteCheckout, ExecuteExpired, SendRefused, Fails,
                      checkoutVars, ScreenOK
  <2>2. Goes(s)
    <3>1. \A step : \A page \in Screen : [page EXCEPT !.step = step].of = page.of
      BY DEF Screen
    <3>2. CASE screens'[s] = Idle
      BY <3>2 DEF Goes, Idle
    <3>3. ASSUME NEW step, screens'[s] = [screens[s] EXCEPT !.step = step]
          PROVE  Goes(s)
      <4>1. screens'[s].of = screens[s].of
        BY <1>1, <3>1, <3>3
      <4> QED
        BY <2>1, <4>1 DEF Goes
    <3> QED
      BY <2>1, <3>2, <3>3
  <2>3. SameFor
    <3>1. CASE InsertCheckout(s)
      BY <1>1, <2>1, <3>1 DEF InsertCheckout, PageAccount, SameFor
    <3>2. CASE ExecuteCheckout(s)
      BY <3>2 DEF ExecuteCheckout, SameFor
    <3>3. CASE ExecuteExpired(s) \/ SendRefused(s)
      <4>1. PICK status : UpdateStatus(screens[s].checkout, status)
        BY <3>3 DEF ExecuteExpired, SendRefused, Fails
      <4> QED
        BY <4>1, UpdateOnly DEF SameFor
    <3> QED
      BY <1>8, <3>1, <3>2, <3>3
  <2>4. NoneNew
    BY <2>1 DEF NoneNew, InPlay
  <2> QED
    BY <2>2, <2>3, <2>4, OnceKept DEF OnePage
<1>9. ASSUME NEW s \in Screens, SendAccepted(s) \/ ResponseLost(s)
      PROVE  Once'
  <2>1. CASE SendAccepted(s)
    <3>1. PICK reported \in BOOLEAN : reported = TRUE /\ Sends(s, reported)
      BY <2>1 DEF SendAccepted
    <3> QED
      BY <1>1, <2>1, <3>1, OnceSent DEF SendAccepted
  <2>2. CASE ResponseLost(s)
    <3>1. PICK reported \in BOOLEAN : reported = FALSE /\ Sends(s, reported)
      BY <2>2 DEF ResponseLost
    <3> QED
      BY <1>1, <2>2, <3>1, OnceSent DEF ResponseLost, Fails
  <2> QED
    BY <1>9, <2>1, <2>2
<1>10. ASSUME NEW s \in Screens, ReceiptLanded(s) \/ ReceiptReverted(s) \/ ReceiptTimeout(s)
       PROVE  Once'
  <2>1. screens'[s] = Idle /\ UNCHANGED transfers
    BY <1>1, <1>10 DEF ReceiptLanded, ReceiptReverted, Fails, ReceiptTimeout, AfterTimeout,
                       BookSent, checkoutVars
  <2>2. UNCHANGED checkouts \/ \E status : UpdateStatus(screens[s].checkout, status)
    BY <1>10 DEF ReceiptLanded, ReceiptReverted, Fails, ReceiptTimeout
  <2>3. SameFor
    BY <2>2, UpdateOnly DEF SameFor
  <2>4. NoneNew /\ Goes(s)
    BY <2>1 DEF NoneNew, InPlay, Goes, Idle
  <2> QED
    BY <2>3, <2>4, OnceKept DEF OnePage
<1>11. ASSUME NEW n \in DOMAIN transfers, Mine(n)
       PROVE  Once'
  <2>1. UNCHANGED <<checkouts, requests, screens>> /\ transfers[n].status = "SENT"
    BY <1>11 DEF Mine
  <2>2. PICK status : transfers' = [transfers EXCEPT ![n].status = status]
    BY <1>11 DEF Mine
  <2>3. \A i \in DOMAIN transfers : transfers[i] \in Transfer
    BY LenProperties, ElementOfSeq DEF Consistent
  <2>4. NoneNew
    BY <2>1, <2>2, <2>3 DEF NoneNew, InPlay, Transfer
  <2>5. \A t \in Screens : Goes(t)
    BY <2>1 DEF Goes
  <2> QED
    BY <1>2, <2>1, <2>4, <2>5, OnceKept
<1>12. CASE UNCHANGED <<checkouts, transfers, requests, screens>>
  <2>1. \A t \in Screens : Goes(t)
    BY <1>12 DEF Goes
  <2> QED
    BY <1>2, <1>3, <1>12, <2>1, OnceKept
<1>13. (Tick /\ UNCHANGED checkoutVars) \/ UNCHANGED vars
         => UNCHANGED <<checkouts, transfers, requests, screens>>
  BY DEF Tick, vars, checkoutVars, policyVars
<1>14. ASSUME NEW s \in Screens, PayStep(s)
       PROVE  Once'
  BY <1>5, <1>6, <1>7, <1>8, <1>9, <1>10, <1>14 DEF PayStep
<1> QED
  BY <1>4, <1>5, <1>11, <1>12, <1>13, <1>14 DEF Next

\* A payment request is paid once, and a checkout too, with one page at work and
\* no client that executes a checkout again: /pay takes a request that is PENDING
\* (paymentRequests.ts:98-105), and what was sent and has not failed has made it
\* FULFILLED, or its page is still waiting for the receipt.
THEOREM PaidOnce ==
  ASSUME OnePage, ~Retries
  PROVE  Spec => []NothingPaidTwice
<1>1. Init => Consistent /\ Accounts /\ Once
  <2> SUFFICES ASSUME Init PROVE Once
    BY InitOK, InitAccounts
  <2> QED
    BY DEF Init, PolicyInit, Idle, Once, Unfulfilled
<1>2. Consistent /\ Accounts /\ Once /\ [Next]_vars => Consistent' /\ Accounts' /\ Once'
  BY StepKeeps, StepAccounts, StepOnce
<1>3. Accounts /\ Once => NothingPaidTwice
  <2> SUFFICES ASSUME Accounts, Once PROVE NothingPaidTwice
    OBVIOUS
  <2>1. ASSUME NEW q \in Requests
        PROVE  Cardinality(Good(PaymentsOf(q))) <= 1
    <3>1. \A i, j \in Good(PaymentsOf(q)) : i = j
      BY DEF Once, Good, PaymentsOf, InPlay, For
    <3> QED
      BY <3>1, AtMostOne
  <2>2. ASSUME NEW k \in DOMAIN checkouts
        PROVE  Cardinality(Good({i \in DOMAIN transfers : transfers[i].checkout = k})) <= 1
    <3>1. \A i, j \in Good({i \in DOMAIN transfers : transfers[i].checkout = k}) : i = j
      BY DEF Accounts, TransferAccount, Good
    <3> QED
      BY <3>1, AtMostOne
  <2> QED
    BY <2>1, <2>2 DEF NothingPaidTwice
<1> QED
  BY <1>1, <1>2, <1>3, PTL DEF Spec
=============================================================================
