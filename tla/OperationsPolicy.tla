-------------------------- MODULE OperationsPolicy --------------------------
(***************************************************************************)
(* The one policy that the agent signer of a wallet holds, and the tables  *)
(* it is built from: engine/operationsPolicy.ts, persistence/grants.ts,    *)
(* http/routes/obligations.ts, and the screens that build, attach and      *)
(* confirm a policy (NewPayment.tsx, Settings.tsx, reattachSigners.ts).    *)
(*                                                                         *)
(* One user: every query is restricted to the rows of one user.  A flow    *)
(* reads the tables and creates a policy (the server), strips the wallet   *)
(* of its signers, adds the signer with the new policy (two signed taps),  *)
(* and confirms (the server again).  What runs between two awaits is one   *)
(* step.  A rule stands for a payee and an expiry; that its amount is the  *)
(* right one is not modelled.                                              *)
(***************************************************************************)
EXTENDS Integers, Sequences, FiniteSetsExt

CONSTANTS Obligations,    \* obligation ids
          Payables,       \* what a checkout may be for: requests and merchants
          PayeeOf,        \* the payout address of an obligation or a payable
          CheckoutIds,    \* the uuids createCheckout() may draw
          Screens,        \* pages of the application that may be at work at once
          RenewalWindow,  \* RENEWAL_WARNING_WINDOW_MS, in ticks
          Horizon,        \* bound: ticks of the clock
          MaxPolicies,    \* bound: policies ever created
          None            \* absence of an id

ASSUME PolicyAssumption ==
  /\ Obligations \cap Payables = {}
  /\ None \notin Obligations \cup Payables \cup CheckoutIds
  /\ RenewalWindow \in Nat /\ Horizon \in Nat /\ MaxPolicies \in Nat

VARIABLES obligations,   \* status of each obligation
          grants,        \* table grants (kind CYCLE), in the order of creation
          policies,      \* the rules of each policy created at Privy, by id
          attached,      \* the policy the wallet's agent signer holds, or 0
          checkouts,     \* table checkouts
          screens,       \* what each page is doing
          interrupted,   \* a flow was left half done and none has completed since
          now            \* the clock

policyVars == <<obligations, grants, policies, attached, interrupted>>

Rule == [payee : {PayeeOf[x] : x \in Obligations \cup Payables}, expires : Nat]

Grant == [obligation : Obligations, policy : Nat, expires : Nat,
          status : {"ACTIVE", "REVOKED"}]

Checkout == [status : {"PENDING_APPROVAL", "SETTLED", "FAILED", "EXPIRED"},
             for : Payables, policy : Nat, expires : Nat]

Screen == [flow : {"none", "create", "renew", "cancel", "kill", "pay"},
           step : {"idle", "pricing", "building", "built", "detached", "attached",
                   "revoking", "sending", "confirming"},
           of : SUBSET (Obligations \cup Payables), checkout : CheckoutIds \cup {None},
           policy : Nat, expires : Nat]

PolicyTypeOK ==
  /\ obligations \in [Obligations -> {"ABSENT", "ACTIVE", "PAUSED", "CANCELLED"}]
  /\ grants \in Seq(Grant)
  /\ policies \in Seq(SUBSET Rule)
  /\ attached \in 0 .. Len(policies)
  /\ DOMAIN checkouts \subseteq CheckoutIds
  /\ checkouts \in [DOMAIN checkouts -> Checkout]
  /\ screens \in [Screens -> Screen]
  /\ interrupted \in BOOLEAN
  /\ now \in 0 .. Horizon

Idle == [flow |-> "none", step |-> "idle", of |-> {}, checkout |-> None,
         policy |-> 0, expires |-> 0]

PolicyInit ==
  /\ obligations = [o \in Obligations |-> "ABSENT"]
  /\ grants = << >>
  /\ policies = << >>
  /\ attached = 0
  /\ checkouts = [k \in {} |-> 0]
  /\ screens = [s \in Screens |-> Idle]
  /\ interrupted = FALSE
  /\ now = 0

-----------------------------------------------------------------------------
(* rebuildOperationsPolicy() and the bookkeeping of persistence/grants.ts. *)

RuleFor(x, e) == [payee |-> PayeeOf[x], expires |-> e]

\* listActiveGrantsForUser without its excludingObligationId.
FaultyListActiveGrants(excluded) ==
  {i \in DOMAIN grants : grants[i].status = "ACTIVE" /\ now < grants[i].expires}

\* listActiveGrantsForUser: ACTIVE and unexpired, whatever the obligation's status.
ListActiveGrants(excluded) ==
  {i \in DOMAIN grants : /\ grants[i].status = "ACTIVE" /\ now < grants[i].expires
                         /\ grants[i].obligation \notin excluded}

ListPendingCheckouts == {k \in DOMAIN checkouts : checkouts[k].status = "PENDING_APPROVAL"}

\* A policy with the new rule alone, as before signers were found to hold one policy.
FaultyFullSet(extra, excluded) == extra

\* The complete set of rules of a new policy.
FullSet(extra, excluded) ==
  extra \cup {RuleFor(grants[i].obligation, grants[i].expires) : i \in ListActiveGrants(excluded)}
        \cup {RuleFor(checkouts[k].for, checkouts[k].expires) : k \in ListPendingCheckouts}

\* Creates the policy; its id is the next one.
RebuildOperationsPolicy(extra, excluded) ==
  /\ Len(policies) < MaxPolicies
  /\ policies' = Append(policies, FullSet(extra, excluded))

\* Whether the signer's policy lets it pay x now.
Allows(x) ==
  /\ attached # 0
  /\ \E r \in policies[attached] : r.payee = PayeeOf[x] /\ now < r.expires

ActiveOf(o) == {i \in DOMAIN grants : grants[i].obligation = o /\ grants[i].status = "ACTIVE"}

\* getActiveGrant, newest first, and revokeGrant.
RevokeActiveGrant(gs, o) ==
  IF ActiveOf(o) = {} THEN gs ELSE [gs EXCEPT ![Max(ActiveOf(o))].status = "REVOKED"]

\* Forgets the other obligations' rows.
FaultyRetarget(gs, p) == gs

\* retargetActiveGrantsPolicyId.
Retarget(gs, p) ==
  [i \in DOMAIN gs |-> IF gs[i].status = "ACTIVE" THEN [gs[i] EXCEPT !.policy = p] ELSE gs[i]]

-----------------------------------------------------------------------------
(* The flows of NewPayment.tsx and Settings.tsx, with their routes. *)

Begin(s, flow, of, e) ==
  /\ screens[s] = Idle
  /\ screens' = [screens EXCEPT ![s] =
                   [flow |-> flow, step |-> "built", of |-> of, checkout |-> None,
                    policy |-> IF flow = "kill" THEN 0 ELSE Len(policies) + 1, expires |-> e]]

\* POST /users/:id/obligations: the row, then the policy with its rule.
CreateObligation(s, o) ==
  /\ obligations[o] = "ABSENT"
  /\ obligations' = [obligations EXCEPT ![o] = "ACTIVE"]
  /\ \E e \in now + 1 .. Horizon + 1 :
       /\ Begin(s, "create", {o}, e)
       /\ RebuildOperationsPolicy({RuleFor(o, e)}, {})
  /\ UNCHANGED <<grants, attached, checkouts, interrupted, now>>

Expiries(is) == {grants[i].expires : i \in is}

\* The Renew button: the window lapses soon or has, or there is no grant.
NeedsRenewal(o) == \A e \in Expiries(ActiveOf(o)) : e - now < RenewalWindow

\* POST /obligations/:id/renew.  Due dates only advance, and the expiry with them.
RenewObligation(s, o) ==
  /\ obligations[o] = "ACTIVE"
  /\ NeedsRenewal(o)
  /\ \E e \in 1 .. Horizon + 1 :
       /\ \A i \in DOMAIN grants : grants[i].obligation = o => grants[i].expires <= e
       /\ Begin(s, "renew", {o}, e)
       /\ RebuildOperationsPolicy({RuleFor(o, e)}, {o})
  /\ UNCHANGED <<obligations, grants, attached, checkouts, interrupted, now>>

\* POST /obligations/:id/cancel: a policy without the obligation's rule.
CancelObligation(s, o) ==
  /\ obligations[o] = "ACTIVE"
  /\ Begin(s, "cancel", {o}, 0)
  /\ RebuildOperationsPolicy({}, {o})
  /\ UNCHANGED <<obligations, grants, attached, checkouts, interrupted, now>>

\* The kill switch, confirmed: everything the page shows as ACTIVE.
ConfirmKill(s) ==
  /\ Begin(s, "kill", {o \in Obligations : obligations[o] = "ACTIVE"}, 0)
  /\ UNCHANGED <<policyVars, checkouts, now>>

\* removeSigners(): strips the wallet of every signer.
RemoveSigners(s) ==
  /\ screens[s].step = "built"
  /\ attached' = 0
  /\ screens' = [screens EXCEPT ![s].step =
                   IF screens[s].flow = "kill" THEN "revoking" ELSE "detached"]
  /\ UNCHANGED <<obligations, grants, policies, checkouts, interrupted, now>>

\* addSigners(), which refuses a signer that is attached already.
AddSigners(s) ==
  /\ screens[s].step = "detached"
  /\ attached = 0
  /\ attached' = screens[s].policy
  /\ interrupted' = FALSE
  /\ screens' = [screens EXCEPT ![s].step = "attached"]
  /\ UNCHANGED <<obligations, grants, policies, checkouts, now>>

\* POST /obligations/:id/grant, after a creation or a renewal.
GrantRoute(s) ==
  /\ screens[s].step = "attached"
  /\ screens[s].flow \in {"create", "renew"}
  /\ \E o \in screens[s].of :
       grants' = Append(Retarget(grants, screens[s].policy),
                        [obligation |-> o, policy |-> screens[s].policy,
                         expires |-> screens[s].expires, status |-> "ACTIVE"])
  /\ screens' = [screens EXCEPT ![s] = Idle]
  /\ UNCHANGED <<obligations, policies, attached, checkouts, interrupted, now>>

\* POST /obligations/:id/cancel/confirm.
CancelConfirm(s) ==
  /\ screens[s].step = "attached"
  /\ screens[s].flow = "cancel"
  /\ \E o \in screens[s].of :
       /\ obligations' = [obligations EXCEPT ![o] = "CANCELLED"]
       /\ grants' = Retarget(RevokeActiveGrant(grants, o), screens[s].policy)
  /\ screens' = [screens EXCEPT ![s] = Idle]
  /\ UNCHANGED <<policies, attached, checkouts, interrupted, now>>

\* POST /obligations/:id/kill-switch, for one of the obligations at a time.
KillSwitchRoute(s) ==
  /\ screens[s].step = "revoking"
  /\ \E o \in screens[s].of :
       /\ obligations' = [obligations EXCEPT ![o] = "PAUSED"]
       /\ grants' = RevokeActiveGrant(grants, o)
       /\ screens' = [screens EXCEPT ![s].of = @ \ {o}]
  /\ UNCHANGED <<policies, attached, checkouts, interrupted, now>>

\* All of them have answered.
Killed(s) ==
  /\ screens[s].step = "revoking"
  /\ screens[s].of = {}
  /\ screens' = [screens EXCEPT ![s] = Idle]
  /\ UNCHANGED <<policyVars, checkouts, now>>

\* The user leaves, or a call of the page fails: the rest does not happen.
GiveUp(s) ==
  /\ screens[s].step \in {"pricing", "building", "built", "detached", "attached", "revoking"}
  /\ screens' = [screens EXCEPT ![s] = Idle]
  /\ interrupted' = (interrupted \/ screens[s].step \in {"detached", "attached", "revoking"})
  /\ UNCHANGED <<obligations, grants, policies, attached, checkouts, now>>

Tick ==
  /\ now < Horizon
  /\ now' = now + 1
  /\ UNCHANGED <<policyVars, checkouts, screens>>

PolicyStep(s) ==
  \/ \E o \in Obligations : CreateObligation(s, o)
  \/ \E o \in Obligations : RenewObligation(s, o)
  \/ \E o \in Obligations : CancelObligation(s, o)
  \/ ConfirmKill(s)
  \/ RemoveSigners(s)
  \/ AddSigners(s)
  \/ GrantRoute(s)
  \/ CancelConfirm(s)
  \/ KillSwitchRoute(s)
  \/ Killed(s)
  \/ GiveUp(s)
=============================================================================
