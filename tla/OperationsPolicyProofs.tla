----------------------- MODULE OperationsPolicyProofs -----------------------
(***************************************************************************)
(* The flows of OperationsPolicy, for any number of obligations, payables  *)
(* and pages: what the proofs about Checkouts and Continuity share.        *)
(***************************************************************************)
EXTENDS OperationsPolicy, SequenceTheorems, WellFoundedInduction, TLAPS

\* What a page is doing fits its flow, and the ids it holds exist.
ScreenOK(s) ==
  /\ screens[s].policy <= Len(policies)
  /\ screens[s].flow \in {"create", "renew", "cancel", "kill"} => screens[s].of \subseteq Obligations
  /\ screens[s].step \in {"pricing", "building", "sending", "confirming"} => screens[s].flow = "pay"
  /\ screens[s].flow = "pay" =>
       /\ screens[s].of \subseteq Payables
       /\ screens[s].checkout \in CheckoutIds
       /\ screens[s].step \notin {"pricing", "building"} => screens[s].checkout \in DOMAIN checkouts

\* Every ACTIVE grant names the same policy.
OneRecorded ==
  \A i, j \in DOMAIN grants :
    grants[i].status = "ACTIVE" /\ grants[j].status = "ACTIVE" => grants[i].policy = grants[j].policy

\* The tables are well typed and agree with what the pages hold.
Tables ==
  /\ PolicyTypeOK
  /\ \A s \in Screens : ScreenOK(s)
  /\ OneRecorded

\* A step that forgets no policy and no checkout.
Grows ==
  /\ Len(policies) \in Nat /\ Len(policies') \in Nat /\ Len(policies) <= Len(policies')
  /\ DOMAIN checkouts \subseteq DOMAIN checkouts'

-----------------------------------------------------------------------------
(* Sequences of grants. *)

\* retargetActiveGrantsPolicyId touches the policy of ACTIVE rows and nothing else.
LEMMA RetargetType ==
  ASSUME NEW gs \in Seq(Grant), NEW p \in Nat
  PROVE  /\ Retarget(gs, p) \in Seq(Grant)
         /\ \A i \in DOMAIN Retarget(gs, p) :
              Retarget(gs, p)[i].status = "ACTIVE" => Retarget(gs, p)[i].policy = p
<1>1. DOMAIN gs = 1 .. Len(gs) /\ Len(gs) \in Nat
  BY LenProperties
<1>2. \A i \in DOMAIN gs : gs[i] \in Grant
  BY ElementOfSeq, <1>1
<1>3. \A i \in DOMAIN gs : [gs[i] EXCEPT !.policy = p] \in Grant
  BY <1>2 DEF Grant
<1>4. Retarget(gs, p) \in [1 .. Len(gs) -> Grant]
  BY <1>1, <1>2, <1>3 DEF Retarget
<1>5. Retarget(gs, p) \in Seq(Grant)
  BY <1>1, <1>4, IsASeq
<1>6. \A i \in DOMAIN Retarget(gs, p) :
        Retarget(gs, p)[i].status = "ACTIVE" => Retarget(gs, p)[i].policy = p
  BY <1>2 DEF Retarget, Grant
<1> QED
  BY <1>5, <1>6

\* revokeGrant makes no row ACTIVE.
LEMMA RevokeType ==
  ASSUME NEW gs \in Seq(Grant), NEW o
  PROVE  /\ RevokeActiveGrant(gs, o) \in Seq(Grant)
         /\ DOMAIN RevokeActiveGrant(gs, o) = DOMAIN gs
         /\ \A i \in DOMAIN gs :
              RevokeActiveGrant(gs, o)[i].status = "ACTIVE" => RevokeActiveGrant(gs, o)[i] = gs[i]
<1> DEFINE m == Max(ActiveOf(o))
<1>1. DOMAIN gs = 1 .. Len(gs) /\ Len(gs) \in Nat
  BY LenProperties
<1>2. \A i \in DOMAIN gs : gs[i] \in Grant
  BY ElementOfSeq, <1>1
<1>3. \A i \in DOMAIN gs : [gs[i] EXCEPT !.status = "REVOKED"] \in Grant
  BY <1>2 DEF Grant
<1> HIDE DEF m
<1>4. [gs EXCEPT ![m].status = "REVOKED"] \in [1 .. Len(gs) -> Grant]
  BY <1>1, <1>2, <1>3
<1>5. [gs EXCEPT ![m].status = "REVOKED"] \in Seq(Grant)
  BY <1>1, <1>4, IsASeq
<1>6. \A i \in DOMAIN gs : [gs EXCEPT ![m].status = "REVOKED"][i].status = "ACTIVE"
                             => [gs EXCEPT ![m].status = "REVOKED"][i] = gs[i]
  BY <1>1, <1>2 DEF Grant
<1>7. RevokeActiveGrant(gs, o) \in {gs, [gs EXCEPT ![m].status = "REVOKED"]}
  BY DEF RevokeActiveGrant, m
<1> QED
  BY <1>1, <1>5, <1>6, <1>7

-----------------------------------------------------------------------------
(* Steps that write little. *)

\* A page whose work is unchanged stays consistent while the tables grow.
LEMMA OthersOK ==
  ASSUME Tables, NEW s \in Screens,
         \A t \in Screens \ {s} : screens'[t] = screens[t],
         ScreenOK(s)',
         Grows
  PROVE  \A t \in Screens : ScreenOK(t)'
<1>1. ASSUME NEW t \in Screens, t # s
      PROVE  ScreenOK(t)'
  <2>1. screens'[t] = screens[t] /\ ScreenOK(t) /\ screens[t].policy \in Nat
    BY <1>1 DEF Tables, PolicyTypeOK, Screen
  <2> QED
    BY <2>1 DEF ScreenOK, Grows
<1> QED
  BY <1>1

\* A page that has finished is consistent.
LEMMA IdleOK ==
  ASSUME Tables, NEW s \in Screens, screens' = [screens EXCEPT ![s] = Idle],
         Grows
  PROVE  /\ screens' \in [Screens -> Screen]
         /\ \A t \in Screens : ScreenOK(t)'
<1>1. screens' \in [Screens -> Screen] /\ screens'[s] = Idle
  BY DEF Tables, PolicyTypeOK, Idle, Screen
<1>2. ScreenOK(s)'
  BY <1>1 DEF ScreenOK, Idle, Grows
<1>3. \A t \in Screens \ {s} : screens'[t] = screens[t]
  BY DEF Tables, PolicyTypeOK
<1> QED
  BY <1>1, <1>2, <1>3, OthersOK

\* A page that goes on to its next step.
LEMMA StepOK ==
  ASSUME Tables, NEW s \in Screens,
         NEW step \in {"built", "detached", "attached", "revoking", "sending", "confirming"},
         screens' = [screens EXCEPT ![s].step = step],
         step \in {"sending", "confirming"} => screens[s].flow = "pay",
         screens[s].flow = "pay" => screens[s].checkout \in DOMAIN checkouts',
         Grows
  PROVE  /\ screens' \in [Screens -> Screen]
         /\ \A t \in Screens : ScreenOK(t)'
<1>1. screens[s] \in Screen /\ ScreenOK(s) /\ Len(policies) \in Nat
  BY DEF Tables, PolicyTypeOK
<1>2. screens'[s] = [screens[s] EXCEPT !.step = step]
  BY DEF Tables, PolicyTypeOK
<1>3. screens'[s] \in Screen
  BY <1>1, <1>2 DEF Screen
<1>4. \A t \in Screens \ {s} : screens'[t] = screens[t]
  BY DEF Tables, PolicyTypeOK
<1>5. screens' \in [Screens -> Screen]
  BY <1>3, <1>4 DEF Tables, PolicyTypeOK
<1>6. ScreenOK(s)'
  BY <1>1, <1>2 DEF ScreenOK, Screen, Grows
<1> QED
  BY <1>4, <1>5, <1>6, OthersOK

\* The tables grow when they stay as they are.
LEMMA SameGrows ==
  ASSUME Tables, UNCHANGED <<policies, checkouts>>
  PROVE  Grows
  BY LenProperties DEF Tables, PolicyTypeOK, Grows

\* A new policy is a set of rules.
LEMMA RebuildType ==
  ASSUME Tables, NEW extra \in SUBSET Rule, NEW excluded,
         RebuildOperationsPolicy(extra, excluded)
  PROVE  policies' \in Seq(SUBSET Rule) /\ Len(policies') = Len(policies) + 1
<1>1. \A i \in DOMAIN grants : RuleFor(grants[i].obligation, grants[i].expires) \in Rule
  <2>1. \A i \in DOMAIN grants : grants[i] \in Grant
    BY LenProperties, ElementOfSeq DEF Tables, PolicyTypeOK
  <2> QED
    BY <2>1 DEF Grant, Rule, RuleFor
<1>2. \A k \in DOMAIN checkouts : RuleFor(checkouts[k].for, checkouts[k].expires) \in Rule
  BY DEF Tables, PolicyTypeOK, Checkout, Rule, RuleFor
<1>3. FullSet(extra, excluded) \in SUBSET Rule
  BY <1>1, <1>2 DEF FullSet, ListActiveGrants, ListPendingCheckouts
<1>4. policies \in Seq(SUBSET Rule) /\ policies' = Append(policies, FullSet(extra, excluded))
  BY DEF Tables, PolicyTypeOK, RebuildOperationsPolicy
<1> QED
  BY <1>3, <1>4, AppendProperties

-----------------------------------------------------------------------------
(* The flows of OperationsPolicy. *)

\* A flow that has its policy.
LEMMA BeginType ==
  ASSUME Tables, NEW s \in Screens, NEW flow \in {"create", "renew", "cancel"},
         NEW of \in SUBSET Obligations, NEW e \in Nat, Begin(s, flow, of, e),
         policies' \in Seq(SUBSET Rule), Len(policies') = Len(policies) + 1,
         UNCHANGED checkouts
  PROVE  /\ screens' \in [Screens -> Screen]
         /\ \A t \in Screens : ScreenOK(t)'
<1> DEFINE page == [flow |-> flow, step |-> "built", of |-> of, checkout |-> None,
                    policy |-> Len(policies) + 1, expires |-> e]
<1>1. Len(policies) \in Nat /\ Len(policies') \in Nat
  BY LenProperties DEF Tables, PolicyTypeOK
<1>2. page \in Screen
  BY <1>1 DEF Screen
<1>3. screens' = [screens EXCEPT ![s] = page]
  BY DEF Begin
<1>4. screens' \in [Screens -> Screen] /\ screens'[s] = page
      /\ \A t \in Screens \ {s} : screens'[t] = screens[t]
  <2> HIDE DEF page
  <2> QED
    BY <1>2, <1>3 DEF Tables, PolicyTypeOK
<1>5. ScreenOK(s)'
  BY <1>1, <1>4 DEF ScreenOK
<1>6. Grows
  BY <1>1 DEF Grows
<1> QED
  BY <1>4, <1>5, <1>6, OthersOK

\* The three flows that build a policy, and the kill switch.
LEMMA BeginFlowsOK ==
  ASSUME Tables, NEW s \in Screens,
         \/ \E o \in Obligations :
              CreateObligation(s, o) \/ RenewObligation(s, o) \/ CancelObligation(s, o)
         \/ ConfirmKill(s)
  PROVE  Tables'
<1>1. ASSUME NEW o \in Obligations, NEW e \in Nat
      PROVE  {RuleFor(o, e)} \in SUBSET Rule
  BY DEF Rule, RuleFor
<1>2. now \in Nat /\ Len(policies) \in Nat /\ Horizon \in Nat
  BY LenProperties, PolicyAssumption DEF Tables, PolicyTypeOK
<1>3. ASSUME NEW o \in Obligations, CreateObligation(s, o)
      PROVE  Tables'
  <2>1. PICK e \in now + 1 .. Horizon + 1 :
          Begin(s, "create", {o}, e) /\ RebuildOperationsPolicy({RuleFor(o, e)}, {})
    BY <1>3 DEF CreateObligation
  <2>2. e \in Nat
    BY <1>2
  <2>3. policies' \in Seq(SUBSET Rule) /\ Len(policies') = Len(policies) + 1
    BY <1>1, <2>1, <2>2, RebuildType
  <2>4. screens' \in [Screens -> Screen] /\ \A t \in Screens : ScreenOK(t)'
    BY <1>3, <2>1, <2>2, <2>3, BeginType DEF CreateObligation
  <2>5. obligations' \in [Obligations -> {"ABSENT", "ACTIVE", "PAUSED", "CANCELLED"}]
    BY <1>3 DEF CreateObligation, Tables, PolicyTypeOK
  <2> QED
    BY <1>2, <1>3, <2>3, <2>4, <2>5
    DEF CreateObligation, Tables, PolicyTypeOK, OneRecorded
<1>4. ASSUME NEW o \in Obligations, RenewObligation(s, o)
      PROVE  Tables'
  <2>1. PICK e \in 1 .. Horizon + 1 :
          Begin(s, "renew", {o}, e) /\ RebuildOperationsPolicy({RuleFor(o, e)}, {o})
    BY <1>4 DEF RenewObligation
  <2>2. e \in Nat
    BY <1>2
  <2>3. policies' \in Seq(SUBSET Rule) /\ Len(policies') = Len(policies) + 1
    BY <1>1, <2>1, <2>2, RebuildType
  <2>4. screens' \in [Screens -> Screen] /\ \A t \in Screens : ScreenOK(t)'
    BY <1>4, <2>1, <2>2, <2>3, BeginType DEF RenewObligation
  <2> QED
    BY <1>2, <1>4, <2>3, <2>4
    DEF RenewObligation, Tables, PolicyTypeOK, OneRecorded
<1>5. ASSUME NEW o \in Obligations, CancelObligation(s, o)
      PROVE  Tables'
  <2>1. Begin(s, "cancel", {o}, 0) /\ RebuildOperationsPolicy({}, {o})
    BY <1>5 DEF CancelObligation
  <2>2. policies' \in Seq(SUBSET Rule) /\ Len(policies') = Len(policies) + 1
    BY <2>1, RebuildType
  <2>3. screens' \in [Screens -> Screen] /\ \A t \in Screens : ScreenOK(t)'
    BY <1>5, <2>1, <2>2, BeginType DEF CancelObligation
  <2> QED
    BY <1>2, <1>5, <2>2, <2>3
    DEF CancelObligation, Tables, PolicyTypeOK, OneRecorded
<1>6. ASSUME ConfirmKill(s)
      PROVE  Tables'
  <2> DEFINE active == {o \in Obligations : obligations[o] = "ACTIVE"}
             page == [flow |-> "kill", step |-> "built", of |-> active, checkout |-> None,
                      policy |-> 0, expires |-> 0]
  <2>1. screens' = [screens EXCEPT ![s] = page]
    BY <1>6 DEF ConfirmKill, Begin
  <2>2. page \in Screen
    BY DEF Screen
  <2>3. screens' \in [Screens -> Screen] /\ screens'[s] = page
        /\ \A t \in Screens \ {s} : screens'[t] = screens[t]
    <3> HIDE DEF page
    <3> QED
      BY <2>1, <2>2 DEF Tables, PolicyTypeOK
  <2>4. ScreenOK(s)'
    BY <1>2, <1>6, <2>3 DEF ScreenOK, ConfirmKill, policyVars
  <2>5. \A t \in Screens : ScreenOK(t)'
    <3>1. Grows
      BY <1>6, SameGrows DEF ConfirmKill, policyVars
    <3> QED
      BY <2>3, <2>4, <3>1, OthersOK
  <2> QED
    BY <1>6, <2>3, <2>5
    DEF ConfirmKill, policyVars, Tables, PolicyTypeOK, OneRecorded
<1> QED
  BY <1>3, <1>4, <1>5, <1>6

\* Changing the signers of the wallet.
LEMMA SignersOK ==
  ASSUME Tables, NEW s \in Screens,
         RemoveSigners(s) \/ AddSigners(s)
  PROVE  Tables'
<1>1. screens[s] \in Screen /\ ScreenOK(s) /\ Len(policies) \in Nat
  BY LenProperties DEF Tables, PolicyTypeOK
<1>2. CASE RemoveSigners(s)
  <2> DEFINE step == IF screens[s].flow = "kill" THEN "revoking" ELSE "detached"
  <2>1. screens' = [screens EXCEPT ![s].step = step] /\ step \in {"detached", "revoking"}
    BY <1>2 DEF RemoveSigners
  <2>2. screens[s].flow = "pay" => screens[s].checkout \in DOMAIN checkouts'
    BY <1>1, <1>2 DEF RemoveSigners, ScreenOK
  <2>3. screens' \in [Screens -> Screen] /\ \A t \in Screens : ScreenOK(t)'
    <3> HIDE DEF step
    <3>1. Grows
      BY <1>2, SameGrows DEF RemoveSigners
    <3> QED
      BY <2>1, <2>2, <3>1, StepOK
  <2> QED
    BY <1>1, <1>2, <2>3
    DEF RemoveSigners, Tables, PolicyTypeOK, OneRecorded
<1>3. CASE AddSigners(s)
  <2>1. screens[s].flow = "pay" => screens[s].checkout \in DOMAIN checkouts'
    BY <1>1, <1>3 DEF AddSigners, ScreenOK
  <2>2. screens' \in [Screens -> Screen] /\ \A t \in Screens : ScreenOK(t)'
    <3>1. Grows /\ screens' = [screens EXCEPT ![s].step = "attached"]
      BY <1>3, SameGrows DEF AddSigners
    <3> QED
      BY <2>1, <3>1, StepOK
  <2>3. attached' \in 0 .. Len(policies)
    BY <1>1, <1>3 DEF AddSigners, ScreenOK, Screen
  <2> QED
    BY <1>3, <2>2, <2>3
    DEF AddSigners, Tables, PolicyTypeOK, OneRecorded
<1> QED
  BY <1>2, <1>3

\* A retarget leaves one policy among the ACTIVE rows.
LEMMA RetargetSame ==
  ASSUME NEW gs \in Seq(Grant), NEW p \in Nat, grants' = Retarget(gs, p)
  PROVE  grants' \in Seq(Grant) /\ OneRecorded'
<1>1. /\ grants' \in Seq(Grant)
      /\ \A i \in DOMAIN grants' : grants'[i].status = "ACTIVE" => grants'[i].policy = p
  BY RetargetType
<1> QED
  BY <1>1 DEF OneRecorded

\* The three routes that confirm a flow.
LEMMA ConfirmOK ==
  ASSUME Tables, NEW s \in Screens,
         GrantRoute(s) \/ CancelConfirm(s) \/ KillSwitchRoute(s)
  PROVE  Tables'
<1>1. screens[s] \in Screen /\ ScreenOK(s) /\ Len(policies) \in Nat /\ grants \in Seq(Grant)
  BY LenProperties DEF Tables, PolicyTypeOK
<1>2. screens[s].policy \in Nat /\ screens[s].expires \in Nat
  BY <1>1 DEF Screen
<1>3. CASE GrantRoute(s)
  <2>1. PICK o \in screens[s].of :
          grants' = Append(Retarget(grants, screens[s].policy),
                           [obligation |-> o, policy |-> screens[s].policy,
                            expires |-> screens[s].expires, status |-> "ACTIVE"])
    BY <1>3 DEF GrantRoute
  <2>2. o \in Obligations
    BY <1>1, <1>3 DEF GrantRoute, ScreenOK
  <2> DEFINE gs == Retarget(grants, screens[s].policy)
             new == [obligation |-> o, policy |-> screens[s].policy,
                     expires |-> screens[s].expires, status |-> "ACTIVE"]
  <2>3. new \in Grant /\ new.policy = screens[s].policy
    BY <1>2, <2>2 DEF Grant
  <2>4. /\ gs \in Seq(Grant)
        /\ \A i \in DOMAIN gs : gs[i].status = "ACTIVE" => gs[i].policy = screens[s].policy
    BY <1>1, <1>2, RetargetType
  <2>5. grants' \in Seq(Grant) /\ OneRecorded'
    <3> HIDE DEF gs, new
    <3>1. grants' = Append(gs, new)
      BY <2>1 DEF gs, new
    <3>2. \A i \in DOMAIN grants' :
            grants'[i].status = "ACTIVE" => grants'[i].policy = screens[s].policy
      BY <2>3, <2>4, <3>1, AppendProperties, LenProperties
    <3> QED
      BY <2>3, <2>4, <3>1, <3>2, AppendProperties DEF OneRecorded
  <2>6. screens' \in [Screens -> Screen] /\ \A t \in Screens : ScreenOK(t)'
    <3>1. Grows /\ screens' = [screens EXCEPT ![s] = Idle]
      BY <1>3, SameGrows DEF GrantRoute
    <3> QED
      BY <3>1, IdleOK
  <2> QED
    BY <1>3, <2>5, <2>6 DEF GrantRoute, Tables, PolicyTypeOK
<1>4. CASE CancelConfirm(s)
  <2>1. PICK o \in screens[s].of :
          /\ obligations' = [obligations EXCEPT ![o] = "CANCELLED"]
          /\ grants' = Retarget(RevokeActiveGrant(grants, o), screens[s].policy)
    BY <1>4 DEF CancelConfirm
  <2>2. grants' \in Seq(Grant) /\ OneRecorded'
    BY <1>1, <1>2, <2>1, RevokeType, RetargetSame
  <2>3. screens' \in [Screens -> Screen] /\ \A t \in Screens : ScreenOK(t)'
    <3>1. Grows /\ screens' = [screens EXCEPT ![s] = Idle]
      BY <1>4, SameGrows DEF CancelConfirm
    <3> QED
      BY <3>1, IdleOK
  <2>4. obligations' \in [Obligations -> {"ABSENT", "ACTIVE", "PAUSED", "CANCELLED"}]
    BY <2>1 DEF Tables, PolicyTypeOK
  <2> QED
    BY <1>4, <2>2, <2>3, <2>4 DEF CancelConfirm, Tables, PolicyTypeOK
<1>5. CASE KillSwitchRoute(s)
  <2>1. PICK o \in screens[s].of :
          /\ obligations' = [obligations EXCEPT ![o] = "PAUSED"]
          /\ grants' = RevokeActiveGrant(grants, o)
          /\ screens' = [screens EXCEPT ![s].of = @ \ {o}]
    BY <1>5 DEF KillSwitchRoute
  <2>2. grants' \in Seq(Grant) /\ OneRecorded'
    BY <1>1, <2>1, RevokeType DEF OneRecorded, Tables
  <2>3. /\ screens'[s] = [screens[s] EXCEPT !.of = screens[s].of \ {o}]
        /\ \A t \in Screens \ {s} : screens'[t] = screens[t]
    BY <2>1 DEF Tables, PolicyTypeOK
  <2>4. screens'[s] \in Screen
    BY <1>1, <2>3 DEF Screen
  <2>5. screens' \in [Screens -> Screen]
    BY <2>1, <2>3, <2>4 DEF Tables, PolicyTypeOK
  <2>6. ScreenOK(s)'
    BY <1>1, <1>5, <2>3 DEF ScreenOK, Screen, KillSwitchRoute
  <2>7. \A t \in Screens : ScreenOK(t)'
    <3>1. Grows
      BY <1>5, SameGrows DEF KillSwitchRoute
    <3> QED
      BY <2>3, <2>6, <3>1, OthersOK
  <2>8. obligations' \in [Obligations -> {"ABSENT", "ACTIVE", "PAUSED", "CANCELLED"}]
    BY <2>1 DEF Tables, PolicyTypeOK
  <2> QED
    BY <1>5, <2>2, <2>5, <2>7, <2>8
    DEF KillSwitchRoute, Tables, PolicyTypeOK
<1> QED
  BY <1>3, <1>4, <1>5

\* A page that has finished or is left.
LEMMA EndOK ==
  ASSUME Tables, NEW s \in Screens, Killed(s) \/ GiveUp(s)
  PROVE  Tables'
<1>1. screens' = [screens EXCEPT ![s] = Idle] /\ UNCHANGED <<policies, checkouts>>
  BY DEF Killed, GiveUp, policyVars
<1>2. screens' \in [Screens -> Screen] /\ \A t \in Screens : ScreenOK(t)'
  BY <1>1, IdleOK, SameGrows
<1>3. interrupted' \in BOOLEAN
  BY DEF Killed, GiveUp, policyVars, Tables, PolicyTypeOK
<1>4. UNCHANGED <<obligations, grants, policies, attached, checkouts, now>>
  BY DEF Killed, GiveUp, policyVars
<1> QED
  BY <1>2, <1>3, <1>4 DEF Tables, PolicyTypeOK, OneRecorded

\* Every step of a recurring payment's page.
LEMMA PolicyStepOK ==
  ASSUME Tables, NEW s \in Screens, PolicyStep(s)
  PROVE  Tables'
  BY BeginFlowsOK, SignersOK, ConfirmOK, EndOK DEF PolicyStep

\* Nothing is there at the start.
LEMMA TablesInit ==
  ASSUME PolicyInit
  PROVE  Tables
<1>1. obligations \in [Obligations -> {"ABSENT", "ACTIVE", "PAUSED", "CANCELLED"}]
  BY DEF PolicyInit
<1>2. grants = << >> /\ policies = << >> /\ attached = 0 /\ interrupted = FALSE /\ now = 0
  BY DEF PolicyInit
<1>3. grants \in Seq(Grant) /\ policies \in Seq(SUBSET Rule) /\ Len(policies) = 0
  BY <1>2, EmptySeq
<1>4. attached \in 0 .. Len(policies) /\ now \in 0 .. Horizon
  BY <1>2, <1>3, PolicyAssumption
<1>5. interrupted \in BOOLEAN
  BY <1>2, Zenon
<1>6. DOMAIN checkouts \subseteq CheckoutIds /\ checkouts \in [DOMAIN checkouts -> Checkout]
  BY DEF PolicyInit
<1>7. screens = [s \in Screens |-> Idle] /\ Idle \in Screen
  BY DEF PolicyInit, Idle, Screen
<1>8. screens \in [Screens -> Screen] /\ \A s \in Screens : ScreenOK(s)
  BY <1>3, <1>7 DEF ScreenOK, Idle
<1>9. OneRecorded
  BY <1>2 DEF OneRecorded
<1> QED
  BY <1>1, <1>3, <1>4, <1>5, <1>6, <1>8, <1>9 DEF Tables, PolicyTypeOK

\* Time passes.
LEMMA TickKeepsTables ==
  ASSUME Tables, Tick
  PROVE  Tables'
<1>1. now' \in 0 .. Horizon
  BY PolicyAssumption DEF Tick, Tables, PolicyTypeOK
<1> QED
  BY <1>1 DEF Tick, policyVars, Tables, PolicyTypeOK, OneRecorded, ScreenOK

-----------------------------------------------------------------------------
(* Grants that are retargeted or revoked. *)

\* retargetActiveGrantsPolicyId leaves what is granted as it is.
LEMMA RetargetKeeps ==
  ASSUME NEW gs \in Seq(Grant), NEW p \in Nat
  PROVE  /\ DOMAIN Retarget(gs, p) = DOMAIN gs
         /\ \A i \in DOMAIN gs : /\ Retarget(gs, p)[i].obligation = gs[i].obligation
                                 /\ Retarget(gs, p)[i].expires = gs[i].expires
                                 /\ Retarget(gs, p)[i].status = gs[i].status
<1>1. DOMAIN gs = 1 .. Len(gs) /\ \A i \in DOMAIN gs : gs[i] \in Grant
  BY LenProperties, ElementOfSeq
<1> QED
  BY <1>1 DEF Retarget, Grant

\* A set of row numbers has a greatest.
LEMMA MaxIsIn ==
  ASSUME NEW n \in Nat, NEW S, S \subseteq 1 .. n, S # {}
  PROVE  Max(S) \in S
<1> DEFINE D == {n - i : i \in S}
<1>1. D \subseteq Nat
  OBVIOUS
<1>2. D # {}
  OBVIOUS
<1>3. PICK d \in D : \A e \in D : <<e, d>> \notin OpToRel(<, Nat)
  <2> HIDE DEF D
  <2> QED
    BY <1>1, <1>2, WFMin, NatLessThanWellFounded, Zenon
<1>4. \A e \in D : ~(e < d)
  BY <1>1, <1>3 DEF OpToRel
<1>5. PICK i \in S : d = n - i
  BY <1>3
<1>6. \A j \in S : i >= j
  BY <1>5, <1>4
<1> QED
  BY <1>6 DEF Max

\* revokeGrant for an obligation touches its rows alone, and makes none ACTIVE.
LEMMA RevokeKeeps ==
  ASSUME Tables, NEW o
  PROVE  LET gs == RevokeActiveGrant(grants, o) IN
         /\ DOMAIN gs = DOMAIN grants
         /\ \A i \in DOMAIN grants : /\ gs[i].obligation = grants[i].obligation
                                     /\ gs[i].expires = grants[i].expires
                                     /\ gs[i].status = "ACTIVE" => grants[i].status = "ACTIVE"
                                     /\ grants[i].obligation # o => gs[i].status = grants[i].status
<1>1. /\ DOMAIN grants = 1 .. Len(grants) /\ Len(grants) \in Nat
      /\ \A i \in DOMAIN grants : grants[i] \in Grant
  BY LenProperties, ElementOfSeq DEF Tables, PolicyTypeOK
<1>2. CASE ActiveOf(o) = {}
  BY <1>2 DEF RevokeActiveGrant
<1>3. CASE ActiveOf(o) # {}
  <2> DEFINE m == Max(ActiveOf(o))
  <2>1. m \in ActiveOf(o)
    BY <1>1, <1>3, MaxIsIn DEF ActiveOf
  <2>2. RevokeActiveGrant(grants, o) = [grants EXCEPT ![m].status = "REVOKED"]
    BY <1>3 DEF RevokeActiveGrant
  <2> HIDE DEF m
  <2> QED
    BY <1>1, <2>1, <2>2 DEF ActiveOf, Grant
<1> QED
  BY <1>2, <1>3

-----------------------------------------------------------------------------
(* What the wallet may pay.  G and H are tables of grants, O and N the     *)
(* statuses of obligations, P and Q the policies, m and n the time.        *)

\* One page is at work.
OnePage == \E s : Screens = {s}

\* Everybody is paid at an address of their own.
Distinct == \A x, y \in Obligations \cup Payables : PayeeOf[x] = PayeeOf[y] => x = y

\* The live grants of ACTIVE obligations, but for those in ex.
Owed(G, O, m, ex) ==
  {i \in DOMAIN G : /\ G[i].status = "ACTIVE" /\ m < G[i].expires
                    /\ G[i].obligation \notin ex /\ O[G[i].obligation] = "ACTIVE"}

\* Policy a has a rule for each of the grants in is.
Pays(P, G, a, is) ==
  \A i \in is : /\ a # 0
                /\ \E r \in P[a] : r.payee = PayeeOf[G[i].obligation] /\ G[i].expires <= r.expires

\* A grant allows paying u up to e.
Granted(G, u, e) ==
  \E i \in DOMAIN G : G[i].obligation = u /\ G[i].status = "ACTIVE" /\ e <= G[i].expires

\* Policy a pays the obligations in U only as their grants say.
Records(P, G, a, U) ==
  a # 0 => \A r \in P[a], u \in U : r.payee = PayeeOf[u] => Granted(G, u, r.expires)

Right(P, G, O, m, a, U) == Pays(P, G, a, Owed(G, O, m, {})) /\ Records(P, G, a, U)

\* H has the rows of G, some of them revoked, but none of an obligation in V.
Revoked(G, H, V) ==
  /\ DOMAIN H = DOMAIN G
  /\ \A i \in DOMAIN G :
       /\ H[i].obligation = G[i].obligation /\ H[i].expires = G[i].expires
       /\ H[i].status = "ACTIVE" => G[i].status = "ACTIVE"
       /\ G[i].obligation \in V => H[i].status = G[i].status

\* Revoking grants, the end of obligations and the passing of time ask no more of
\* a policy, and a policy is never changed.
LEMMA PaysKept ==
  ASSUME NEW G, NEW H, NEW V, Revoked(G, H, V), NEW O, NEW N, NEW m, NEW n, NEW ex, NEW fx,
         \A i \in DOMAIN G : /\ n < G[i].expires => m < G[i].expires
                             /\ N[G[i].obligation] = "ACTIVE" => O[G[i].obligation] = "ACTIVE",
         \A o \in ex : o \notin fx => N[o] # "ACTIVE",
         NEW P, NEW Q, NEW a, a # 0 => Q[a] = P[a],
         Pays(P, G, a, Owed(G, O, m, ex))
  PROVE  Pays(Q, H, a, Owed(H, N, n, fx))
<1>1. ASSUME NEW i \in Owed(H, N, n, fx)
      PROVE  /\ i \in Owed(G, O, m, ex)
             /\ H[i].obligation = G[i].obligation /\ H[i].expires = G[i].expires
  BY DEF Owed, Revoked
<1> QED
  BY <1>1 DEF Pays

\* The grants of obligations in V stay, and with them what they say.
LEMMA RecordsKept ==
  ASSUME NEW G, NEW H, NEW U, NEW V, V \subseteq U, Revoked(G, H, V),
         NEW P, NEW Q, NEW a, a # 0 => Q[a] = P[a],
         Records(P, G, a, U)
  PROVE  Records(Q, H, a, V)
<1>1. \A u \in V : \A e : Granted(G, u, e) => Granted(H, u, e)
  BY DEF Granted, Revoked
<1> QED
  BY <1>1 DEF Records

\* A table is one of itself.
LEMMA NotRevoked == ASSUME NEW G, NEW V PROVE Revoked(G, G, V)
  BY DEF Revoked

-----------------------------------------------------------------------------
(* What a page is owed at each of its steps. *)

\* Grants are of obligations that exist.
Known == \A i \in DOMAIN grants : obligations[grants[i].obligation] # "ABSENT"

\* The page has a policy to attach.
HasPolicy(s) ==
  screens[s].flow \in {"create", "renew", "cancel", "pay"} /\ screens[s].step # "pricing"

\* Its policy carries what is granted to everything it is not about; a creation
\* or renewal adds a rule no older than the grants it replaces.
PolicyOK(s) ==
  /\ screens[s].policy # 0
  /\ Pays(policies, grants, screens[s].policy,
          Owed(grants, obligations, now, screens[s].of))
  /\ screens[s].step \in {"attached", "sending", "confirming"} => attached = screens[s].policy
  /\ screens[s].flow \in {"create", "renew"} => \A o \in screens[s].of :
       /\ obligations[o] # "ABSENT"
       /\ RuleFor(o, screens[s].expires) \in policies[screens[s].policy]
       /\ \A i \in DOMAIN grants :
            grants[i].obligation = o => grants[i].expires <= screens[s].expires

PageOK(s) ==
  /\ screens[s].flow = "none" \/ screens[s].step = "idle" => screens[s] = Idle
  /\ screens[s].flow = "kill" =>
       /\ screens[s].step \in {"built", "revoking"}
       /\ \A o \in Obligations : obligations[o] = "ACTIVE" => o \in screens[s].of
  /\ screens[s].step = "revoking" => screens[s].flow = "kill"
  /\ screens[s].step \in {"detached", "revoking"} => attached = 0
  /\ screens[s].flow \in {"create", "renew", "cancel"} =>
       \E o \in Obligations : screens[s].of = {o}
  /\ screens[s].flow = "pay" => \E x \in Payables : screens[s].of = {x}
  /\ HasPolicy(s) => PolicyOK(s)

\* Its policy pays the obligations in U as their grants say, or will when the
\* flow is confirmed.
RecordOK(s, U) ==
  HasPolicy(s) => \A r \in policies[screens[s].policy], u \in U : r.payee = PayeeOf[u] =>
    IF u \in screens[s].of
    THEN screens[s].flow \in {"create", "renew"} /\ r.expires <= screens[s].expires
    ELSE Granted(grants, u, r.expires)

Promised(s, U) == Known /\ PageOK(s) /\ RecordOK(s, U)

\* Nothing was left half done and the page has not touched the wallet.
Clean(s) == ~interrupted /\ screens[s].step \in {"idle", "pricing", "building", "built"}

Wallet(U) == Right(policies, grants, obligations, now, attached, U)

\* What the types say of the tables.
LEMMA TablesHave ==
  ASSUME Tables
  PROVE  /\ Len(policies) \in Nat /\ DOMAIN grants = 1 .. Len(grants) /\ Len(grants) \in Nat
         /\ now \in Nat /\ attached \in 0 .. Len(policies)
         /\ \A i \in DOMAIN grants : grants[i] \in Grant
         /\ \A i \in DOMAIN grants : grants[i].obligation \in Obligations /\ grants[i].expires \in Nat
         /\ \A s \in Screens : /\ screens[s] \in Screen /\ ScreenOK(s)
                               /\ screens[s].policy \in 0 .. Len(policies)
                               /\ screens[s].expires \in Nat
<1>1. \A i \in DOMAIN grants : grants[i] \in Grant
  BY LenProperties, ElementOfSeq DEF Tables, PolicyTypeOK
<1>2. \A s \in Screens : screens[s] \in Screen /\ ScreenOK(s)
  BY DEF Tables, PolicyTypeOK
<1>3. /\ Len(policies) \in Nat /\ DOMAIN grants = 1 .. Len(grants) /\ Len(grants) \in Nat
      /\ now \in Nat /\ attached \in 0 .. Len(policies)
  BY LenProperties, PolicyAssumption DEF Tables, PolicyTypeOK
<1> QED
  BY <1>1, <1>2, <1>3 DEF Grant, Screen, ScreenOK

\* A new policy carries what is granted, and nothing else but its extra rules.
LEMMA Built ==
  ASSUME Tables, NEW extra \in SUBSET Rule, NEW ex, RebuildOperationsPolicy(extra, ex),
         NEW U \in SUBSET Obligations, U = {} \/ Distinct
  PROVE  /\ \A a \in 1 .. Len(policies) : policies'[a] = policies[a]
         /\ extra \subseteq policies'[Len(policies) + 1]
         /\ \A O : Pays(policies', grants, Len(policies) + 1, Owed(grants, O, now, ex))
         /\ \A r \in policies'[Len(policies) + 1], u \in U : r.payee = PayeeOf[u] =>
              r \in extra \/ (u \notin ex /\ Granted(grants, u, r.expires))
<1> DEFINE p == Len(policies) + 1
<1>1. policies \in Seq(SUBSET Rule) /\ Len(policies) \in Nat
  BY LenProperties DEF Tables, PolicyTypeOK
<1>2. policies' = Append(policies, FullSet(extra, ex))
  BY DEF RebuildOperationsPolicy
<1>3. FullSet(extra, ex) \in SUBSET Rule
  <2>1. \A i \in DOMAIN grants : RuleFor(grants[i].obligation, grants[i].expires) \in Rule
    BY TablesHave DEF Rule, RuleFor
  <2>2. \A k \in DOMAIN checkouts : RuleFor(checkouts[k].for, checkouts[k].expires) \in Rule
    BY DEF Tables, PolicyTypeOK, Checkout, Rule, RuleFor
  <2> QED
    BY <2>1, <2>2 DEF FullSet, ListActiveGrants, ListPendingCheckouts
<1>4. policies'[p] = FullSet(extra, ex) /\ \A a \in 1 .. Len(policies) : policies'[a] = policies[a]
  BY <1>1, <1>2, <1>3, AppendProperties
<1>5. ASSUME NEW O
      PROVE  Pays(policies', grants, p, Owed(grants, O, now, ex))
  <2>1. ASSUME NEW i \in Owed(grants, O, now, ex)
        PROVE  /\ RuleFor(grants[i].obligation, grants[i].expires) \in policies'[p]
               /\ grants[i].expires \in Nat
    BY <1>4, TablesHave DEF Owed, FullSet, ListActiveGrants
  <2>2. \A x, e : RuleFor(x, e).payee = PayeeOf[x] /\ RuleFor(x, e).expires = e
    BY DEF RuleFor
  <2>3. p # 0 /\ \A e \in Nat : e <= e
    BY <1>1
  <2> QED
    BY <2>1, <2>2, <2>3 DEF Pays
<1>6. ASSUME NEW r \in policies'[p], NEW u \in U, r.payee = PayeeOf[u], r \notin extra
      PROVE  u \notin ex /\ Granted(grants, u, r.expires)
  <2>1. Distinct /\ u \in Obligations
    BY DEF Rule
  <2>2. CASE \E i \in ListActiveGrants(ex) : r = RuleFor(grants[i].obligation, grants[i].expires)
    <3>1. PICK i \in ListActiveGrants(ex) : r = RuleFor(grants[i].obligation, grants[i].expires)
      BY <2>2
    <3>2. i \in DOMAIN grants /\ grants[i].status = "ACTIVE" /\ grants[i].obligation \notin ex
          /\ grants[i].obligation \in Obligations /\ grants[i].expires \in Nat
      BY TablesHave DEF ListActiveGrants
    <3>3. PayeeOf[grants[i].obligation] = PayeeOf[u] /\ r.expires = grants[i].expires
      BY <1>6, <3>1 DEF RuleFor
    <3>4. grants[i].obligation = u
      BY <2>1, <3>2, <3>3 DEF Distinct
    <3> QED
      BY <3>2, <3>3, <3>4 DEF Granted
  <2>3. CASE \E k \in ListPendingCheckouts : r = RuleFor(checkouts[k].for, checkouts[k].expires)
    <3>1. PICK k \in ListPendingCheckouts : r = RuleFor(checkouts[k].for, checkouts[k].expires)
      BY <2>3
    <3>2. checkouts[k].for \in Payables
      BY DEF ListPendingCheckouts, Tables, PolicyTypeOK, Checkout
    <3>3. PayeeOf[checkouts[k].for] = PayeeOf[u]
      BY <1>6, <3>1 DEF RuleFor
    <3> QED
      BY <2>1, <3>2, <3>3, PolicyAssumption DEF Distinct
  <2> QED
    BY <1>4, <1>6, <2>2, <2>3 DEF FullSet
<1> QED
  BY <1>4, <1>5, <1>6 DEF FullSet

-----------------------------------------------------------------------------
(* The flows. *)

\* An untouched wallet stays right while grants end and obligations stop.
LEMMA WalletKept ==
  ASSUME Tables, NEW U, NEW V, V \subseteq U, Revoked(grants, grants', V), now' \in Nat, now <= now',
         \A i \in DOMAIN grants :
           obligations'[grants[i].obligation] = "ACTIVE" => obligations[grants[i].obligation] = "ACTIVE",
         NEW a, a # 0 => policies'[a] = policies[a],
         Right(policies, grants, obligations, now, a, U)
  PROVE  Right(policies', grants', obligations', now', a, V)
<1>1. \A i \in DOMAIN grants : now' < grants[i].expires => now < grants[i].expires
  BY TablesHave
<1>2. Pays(policies', grants', a, Owed(grants', obligations', now', {}))
  BY <1>1, PaysKept DEF Right
<1>3. Records(policies', grants', a, V)
  BY RecordsKept DEF Right
<1> QED
  BY <1>2, <1>3 DEF Right

\* A page has just built a policy for x, valid until e.
NewPage(s, flow, x, e) ==
  /\ screens'[s].flow = flow /\ screens'[s].step \in {"built", "building"}
  /\ screens'[s].of = {x} /\ screens'[s].policy = Len(policies) + 1 /\ screens'[s].expires = e

\* With the rules that its flow adds and the obligations it excludes.
Adds(flow, x, e, extra, ex) ==
  /\ flow \in {"create", "renew", "cancel", "pay"} /\ e \in Nat
  /\ extra \in SUBSET Rule /\ ex \in SUBSET {x}
  /\ IF flow = "pay" THEN x \in Payables ELSE x \in Obligations
  /\ IF flow = "cancel" THEN extra = {} /\ ex = {x} ELSE extra = {RuleFor(x, e)}

\* A creation or renewal is of an obligation that exists, and shortens no grant.
Extends(flow, x, e) ==
  flow \in {"create", "renew"} =>
    /\ obligations'[x] # "ABSENT"
    /\ \A i \in DOMAIN grants : grants[i].obligation = x => grants[i].expires <= e

SameGranted ==
  /\ \A i \in DOMAIN grants : obligations'[grants[i].obligation] = obligations[grants[i].obligation]
  /\ UNCHANGED <<grants, now>>

\* A page that has just built its policy.
LEMMA NewPolicyOK ==
  ASSUME Tables, Known, NEW s \in Screens,
         NEW U \in SUBSET Obligations, NEW V \in SUBSET U, U = {} \/ Distinct,
         NEW flow, NEW x, NEW e, NEW extra, NEW ex,
         NewPage(s, flow, x, e), RebuildOperationsPolicy(extra, ex),
         Adds(flow, x, e, extra, ex), Extends(flow, x, e), SameGranted
  PROVE  Promised(s, V)'
<1> USE DEF NewPage, Adds, Extends, SameGranted
<1>0. x \in Payables <=> flow = "pay"
  BY PolicyAssumption
<1> DEFINE p == Len(policies) + 1
<1>1. p # 0 /\ p \in Nat
  BY TablesHave
<1>2. /\ extra \subseteq policies'[p]
      /\ Pays(policies', grants, p, Owed(grants, obligations', now, ex))
      /\ \A r \in policies'[p], u \in U : r.payee = PayeeOf[u] =>
           r \in extra \/ (u \notin ex /\ Granted(grants, u, r.expires))
  BY Built
<1>3. Pays(policies', grants', p, Owed(grants', obligations', now', {x}))
  <2>1. Owed(grants', obligations', now', {x}) \subseteq Owed(grants, obligations', now, ex)
    BY DEF Owed
  <2> QED
    BY <1>2, <2>1 DEF Pays
<1>4. PolicyOK(s)'
  <2>1. flow \in {"create", "renew"} => RuleFor(x, e) \in policies'[p]
    BY <1>2
  <2>2. screens'[s].policy # 0 /\ screens'[s].step \notin {"attached", "sending", "confirming"}
    BY <1>1
  <2> QED
    BY <1>3, <2>1, <2>2 DEF PolicyOK
<1>5. PageOK(s)'
  BY <1>4 DEF PageOK
<1>6. RecordOK(s, V)'
  <2> SUFFICES ASSUME NEW r \in policies'[p], NEW u \in V, r.payee = PayeeOf[u]
               PROVE  IF u = x THEN flow \in {"create", "renew"} /\ r.expires <= e
                      ELSE Granted(grants, u, r.expires)
    BY DEF RecordOK
  <2>1. r \in extra \/ (u \notin ex /\ Granted(grants, u, r.expires))
    BY <1>2
  <2>2. Distinct /\ u \in Obligations
    OBVIOUS
  <2>3. CASE r \in extra
    <3>1. flow # "cancel" /\ r = RuleFor(x, e)
      BY <2>3
    <3>2. u = x
      BY <2>2, <3>1 DEF Distinct, RuleFor
    <3>3. flow # "pay"
      BY <1>0, <2>2, <3>2, PolicyAssumption
    <3> QED
      BY <3>1, <3>2, <3>3 DEF RuleFor
  <2>4. CASE u \notin ex /\ Granted(grants, u, r.expires)
    <3>1. CASE u = x
      <4>1. flow \notin {"cancel", "pay"}
        BY <1>0, <2>2, <2>4, <3>1, PolicyAssumption
      <4>2. PICK i \in DOMAIN grants : grants[i].obligation = x /\ r.expires <= grants[i].expires
        BY <2>4, <3>1 DEF Granted
      <4>3. grants[i].expires <= e /\ grants[i].expires \in Nat
        BY <4>1, <4>2, TablesHave
      <4>4. r.expires \in Nat
        <5>1. policies' \in Seq(SUBSET Rule) /\ Len(policies') = p
          BY RebuildType
        <5>2. policies'[p] \in SUBSET Rule
          BY <1>1, <5>1, ElementOfSeq
        <5> QED
          BY <5>2 DEF Rule
      <4> QED
        BY <3>1, <4>1, <4>2, <4>3, <4>4
    <3> QED
      BY <2>4, <3>1
  <2> QED
    BY <2>1, <2>3, <2>4
<1>7. Known'
  BY DEF Known
<1> QED
  BY <1>5, <1>6, <1>7 DEF Promised

\* A flow begins: what was granted is in its policy, and the wallet is untouched.
LEMMA BeginPromised ==
  ASSUME Tables, NEW s \in Screens,
         NEW U \in SUBSET Obligations, NEW V \in SUBSET U, U = {} \/ Distinct, Promised(s, U),
         \/ \E o \in Obligations :
              CreateObligation(s, o) \/ RenewObligation(s, o) \/ CancelObligation(s, o)
         \/ ConfirmKill(s)
  PROVE  /\ Promised(s, V)'
         /\ \A a \in 0 .. Len(policies) :
              Right(policies, grants, obligations, now, a, U)
                => Right(policies', grants', obligations', now', a, V)
<1> DEFINE Kept == \A a \in 1 .. Len(policies) : policies'[a] = policies[a]
<1>1. DOMAIN screens = Screens /\ now \in Nat /\ Known /\ Horizon \in Nat
      /\ DOMAIN obligations = Obligations
  BY TablesHave, PolicyAssumption DEF Tables, PolicyTypeOK, Promised
<1>2. ASSUME NEW extra \in SUBSET Rule, NEW ex, RebuildOperationsPolicy(extra, ex)
      PROVE  Kept
  <2>1. {} \in SUBSET Obligations
    OBVIOUS
  <2> QED
    BY <1>2, <2>1, Built
<1>3. \A o \in Obligations, e \in Nat : {RuleFor(o, e)} \in SUBSET Rule
  BY DEF Rule, RuleFor
<1>4. ASSUME NEW o \in Obligations, CreateObligation(s, o)
      PROVE  Promised(s, V)' /\ SameGranted /\ Kept
  <2>1. PICK e \in now + 1 .. Horizon + 1 :
          Begin(s, "create", {o}, e) /\ RebuildOperationsPolicy({RuleFor(o, e)}, {})
    BY <1>4 DEF CreateObligation
  <2>2. NewPage(s, "create", o, e)
    BY <1>1, <2>1 DEF Begin, NewPage
  <2>3. Adds("create", o, e, {RuleFor(o, e)}, {})
    BY <1>1, <1>3, <2>1 DEF Adds
  <2>4. SameGranted /\ Extends("create", o, e)
    BY <1>1, <1>4 DEF CreateObligation, Known, SameGranted, Extends
  <2>5. Promised(s, V)'
    BY <1>1, <2>1, <2>2, <2>3, <2>4, NewPolicyOK
  <2> QED
    BY <1>2, <1>3, <2>1, <2>3, <2>4, <2>5 DEF Adds
<1>5. ASSUME NEW o \in Obligations, RenewObligation(s, o)
      PROVE  Promised(s, V)' /\ SameGranted /\ Kept
  <2>1. PICK e \in 1 .. Horizon + 1 :
          /\ \A i \in DOMAIN grants : grants[i].obligation = o => grants[i].expires <= e
          /\ Begin(s, "renew", {o}, e)
          /\ RebuildOperationsPolicy({RuleFor(o, e)}, {o})
    BY <1>5 DEF RenewObligation
  <2>2. NewPage(s, "renew", o, e)
    BY <1>1, <2>1 DEF Begin, NewPage
  <2>3. Adds("renew", o, e, {RuleFor(o, e)}, {o})
    BY <1>1, <1>3, <2>1 DEF Adds
  <2>4. SameGranted /\ Extends("renew", o, e)
    BY <1>5, <2>1 DEF RenewObligation, SameGranted, Extends
  <2>5. Promised(s, V)'
    BY <1>1, <2>1, <2>2, <2>3, <2>4, NewPolicyOK
  <2> QED
    BY <1>2, <1>3, <2>1, <2>3, <2>4, <2>5 DEF Adds
<1>6. ASSUME NEW o \in Obligations, CancelObligation(s, o)
      PROVE  Promised(s, V)' /\ SameGranted /\ Kept
  <2>1. Begin(s, "cancel", {o}, 0) /\ RebuildOperationsPolicy({}, {o})
    BY <1>6 DEF CancelObligation
  <2>2. NewPage(s, "cancel", o, 0)
    BY <1>1, <2>1 DEF Begin, NewPage
  <2>3. Adds("cancel", o, 0, {}, {o})
    BY DEF Adds
  <2>4. SameGranted /\ Extends("cancel", o, 0)
    BY <1>6 DEF CancelObligation, SameGranted, Extends
  <2>5. Promised(s, V)'
    BY <1>1, <2>1, <2>2, <2>3, <2>4, NewPolicyOK
  <2> QED
    BY <1>2, <1>3, <2>1, <2>3, <2>4, <2>5 DEF Adds
<1>7. ASSUME ConfirmKill(s)
      PROVE  Promised(s, V)' /\ SameGranted /\ Kept
  <2>1. /\ screens'[s] = [flow |-> "kill", step |-> "built",
                          of |-> {o \in Obligations : obligations[o] = "ACTIVE"},
                          checkout |-> None, policy |-> 0, expires |-> 0]
        /\ UNCHANGED <<policyVars, now>>
    BY <1>1, <1>7 DEF ConfirmKill, Begin
  <2>2. PageOK(s)' /\ RecordOK(s, V)'
    BY <2>1 DEF PageOK, RecordOK, HasPolicy, policyVars
  <2> QED
    BY <1>1, <2>1, <2>2 DEF Promised, Known, SameGranted, policyVars
<1>8. Promised(s, V)' /\ SameGranted /\ Kept
  BY <1>4, <1>5, <1>6, <1>7
<1>9. ASSUME NEW a \in 0 .. Len(policies), Right(policies, grants, obligations, now, a, U)
      PROVE  Right(policies', grants', obligations', now', a, V)
  <2>1. Revoked(grants, grants', V)
    BY <1>8, NotRevoked DEF SameGranted
  <2>2. a # 0 => policies'[a] = policies[a]
    BY <1>8
  <2>3. now' \in Nat /\ now <= now'
    BY <1>1, <1>8 DEF SameGranted
  <2> QED
    BY <1>8, <1>9, <2>1, <2>2, <2>3, WalletKept DEF SameGranted
<1> QED
  BY <1>8, <1>9

\* A page that has finished is owed nothing.
LEMMA IdlePromised ==
  ASSUME NEW s \in Screens, screens'[s] = Idle, Known'
  PROVE  \A V : Promised(s, V)'
  BY DEF Promised, PageOK, RecordOK, HasPolicy, Idle

\* A policy stays right while nothing is granted or stopped.
LEMMA RightKept ==
  ASSUME Tables, UNCHANGED <<grants, obligations, policies, now>>, NEW U, NEW V, V \subseteq U, NEW a,
         Right(policies, grants, obligations, now, a, U)
  PROVE  Right(policies', grants', obligations', now', a, V)
<1>1. Revoked(grants, grants', V) /\ now' \in Nat /\ now <= now'
  BY NotRevoked, TablesHave
<1> QED
  BY <1>1, WalletKept

\* Changing the signers of the wallet.
LEMMA SignersPromised ==
  ASSUME Tables, NEW s \in Screens, NEW U, NEW V, V \subseteq U, Promised(s, U),
         RemoveSigners(s) \/ AddSigners(s)
  PROVE  Promised(s, V)' /\ ~Clean(s)'
<1>1. screens[s] \in Screen /\ DOMAIN screens = Screens
  BY TablesHave DEF Tables, PolicyTypeOK
<1>2. PageOK(s) /\ RecordOK(s, U) /\ Known
  BY DEF Promised
<1>3. PICK step \in {"detached", "revoking", "attached"} :
        /\ screens'[s] = [screens[s] EXCEPT !.step = step]
        /\ step = "revoking" <=> screens[s].flow = "kill"
        /\ step = "attached" => attached' = screens[s].policy
        /\ step # "attached" => attached' = 0
        /\ screens[s].step \in {"built", "detached"}
  <2>1. CASE RemoveSigners(s)
    BY <1>1, <2>1 DEF RemoveSigners
  <2>2. CASE AddSigners(s)
    BY <1>1, <1>2, <2>2 DEF AddSigners, PageOK
  <2> QED
    BY <2>1, <2>2
<1>4. UNCHANGED <<obligations, grants, policies, now>>
  BY DEF RemoveSigners, AddSigners
<1>5. /\ screens'[s].flow = screens[s].flow /\ screens'[s].of = screens[s].of
      /\ screens'[s].policy = screens[s].policy /\ screens'[s].expires = screens[s].expires
      /\ screens'[s].step = step
  BY <1>1, <1>3 DEF Screen
<1>6. HasPolicy(s)' => HasPolicy(s)
  BY <1>3, <1>5 DEF HasPolicy
<1>7. PolicyOK(s) /\ HasPolicy(s)' => PolicyOK(s)'
  BY <1>3, <1>4, <1>5 DEF PolicyOK
<1>8. PageOK(s)'
  <2>1. screens[s].flow # "none"
    BY <1>2, <1>3 DEF PageOK, Idle
  <2> QED
    BY <1>2, <1>3, <1>4, <1>5, <1>6, <1>7, <2>1 DEF PageOK
<1>9. RecordOK(s, V)'
  BY <1>2, <1>4, <1>5, <1>6 DEF RecordOK
<1> QED
  BY <1>2, <1>3, <1>4, <1>5, <1>8, <1>9 DEF Promised, Known, Clean

\* The kill switch on one of its obligations.
LEMMA KillPromised ==
  ASSUME Tables, NEW s \in Screens, NEW U, NEW V, V \subseteq U, Promised(s, U), KillSwitchRoute(s)
  PROVE  /\ Promised(s, V)' /\ ~Clean(s)'
         /\ \A a \in 0 .. Len(policies) :
              /\ Right(policies, grants, obligations, now, a, U)
              /\ \A u \in V : obligations'[u] # "PAUSED"
              => Right(policies', grants', obligations', now', a, V)
<1>1. screens[s] \in Screen /\ DOMAIN screens = Screens /\ DOMAIN obligations = Obligations
  BY TablesHave DEF Tables, PolicyTypeOK
<1>2. PageOK(s) /\ Known /\ screens[s].flow = "kill" /\ attached = 0
  BY DEF Promised, KillSwitchRoute, PageOK
<1>3. PICK o \in screens[s].of :
        /\ obligations' = [obligations EXCEPT ![o] = "PAUSED"]
        /\ grants' = RevokeActiveGrant(grants, o)
        /\ screens'[s] = [screens[s] EXCEPT !.of = screens[s].of \ {o}]
  BY <1>1 DEF KillSwitchRoute
<1>4. o \in Obligations /\ screens[s].of \subseteq Obligations
  BY <1>2, TablesHave DEF ScreenOK
<1>5. /\ screens'[s].flow = "kill" /\ screens'[s].step = "revoking"
      /\ screens'[s].of = screens[s].of \ {o}
  BY <1>1, <1>2, <1>3 DEF Screen, KillSwitchRoute
<1>6. PageOK(s)' /\ RecordOK(s, V)'
  <2>1. attached' = 0
    BY <1>2 DEF KillSwitchRoute
  <2>2. \A u \in Obligations : obligations'[u] = "ACTIVE" => u \in screens'[s].of
    BY <1>1, <1>2, <1>3, <1>5 DEF PageOK
  <2> QED
    BY <1>5, <2>1, <2>2 DEF PageOK, RecordOK, HasPolicy
<1>7. /\ DOMAIN grants' = DOMAIN grants
      /\ \A i \in DOMAIN grants : /\ grants'[i].obligation = grants[i].obligation
                                  /\ grants'[i].expires = grants[i].expires
                                  /\ grants'[i].status = "ACTIVE" => grants[i].status = "ACTIVE"
                                  /\ grants[i].obligation # o => grants'[i].status = grants[i].status
  BY <1>3, RevokeKeeps
<1>8. Known'
  BY <1>1, <1>2, <1>3, <1>7 DEF Known
<1>9. ASSUME NEW a \in 0 .. Len(policies), Right(policies, grants, obligations, now, a, U),
             \A u \in V : obligations'[u] # "PAUSED"
      PROVE  Right(policies', grants', obligations', now', a, V)
  <2>1. Revoked(grants, grants', V)
    BY <1>1, <1>3, <1>4, <1>7, <1>9 DEF Revoked
  <2>2. /\ now' \in Nat /\ now <= now' /\ policies'[a] = policies[a]
        /\ \A i \in DOMAIN grants : obligations'[grants[i].obligation] = "ACTIVE"
                                      => obligations[grants[i].obligation] = "ACTIVE"
    BY <1>1, <1>3, TablesHave DEF KillSwitchRoute
  <2> QED
    BY <1>9, <2>1, <2>2, WalletKept
<1> QED
  BY <1>5, <1>6, <1>8, <1>9 DEF Promised, Clean

\* A page that has finished or is left, before or after it touched the wallet.
LEMMA EndPromised ==
  ASSUME Tables, NEW s \in Screens, NEW U, NEW V, V \subseteq U, Promised(s, U),
         Killed(s) \/ GiveUp(s)
  PROVE  /\ Promised(s, V)'
         /\ (Clean(s) => Wallet(U)) /\ Clean(s)' => Wallet(V)'
<1>1. screens'[s] = Idle /\ UNCHANGED <<obligations, grants, policies, attached, now>>
  BY DEF Killed, GiveUp, policyVars, Tables, PolicyTypeOK
<1>2. Promised(s, V)'
  BY <1>1, IdlePromised DEF Promised, Known
<1>3. CASE Killed(s)
  <2>1. attached = 0 /\ \A o \in Obligations : obligations[o] # "ACTIVE"
    BY <1>3 DEF Killed, Promised, PageOK
  <2>2. Owed(grants, obligations, now, {}) = {}
    BY <2>1, TablesHave DEF Owed
  <2> QED
    BY <1>1, <1>2, <2>1, <2>2 DEF Wallet, Right, Pays, Records
<1>4. ASSUME GiveUp(s), Clean(s) => Wallet(U), Clean(s)'
      PROVE  Wallet(V)'
  <2>1. Clean(s)
    BY <1>4 DEF GiveUp, Clean
  <2> QED
    BY <1>1, <1>4, <2>1, RightKept DEF Wallet
<1> QED
  BY <1>2, <1>3, <1>4

\* The grant of a creation or renewal is confirmed: the attached policy has the
\* new rule, and all ACTIVE grants name it.
LEMMA GrantPromised ==
  ASSUME Tables, NEW s \in Screens, NEW U \in SUBSET Obligations, NEW V \in SUBSET U,
         Promised(s, U), GrantRoute(s)
  PROVE  /\ Promised(s, V)' /\ Wallet(V)'
         /\ \A i \in DOMAIN grants' : grants'[i].status = "ACTIVE" => grants'[i].policy = attached'
<1> DEFINE p == screens[s].policy
           e == screens[s].expires
           gs == Retarget(grants, p)
<1>1. /\ Known /\ RecordOK(s, U) /\ PolicyOK(s) /\ attached = p
      /\ screens[s].flow \in {"create", "renew"} /\ HasPolicy(s)
  BY DEF Promised, PageOK, PolicyOK, GrantRoute, HasPolicy
<1>2. PICK o \in Obligations : screens[s].of = {o}
  BY <1>1 DEF Promised, PageOK
<1> DEFINE new == [obligation |-> o, policy |-> p, expires |-> e, status |-> "ACTIVE"]
           n == Len(grants) + 1
<1>3. grants' = Append(gs, new) /\ UNCHANGED <<obligations, policies, attached, now>>
  BY <1>2 DEF GrantRoute
<1>4. p \in Nat /\ e \in Nat /\ grants \in Seq(Grant) /\ new \in Grant
      /\ DOMAIN grants = 1 .. Len(grants) /\ Len(grants) \in Nat
  BY TablesHave DEF Tables, PolicyTypeOK, Screen, Grant
<1>5. /\ gs \in Seq(Grant) /\ DOMAIN gs = DOMAIN grants /\ Len(gs) = Len(grants)
      /\ \A i \in DOMAIN grants : /\ gs[i].obligation = grants[i].obligation
                                  /\ gs[i].expires = grants[i].expires
                                  /\ gs[i].status = grants[i].status
                                  /\ gs[i].status = "ACTIVE" => gs[i].policy = p
  <2>1. gs \in Seq(Grant) /\ \A i \in DOMAIN gs : gs[i].status = "ACTIVE" => gs[i].policy = p
    BY <1>4, RetargetType
  <2>2. /\ DOMAIN gs = DOMAIN grants
        /\ \A i \in DOMAIN grants : /\ gs[i].obligation = grants[i].obligation
                                    /\ gs[i].expires = grants[i].expires
                                    /\ gs[i].status = grants[i].status
    BY <1>4, RetargetKeeps
  <2> HIDE DEF gs
  <2>3. Len(gs) = Len(grants)
    BY <1>4, <2>1, <2>2, LenProperties
  <2> QED
    BY <2>1, <2>2, <2>3
<1> HIDE DEF gs, new
<1>6. /\ DOMAIN grants' = 1 .. n /\ n \notin DOMAIN grants /\ grants'[n] = new
      /\ \A i \in DOMAIN grants : grants'[i] = gs[i]
  BY <1>3, <1>4, <1>5, AppendProperties, LenProperties
<1>7. new.obligation = o /\ new.policy = p /\ new.expires = e /\ new.status = "ACTIVE"
  BY DEF new
<1>8. /\ \A i \in DOMAIN grants' : i \in DOMAIN grants \/ i = n
      /\ \A i \in DOMAIN grants : i \in DOMAIN grants'
  BY <1>4, <1>6
<1>9. Known'
  <2>1. obligations[o] # "ABSENT"
    BY <1>1, <1>2 DEF PolicyOK
  <2> QED
    BY <1>1, <1>3, <1>5, <1>6, <1>7, <1>8, <2>1 DEF Known
<1>10. Promised(s, V)'
  <2>1. screens'[s] = Idle
    BY DEF GrantRoute, Tables, PolicyTypeOK
  <2> QED
    BY <1>9, <2>1, IdlePromised
<1>11. Pays(policies', grants', attached', Owed(grants', obligations', now', {}))
  <2> SUFFICES ASSUME NEW i \in Owed(grants', obligations', now', {})
               PROVE  /\ p # 0
                      /\ \E r \in policies[p] : /\ r.payee = PayeeOf[grants'[i].obligation]
                                                /\ grants'[i].expires <= r.expires
    BY <1>1, <1>3 DEF Pays
  <2>1. p # 0 /\ RuleFor(o, e) \in policies[p] /\ RuleFor(o, e).payee = PayeeOf[o]
        /\ RuleFor(o, e).expires = e
    BY <1>1, <1>2 DEF PolicyOK, RuleFor
  <2>2. CASE grants'[i].obligation = o
    <3>1. grants'[i].expires <= e
      <4>1. e <= e
        BY <1>4
      <4> QED
        BY <1>1, <1>2, <1>5, <1>6, <1>7, <1>8, <2>2, <4>1 DEF Owed, PolicyOK
    <3> QED
      BY <2>1, <2>2, <3>1
  <2>3. CASE grants'[i].obligation # o
    <3>1. /\ i \in Owed(grants, obligations, now, {o})
          /\ grants'[i].obligation = grants[i].obligation /\ grants'[i].expires = grants[i].expires
      BY <1>3, <1>5, <1>6, <1>7, <1>8, <2>3 DEF Owed
    <3> QED
      BY <1>1, <1>2, <3>1 DEF PolicyOK, Pays
  <2> QED
    BY <2>2, <2>3
<1>12. Records(policies', grants', attached', V)
  <2> SUFFICES ASSUME NEW r \in policies[p], NEW u \in V, r.payee = PayeeOf[u]
               PROVE  Granted(grants', u, r.expires)
    BY <1>1, <1>3 DEF Records
  <2>1. CASE u = o
    <3>1. r.expires <= e
      BY <1>1, <1>2, <2>1 DEF RecordOK
    <3> QED
      BY <1>4, <1>6, <1>7, <2>1, <3>1 DEF Granted
  <2>2. CASE u # o
    <3>1. Granted(grants, u, r.expires)
      BY <1>1, <1>2, <2>2 DEF RecordOK
    <3> QED
      BY <1>5, <1>6, <1>8, <3>1 DEF Granted
  <2> QED
    BY <2>1, <2>2
<1>13. \A i \in DOMAIN grants' : grants'[i].status = "ACTIVE" => grants'[i].policy = attached'
  BY <1>1, <1>3, <1>5, <1>6, <1>7, <1>8
<1> QED
  BY <1>10, <1>11, <1>12, <1>13 DEF Wallet, Right

\* A cancellation is confirmed: the attached policy has no rule for it, and all
\* ACTIVE grants name it.
LEMMA CancelPromised ==
  ASSUME Tables, NEW s \in Screens, NEW U \in SUBSET Obligations, NEW V \in SUBSET U,
         Promised(s, U), CancelConfirm(s)
  PROVE  /\ Promised(s, V)' /\ Wallet(V)'
         /\ \A i \in DOMAIN grants' : grants'[i].status = "ACTIVE" => grants'[i].policy = attached'
<1> DEFINE p == screens[s].policy
<1>1. /\ Known /\ RecordOK(s, U) /\ PolicyOK(s) /\ attached = p
      /\ screens[s].flow = "cancel" /\ HasPolicy(s)
  BY DEF Promised, PageOK, PolicyOK, CancelConfirm, HasPolicy
<1>2. PICK o \in Obligations : screens[s].of = {o}
  BY <1>1 DEF Promised, PageOK
<1> DEFINE gs == RevokeActiveGrant(grants, o)
<1>3. /\ obligations' = [obligations EXCEPT ![o] = "CANCELLED"] /\ grants' = Retarget(gs, p)
      /\ UNCHANGED <<policies, attached, now>>
  BY <1>2 DEF CancelConfirm
<1>4. p \in Nat /\ grants \in Seq(Grant) /\ DOMAIN obligations = Obligations /\ now \in Nat
  BY TablesHave DEF Tables, PolicyTypeOK
<1>5. /\ gs \in Seq(Grant) /\ DOMAIN gs = DOMAIN grants
      /\ \A i \in DOMAIN grants : /\ gs[i].obligation = grants[i].obligation
                                  /\ gs[i].expires = grants[i].expires
                                  /\ gs[i].status = "ACTIVE" => grants[i].status = "ACTIVE"
                                  /\ grants[i].obligation # o => gs[i].status = grants[i].status
  BY <1>4, RevokeKeeps, RevokeType
<1> HIDE DEF gs
<1>6. /\ DOMAIN grants' = DOMAIN gs
      /\ \A i \in DOMAIN gs : /\ grants'[i].obligation = gs[i].obligation
                              /\ grants'[i].expires = gs[i].expires
                              /\ grants'[i].status = gs[i].status
                              /\ grants'[i].status = "ACTIVE" => grants'[i].policy = p
  <2>1. /\ DOMAIN Retarget(gs, p) = DOMAIN gs
        /\ \A i \in DOMAIN gs : /\ Retarget(gs, p)[i].obligation = gs[i].obligation
                                /\ Retarget(gs, p)[i].expires = gs[i].expires
                                /\ Retarget(gs, p)[i].status = gs[i].status
    BY <1>4, <1>5, RetargetKeeps
  <2>2. \A i \in DOMAIN Retarget(gs, p) :
          Retarget(gs, p)[i].status = "ACTIVE" => Retarget(gs, p)[i].policy = p
    BY <1>4, <1>5, RetargetType
  <2> QED
    BY <1>3, <2>1, <2>2
<1>7. Revoked(grants, grants', V \ {o})
  BY <1>5, <1>6 DEF Revoked
<1>8. Known'
  BY <1>1, <1>3, <1>4, <1>5, <1>6 DEF Known
<1>9. Promised(s, V)'
  <2>1. screens'[s] = Idle
    BY DEF CancelConfirm, Tables, PolicyTypeOK
  <2> QED
    BY <1>8, <2>1, IdlePromised
<1>10. Pays(policies', grants', attached', Owed(grants', obligations', now', {}))
  <2>1. Pays(policies, grants, p, Owed(grants, obligations, now, {o}))
    BY <1>1, <1>2 DEF PolicyOK
  <2>2. \A x \in Obligations : obligations'[x] = "ACTIVE" => x # o /\ obligations[x] = "ACTIVE"
    BY <1>3, <1>4
  <2>3. ASSUME NEW i \in Owed(grants', obligations', now', {})
        PROVE  /\ i \in Owed(grants, obligations, now, {o})
               /\ grants'[i].obligation = grants[i].obligation
               /\ grants'[i].expires = grants[i].expires
    BY <1>3, <1>5, <1>6, <2>2, TablesHave DEF Owed
  <2> QED
    BY <1>1, <1>3, <2>1, <2>3 DEF Pays
<1>11. Records(policies', grants', attached', V)
  <2> SUFFICES ASSUME NEW r \in policies[p], NEW u \in V, r.payee = PayeeOf[u]
               PROVE  Granted(grants', u, r.expires)
    BY <1>1, <1>3 DEF Records
  <2>1. u # o /\ Granted(grants, u, r.expires)
    BY <1>1, <1>2 DEF RecordOK
  <2> QED
    BY <1>5, <1>6, <2>1 DEF Granted
<1>12. \A i \in DOMAIN grants' : grants'[i].status = "ACTIVE" => grants'[i].policy = attached'
  BY <1>1, <1>3, <1>6
<1> QED
  BY <1>9, <1>10, <1>11, <1>12 DEF Wallet, Right

\* What a page is owed stays with its work, while grants end or name another
\* policy and time passes.
LEMMA StaysPromised ==
  ASSUME Tables, NEW s \in Screens, NEW U, NEW V, V \subseteq U, Promised(s, U),
         screens'[s] = screens[s], UNCHANGED <<obligations, policies, attached>>,
         Revoked(grants, grants', U), now' \in Nat, now <= now'
  PROVE  Promised(s, V)'
<1>1. Known /\ PageOK(s) /\ RecordOK(s, U)
  BY DEF Promised
<1>2. PolicyOK(s) => PolicyOK(s)'
  <2> DEFINE a == screens[s].policy
             ex == screens[s].of
  <2>1. ASSUME Pays(policies, grants, a, Owed(grants, obligations, now, ex))
        PROVE  Pays(policies', grants', a, Owed(grants', obligations', now', ex))
    <3>1. \A i \in DOMAIN grants :
            /\ now' < grants[i].expires => now < grants[i].expires
            /\ obligations'[grants[i].obligation] = "ACTIVE"
                 => obligations[grants[i].obligation] = "ACTIVE"
      BY TablesHave
    <3>2. \A o \in ex : o \notin ex => obligations'[o] # "ACTIVE"
      OBVIOUS
    <3> HIDE DEF a, ex
    <3> QED
      BY <2>1, <3>1, <3>2, PaysKept
  <2> QED
    BY <2>1 DEF PolicyOK, Revoked
<1>3. PageOK(s)'
  BY <1>1, <1>2 DEF PageOK, HasPolicy
<1>4. RecordOK(s, V)'
  <2>1. \A u \in V : \A e : Granted(grants, u, e) => Granted(grants', u, e)
    BY DEF Granted, Revoked
  <2> QED
    BY <1>1, <2>1 DEF RecordOK, HasPolicy
<1> QED
  BY <1>1, <1>3, <1>4 DEF Promised, Known, Revoked

\* Time passes: grants lapse, and are owed no more.
LEMMA TickPromised ==
  ASSUME Tables, NEW s \in Screens, NEW U, NEW V, V \subseteq U, Tick
  PROVE  /\ Promised(s, U) => Promised(s, V)'
         /\ \A a \in 0 .. Len(policies) :
              Right(policies, grants, obligations, now, a, U)
                => Right(policies', grants', obligations', now', a, V)
<1>1. /\ UNCHANGED <<obligations, grants, policies, attached, screens>>
      /\ now' \in Nat /\ now <= now'
  BY TablesHave DEF Tick, policyVars
<1>2. Revoked(grants, grants', U) /\ Revoked(grants, grants', V)
  BY <1>1, NotRevoked
<1>3. Promised(s, U) => Promised(s, V)'
  BY <1>1, <1>2, StaysPromised
<1>4. ASSUME NEW a, Right(policies, grants, obligations, now, a, U)
      PROVE  Right(policies', grants', obligations', now', a, V)
  BY <1>1, <1>2, <1>4, WalletKept
<1> QED
  BY <1>3, <1>4

\* Every step of a recurring payment's page.
LEMMA PolicyStepPromised ==
  ASSUME Tables, NEW s \in Screens,
         NEW U \in SUBSET Obligations, NEW V \in SUBSET U, U = {} \/ Distinct, Promised(s, U),
         PolicyStep(s)
  PROVE  /\ Promised(s, V)'
         /\ (Clean(s) => Wallet(U)) /\ Clean(s)' => Wallet(V)'
<1>1. CASE \/ \E o \in Obligations :
                CreateObligation(s, o) \/ RenewObligation(s, o) \/ CancelObligation(s, o)
           \/ ConfirmKill(s)
  <2>1. Promised(s, V)'
    BY <1>1, BeginPromised
  <2>2. ASSUME Clean(s) => Wallet(U), Clean(s)' PROVE Wallet(V)'
    <3>1. Clean(s) /\ attached' = attached
      <4>1. screens[s] = Idle
        BY <1>1 DEF CreateObligation, RenewObligation, CancelObligation, ConfirmKill, Begin
      <4>2. UNCHANGED <<attached, interrupted>>
        <5>1. CASE ConfirmKill(s)
          BY <5>1 DEF ConfirmKill, policyVars
        <5>2. ASSUME NEW o \in Obligations, CreateObligation(s, o) PROVE UNCHANGED <<attached, interrupted>>
          BY <5>2 DEF CreateObligation
        <5>3. ASSUME NEW o \in Obligations, RenewObligation(s, o) PROVE UNCHANGED <<attached, interrupted>>
          BY <5>3 DEF RenewObligation
        <5>4. ASSUME NEW o \in Obligations, CancelObligation(s, o) PROVE UNCHANGED <<attached, interrupted>>
          BY <5>4 DEF CancelObligation
        <5> QED
          BY <1>1, <5>1, <5>2, <5>3, <5>4
      <4>3. screens[s].step = "idle"
        BY <4>1 DEF Idle
      <4> QED
        BY <2>2, <4>2, <4>3 DEF Clean
    <3>2. attached \in 0 .. Len(policies)
      BY TablesHave
    <3>3. Right(policies', grants', obligations', now', attached, V)
      BY <1>1, <2>2, <3>1, <3>2, BeginPromised DEF Wallet
    <3> QED
      BY <3>1, <3>3 DEF Wallet
  <2> QED
    BY <2>1, <2>2
<1>2. CASE RemoveSigners(s) \/ AddSigners(s)
  BY <1>2, SignersPromised
<1>3. CASE GrantRoute(s)
  BY <1>3, GrantPromised
<1>4. CASE CancelConfirm(s)
  BY <1>4, CancelPromised
<1>5. CASE KillSwitchRoute(s)
  BY <1>5, KillPromised
<1>6. CASE Killed(s) \/ GiveUp(s)
  BY <1>6, EndPromised
<1> QED
  BY <1>1, <1>2, <1>3, <1>4, <1>5, <1>6 DEF PolicyStep

\* Nothing is granted or attached at the start.
LEMMA InitPromised ==
  ASSUME PolicyInit, NEW U
  PROVE  Wallet(U) /\ \A s \in Screens : Promised(s, U)
<1>1. grants = << >> /\ DOMAIN grants = {} /\ attached = 0
  BY DEF PolicyInit
<1>2. Wallet(U) /\ Known
  BY <1>1 DEF Wallet, Right, Pays, Owed, Records, Known
<1>3. ASSUME NEW s \in Screens PROVE PageOK(s) /\ RecordOK(s, U)
  BY DEF PolicyInit, PageOK, RecordOK, HasPolicy, Idle
<1> QED
  BY <1>2, <1>3 DEF Promised

\* What a right wallet allows: everything that is granted, and of the
\* obligations in U nothing else.
LEMMA WalletAllows ==
  ASSUME Tables, NEW U, Wallet(U)
  PROVE  /\ \A i \in ListActiveGrants({}) :
              obligations[grants[i].obligation] = "ACTIVE" => Allows(grants[i].obligation)
         /\ \A o \in U : Allows(o) => ActiveOf(o) \cap ListActiveGrants({}) # {}
<1>1. attached # 0 => \A r \in policies[attached] : r.expires \in Nat
  <2>1. policies \in Seq(SUBSET Rule) /\ attached \in 0 .. Len(policies) /\ Len(policies) \in Nat
    BY LenProperties DEF Tables, PolicyTypeOK
  <2>2. attached # 0 => policies[attached] \in SUBSET Rule
    BY <2>1, ElementOfSeq
  <2> QED
    BY <2>2 DEF Rule
<1>2. ASSUME NEW i \in ListActiveGrants({}), obligations[grants[i].obligation] = "ACTIVE"
      PROVE  Allows(grants[i].obligation)
  <2>1. i \in Owed(grants, obligations, now, {}) /\ now < grants[i].expires
    BY <1>2 DEF ListActiveGrants, Owed
  <2>2. attached # 0
        /\ \E r \in policies[attached] : /\ r.payee = PayeeOf[grants[i].obligation]
                                         /\ grants[i].expires <= r.expires
    BY <2>1 DEF Wallet, Right, Pays
  <2>3. now \in Nat /\ grants[i].expires \in Nat
    BY <2>1, TablesHave DEF Owed
  <2> QED
    BY <1>1, <2>1, <2>2, <2>3 DEF Allows
<1>3. ASSUME NEW o \in U, Allows(o)
      PROVE  ActiveOf(o) \cap ListActiveGrants({}) # {}
  <2>1. PICK r \in policies[attached] : r.payee = PayeeOf[o] /\ now < r.expires /\ attached # 0
    BY <1>3 DEF Allows
  <2>2. PICK i \in DOMAIN grants :
          grants[i].obligation = o /\ grants[i].status = "ACTIVE" /\ r.expires <= grants[i].expires
    BY <2>1 DEF Wallet, Right, Records, Granted
  <2>3. now < grants[i].expires
    BY <1>1, <2>1, <2>2, TablesHave
  <2> QED
    BY <2>2, <2>3 DEF ActiveOf, ListActiveGrants
<1> QED
  BY <1>2, <1>3
=============================================================================
