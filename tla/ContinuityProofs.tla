-------------------------- MODULE ContinuityProofs --------------------------
(***************************************************************************)
(* Continuity for any number of obligations, recipients, pages and         *)
(* set-ups, complete, abandoned or failing: no two payments are redirected *)
(* to different backup recipients.  For one page at work: both signers     *)
(* keep the authority that the tables say they have.                       *)
(***************************************************************************)
EXTENDS Continuity, OperationsPolicyProofs

StatusesOK == obligations \in [Obligations -> {"ABSENT", "ACTIVE", "PAUSED", "CANCELLED"}]

\* The obligations that a set-up reached and that are still paid have one backup
\* recipient, and one that does not exist yet has none.
Agree ==
  /\ \A o \in Obligations : obligations[o] = "ABSENT" => backup[o] = None
  /\ \A o, p \in Covered : backup[o] = backup[p]

\* The inductive invariant.  It says nothing of grants, policies or pages: the
\* set-up overwrites the column of every ACTIVE row, and rows that it did not
\* reach are new ones, without a backup recipient, or never ACTIVE again.
BackupInv ==
  /\ StatusesOK
  /\ backup \in [Obligations -> Backups \cup {None}]
  /\ Agree

\* What a flow may do to the status of obligations: nothing, or a creation, or
\* the end of one.
Moves ==
  \/ UNCHANGED obligations
  \/ \E o \in Obligations : obligations[o] = "ABSENT" /\ obligations' = [obligations EXCEPT ![o] = "ACTIVE"]
  \/ \E status \in {"PAUSED", "CANCELLED"} : \E o : obligations' = [obligations EXCEPT ![o] = status]

-----------------------------------------------------------------------------
\* No backup is set at the start.
LEMMA InitBackup == Init => BackupInv
  BY DEF Init, PolicyInit, BackupInv, StatusesOK, Agree, Covered, Active

\* As long as no backup recipient is chosen, the obligations that have one only
\* become fewer: a new one has none.
LEMMA CoveredShrinks ==
  ASSUME BackupInv, Moves, UNCHANGED backup
  PROVE  Covered' \subseteq Covered
<1>1. CASE UNCHANGED obligations
  BY <1>1 DEF Covered, Active
<1>2. ASSUME NEW o \in Obligations, obligations[o] = "ABSENT",
             obligations' = [obligations EXCEPT ![o] = "ACTIVE"]
      PROVE  Covered' \subseteq Covered
  <2>1. backup[o] = None
    BY <1>2 DEF BackupInv, Agree
  <2> QED
    BY <1>2, <2>1 DEF Covered, Active, BackupInv, StatusesOK
<1>3. ASSUME NEW o, NEW status \in {"PAUSED", "CANCELLED"},
             obligations' = [obligations EXCEPT ![o] = status]
      PROVE  Covered' \subseteq Covered
  BY <1>3 DEF Covered, Active, BackupInv, StatusesOK
<1> QED
  BY <1>1, <1>2, <1>3 DEF Moves

\* And so those that must agree do.
LEMMA MovesKeep ==
  ASSUME BackupInv, Moves, UNCHANGED backup
  PROVE  BackupInv'
<1>1. StatusesOK' /\ \A o \in Obligations : obligations'[o] = "ABSENT" => obligations[o] = "ABSENT"
  <2>1. CASE UNCHANGED obligations
    BY <2>1 DEF BackupInv, StatusesOK
  <2>2. ASSUME NEW o, NEW status \in {"ACTIVE", "PAUSED", "CANCELLED"},
               obligations' = [obligations EXCEPT ![o] = status]
        PROVE  <1>1!:
    BY <2>2 DEF BackupInv, StatusesOK
  <2> QED
    BY <2>1, <2>2 DEF Moves
<1>2. Agree'
  BY <1>1, CoveredShrinks DEF Agree, BackupInv
<1> QED
  BY <1>1, <1>2 DEF BackupInv

\* setBackupRecipient on every ACTIVE row: whatever they had before, they agree.
LEMMA ChooseKeeps ==
  ASSUME BackupInv, NEW b \in Backups, backup' = SetBackupRecipients(b), UNCHANGED obligations
  PROVE  BackupInv'
<1>1. backup' \in [Obligations -> Backups \cup {None}]
  BY DEF BackupInv, SetBackupRecipients
<1>2. \A o \in Covered' : backup'[o] = b
  BY DEF Covered, Active, SetBackupRecipients
<1>3. \A o \in Obligations : obligations'[o] = "ABSENT" => backup'[o] = None
  BY DEF BackupInv, Agree, SetBackupRecipients, Active
<1> QED
  BY <1>1, <1>2, <1>3 DEF BackupInv, StatusesOK, Agree

-----------------------------------------------------------------------------
\* The flows of OperationsPolicy leave the column alone.
LEMMA FlowsMove ==
  ASSUME NEW s \in Screens, StartFlow(s) \/ StripWallet(s) \/ ReattachAgentSigner(s) \/ FinishFlow(s)
  PROVE  Moves /\ UNCHANGED backup
<1>1. CASE StartFlow(s)
  <2>1. ASSUME NEW o \in Obligations, CreateObligation(s, o) PROVE Moves
    BY <2>1 DEF CreateObligation, Moves
  <2>2. ASSUME NEW o \in Obligations, RenewObligation(s, o) \/ CancelObligation(s, o) PROVE Moves
    BY <2>2 DEF RenewObligation, CancelObligation, Moves
  <2>3. ASSUME ConfirmKill(s) PROVE Moves
    BY <2>3 DEF ConfirmKill, policyVars, Moves
  <2> QED
    BY <1>1, <2>1, <2>2, <2>3 DEF StartFlow
<1>2. CASE StripWallet(s)
  BY <1>2 DEF StripWallet, RemoveSigners, Moves
<1>3. CASE ReattachAgentSigner(s)
  BY <1>3 DEF ReattachAgentSigner, AddSigners, Moves
<1>4. CASE FinishFlow(s)
  <2>1. ASSUME GrantRoute(s) \/ Killed(s) \/ GiveUp(s) PROVE Moves
    BY <2>1 DEF GrantRoute, Killed, GiveUp, policyVars, Moves
  <2>2. ASSUME CancelConfirm(s) PROVE Moves
    BY <2>2 DEF CancelConfirm, Moves
  <2>3. ASSUME KillSwitchRoute(s) PROVE Moves
    BY <2>3 DEF KillSwitchRoute, Moves
  <2> QED
    BY <1>4, <2>1, <2>2, <2>3 DEF FinishFlow
<1> QED
  BY <1>1, <1>2, <1>3, <1>4

\* Every step keeps the rule.
LEMMA StepBackup ==
  ASSUME BackupInv, [Next]_vars
  PROVE  BackupInv'
<1>1. CASE UNCHANGED vars
  BY <1>1, MovesKeep DEF vars, policyVars, continuityVars, Moves
<1>2. ASSUME NEW s \in Screens,
             StartFlow(s) \/ StripWallet(s) \/ ReattachAgentSigner(s) \/ FinishFlow(s)
      PROVE  BackupInv'
  BY <1>2, FlowsMove, MovesKeep
<1>3. ASSUME NEW b \in Backups, PostContinuity(b) \/ PostContinuityFails(b)
      PROVE  BackupInv'
  BY <1>3, ChooseKeeps DEF PostContinuity, PostContinuityFails, policyVars
<1>4. CASE StripForSetUp \/ ReattachContinuitySigner \/ RecordContinuityGrant \/ GiveUpSetUp
  BY <1>4, MovesKeep DEF StripForSetUp, ReattachContinuitySigner, RecordContinuityGrant,
                         GiveUpSetUp, policyVars, Moves
<1>5. CASE Refresh
  BY <1>5, MovesKeep DEF Refresh, policyVars, Moves
<1>6. CASE Tick /\ UNCHANGED continuityVars
  BY <1>6, MovesKeep DEF Tick, policyVars, continuityVars, Moves
<1> QED
  BY <1>1, <1>2, <1>3, <1>4, <1>5, <1>6 DEF Next, SetUpStep

\* A change of the backup recipient reaches every payment it protects: at no
\* moment do the scheduler's redirections go to two recipients, however set-ups
\* are repeated, abandoned or fail after the recipient was stored, and whatever
\* pages are at work.
THEOREM OneBackupForAll == Spec => []OneBackup
<1>1. BackupInv => OneBackup
  BY DEF BackupInv, Agree, OneBackup, Redirects, Covered, Active
<1>2. BackupInv /\ [Next]_vars => BackupInv'
  BY StepBackup
<1> QED
  BY InitBackup, <1>1, <1>2, PTL DEF Spec

-----------------------------------------------------------------------------
(* The pages and the set-up exclude each other. *)

SetUp == [step : {"idle", "built", "detached", "attached"}, policy : Nat, expires : Nat]

ContinuityRule == [payee : Backups, expires : Nat]

\* The tables are consistent, policies that are recorded or remembered exist, and
\* no page works while a set-up does.
Orderly ==
  /\ Tables
  /\ \A s \in Screens : Promised(s, {})
  /\ \A i \in DOMAIN grants : grants[i].status = "ACTIVE" => grants[i].policy \in 0 .. Len(policies)
  /\ cache.agent \in 0 .. Len(policies) /\ held.agent \in 0 .. Len(policies)
  /\ setUp \in SetUp
  /\ continuityPolicies \in Seq(SUBSET ContinuityRule)
  /\ setUp.step = "idle" => setUp = NoSetUp
  /\ setUp # NoSetUp => \A s \in Screens : screens[s] = Idle

\* A step of a page, with its wallet.
PageStep(s) == StartFlow(s) \/ StripWallet(s) \/ ReattachAgentSigner(s) \/ FinishFlow(s)

\* It is one of the flows, started or continued while no set-up is at work.
LEMMA PageStepIs ==
  ASSUME Orderly, NEW s \in Screens, PageStep(s)
  PROVE  /\ PolicyStep(s) /\ setUp = NoSetUp
         /\ UNCHANGED <<setUp, cache, backup, covers, continuityPolicies>>
         /\ held' \in {held, cache, NothingSeen}
<1>1. UNCHANGED <<setUp, cache, backup, covers, continuityPolicies>>
  BY DEF PageStep, StartFlow, StripWallet, ReattachAgentSigner, FinishFlow
<1>2. PolicyStep(s)
  BY DEF PageStep, StartFlow, StripWallet, ReattachAgentSigner, FinishFlow, PolicyStep
<1>3. held' \in {held, cache, NothingSeen}
  BY DEF PageStep, StartFlow, StripWallet, ReattachAgentSigner, FinishFlow
<1>4. CASE StartFlow(s)
  BY <1>1, <1>2, <1>3, <1>4 DEF StartFlow
<1>5. CASE StripWallet(s) \/ ReattachAgentSigner(s) \/ FinishFlow(s)
  <2>1. screens[s].step # "idle"
    BY <1>5 DEF StripWallet, ReattachAgentSigner, FinishFlow, RemoveSigners, AddSigners,
                GrantRoute, CancelConfirm, KillSwitchRoute, Killed, GiveUp
  <2>2. screens[s] # Idle
    BY <2>1 DEF Idle
  <2> QED
    BY <1>1, <1>2, <1>3, <2>2 DEF Orderly
<1> QED
  BY <1>4, <1>5 DEF PageStep

\* Policies are never forgotten, and the ACTIVE rows name ones that exist.
LEMMA RecordedExist ==
  ASSUME Orderly, NEW s \in Screens, PolicyStep(s)
  PROVE  /\ Len(policies) <= Len(policies')
         /\ \A i \in DOMAIN grants' :
              grants'[i].status = "ACTIVE" => grants'[i].policy \in 0 .. Len(policies')
<1>1. Tables /\ Promised(s, {}) /\ Tables' /\ Len(policies) \in Nat
      /\ \A i \in DOMAIN grants : grants[i].status = "ACTIVE" => grants[i].policy \in 0 .. Len(policies)
  BY PolicyStepOK, TablesHave DEF Orderly
<1>2. CASE GrantRoute(s) \/ CancelConfirm(s)
  <2>1. \A i \in DOMAIN grants' : grants'[i].status = "ACTIVE" => grants'[i].policy = attached'
    BY <1>1, <1>2, GrantPromised, CancelPromised
  <2>2. attached' \in 0 .. Len(policies') /\ UNCHANGED policies
    BY <1>1, <1>2 DEF GrantRoute, CancelConfirm, Tables, PolicyTypeOK
  <2> QED
    BY <1>1, <2>1, <2>2
<1>3. CASE KillSwitchRoute(s)
  <2>1. PICK o : grants' = RevokeActiveGrant(grants, o)
    BY <1>3 DEF KillSwitchRoute
  <2>2. /\ DOMAIN grants' = DOMAIN grants
        /\ \A i \in DOMAIN grants : grants'[i].status = "ACTIVE" => grants'[i] = grants[i]
    BY <1>1, <2>1, RevokeType DEF Tables, PolicyTypeOK
  <2>3. UNCHANGED policies
    BY <1>3 DEF KillSwitchRoute
  <2> QED
    BY <1>1, <2>2, <2>3
<1>4. CASE RemoveSigners(s) \/ AddSigners(s) \/ Killed(s) \/ GiveUp(s) \/ ConfirmKill(s)
  <2>1. UNCHANGED <<grants, policies>>
    BY <1>4 DEF RemoveSigners, AddSigners, Killed, GiveUp, ConfirmKill, policyVars
  <2> QED
    BY <1>1, <2>1
<1>5. ASSUME NEW o \in Obligations,
             CreateObligation(s, o) \/ RenewObligation(s, o) \/ CancelObligation(s, o)
      PROVE  UNCHANGED grants /\ Len(policies') = Len(policies) + 1
  <2>1. UNCHANGED grants /\ \E extra, ex : RebuildOperationsPolicy(extra, ex)
    BY <1>5 DEF CreateObligation, RenewObligation, CancelObligation
  <2>2. \E new : policies' = Append(policies, new)
    BY <2>1 DEF RebuildOperationsPolicy
  <2>3. policies \in Seq(SUBSET Rule)
    BY <1>1 DEF Tables, PolicyTypeOK
  <2>4. policies' \in Seq(SUBSET Rule)
    BY <1>1 DEF Tables, PolicyTypeOK
  <2> QED
    BY <2>1, <2>2, <2>3
<1>6. ASSUME NEW o \in Obligations,
             CreateObligation(s, o) \/ RenewObligation(s, o) \/ CancelObligation(s, o)
      PROVE  /\ Len(policies) <= Len(policies')
             /\ \A i \in DOMAIN grants' :
                  grants'[i].status = "ACTIVE" => grants'[i].policy \in 0 .. Len(policies')
  <2>1. UNCHANGED grants /\ Len(policies') = Len(policies) + 1
    BY <1>5, <1>6
  <2> QED
    BY <1>1, <2>1
<1> QED
  BY <1>2, <1>3, <1>4, <1>6 DEF PolicyStep

\* With one page at work, its steps keep order.
LEMMA PageOrderly ==
  ASSUME Orderly, OnePage, NEW s \in Screens, PageStep(s)
  PROVE  Orderly'
<1>1. /\ PolicyStep(s) /\ setUp = NoSetUp /\ UNCHANGED <<setUp, cache, continuityPolicies>>
      /\ held' \in {held, cache, NothingSeen}
  BY PageStepIs
<1>2. Tables' /\ Len(policies) \in Nat /\ Len(policies') \in Nat
  BY <1>1, PolicyStepOK, TablesHave DEF Orderly, Tables, PolicyTypeOK
<1>3. \A t \in Screens : Promised(t, {})'
  <2>1. Promised(s, {})'
    BY <1>1, PolicyStepPromised DEF Orderly
  <2> QED
    BY <2>1 DEF OnePage
<1>4. /\ Len(policies) <= Len(policies')
      /\ \A i \in DOMAIN grants' :
           grants'[i].status = "ACTIVE" => grants'[i].policy \in 0 .. Len(policies')
  BY <1>1, RecordedExist
<1>5. cache'.agent \in 0 .. Len(policies') /\ held'.agent \in 0 .. Len(policies')
  BY <1>1, <1>2, <1>4 DEF Orderly, NothingSeen
<1> QED
  BY <1>1, <1>2, <1>3, <1>4, <1>5 DEF Orderly

\* What the set-up leaves as it is.
SetUpKeeps == UNCHANGED <<obligations, grants, policies, checkouts, screens, now, cache>>

\* A set-up works while every page is idle, and takes nothing from the tables.
LEMMA SetUpAlone ==
  ASSUME Orderly, SetUpStep
  PROVE  /\ SetUpKeeps /\ \A s \in Screens : screens[s] = Idle
         /\ attached' \in {attached, 0, held.agent}
         /\ held' \in {held, cache, NothingSeen}
<1>1. SetUpKeeps /\ attached' \in {attached, 0, held.agent} /\ held' \in {held, cache, NothingSeen}
  BY DEF SetUpStep, PostContinuity, PostContinuityFails, StripForSetUp, ReattachContinuitySigner,
         RecordContinuityGrant, GiveUpSetUp, policyVars, SetUpKeeps
<1>2. \A s \in Screens : screens[s] = Idle
  BY DEF SetUpStep, PostContinuity, PostContinuityFails, StripForSetUp, NoSetUp,
         ReattachContinuitySigner, RecordContinuityGrant, GiveUpSetUp, Orderly
<1> QED
  BY <1>1, <1>2

\* The policy of a set-up has a rule for the chosen recipient and no other, and
\* follows those that were created before.
LEMMA NewContinuityPolicy ==
  ASSUME Orderly, NEW b \in Backups, PostContinuity(b)
  PROVE  /\ continuityPolicies' \in Seq(SUBSET ContinuityRule)
         /\ Len(continuityPolicies') = Len(continuityPolicies) + 1
         /\ Len(continuityPolicies) \in Nat
         /\ \A a \in 1 .. Len(continuityPolicies) : continuityPolicies'[a] = continuityPolicies[a]
         /\ continuityPolicies'[Len(continuityPolicies) + 1] =
              {[payee |-> b, expires |-> now + ContinuityDuration] : o \in Active}
<1> DEFINE rules == {[payee |-> b, expires |-> now + ContinuityDuration] : o \in Active}
<1>1. now + ContinuityDuration \in Nat
  BY TablesHave, ContinuityAssumption DEF Orderly
<1>2. \A o \in Active : SetBackupRecipients(b)[o] = b /\ b # None
  BY ContinuityAssumption DEF SetBackupRecipients, Active
<1>3. ContinuityRules(SetBackupRecipients(b)) = rules
  BY <1>2 DEF ContinuityRules
<1>4. rules \in SUBSET ContinuityRule
  BY <1>1 DEF ContinuityRule
<1> HIDE DEF rules
<1>5. continuityPolicies' = Append(continuityPolicies, rules)
      /\ continuityPolicies \in Seq(SUBSET ContinuityRule)
  BY <1>3 DEF PostContinuity, Orderly
<1>6. Len(continuityPolicies) \in Nat
  BY <1>5, LenProperties
<1>7. /\ continuityPolicies' \in Seq(SUBSET ContinuityRule)
      /\ Len(continuityPolicies') = Len(continuityPolicies) + 1
      /\ \A a \in 1 .. Len(continuityPolicies) : continuityPolicies'[a] = continuityPolicies[a]
      /\ continuityPolicies'[Len(continuityPolicies) + 1] = rules
  BY <1>4, <1>5, AppendProperties
<1> QED
  BY <1>6, <1>7 DEF rules

\* A set-up keeps order.
LEMMA SetUpOrderly ==
  ASSUME Orderly, OnePage, SetUpStep
  PROVE  Orderly'
<1>1. /\ Tables /\ Len(policies) \in Nat /\ now + ContinuityDuration \in Nat
      /\ SetUpKeeps /\ \A s \in Screens : screens[s] = Idle
      /\ attached' \in {attached, 0, held.agent} /\ held' \in {held, cache, NothingSeen}
  BY SetUpAlone, TablesHave, ContinuityAssumption DEF Orderly
<1>2. held'.agent \in 0 .. Len(policies') /\ attached' \in 0 .. Len(policies')
  BY <1>1, TablesHave DEF Orderly, NothingSeen, SetUpKeeps
<1>3. interrupted' \in BOOLEAN
  BY <1>1 DEF SetUpStep, PostContinuity, PostContinuityFails, StripForSetUp,
         ReattachContinuitySigner, RecordContinuityGrant, GiveUpSetUp, policyVars,
         Tables, PolicyTypeOK
<1>4. Tables'
  BY <1>1, <1>2, <1>3 DEF SetUpKeeps, Tables, PolicyTypeOK, ScreenOK, OneRecorded
<1>5. /\ setUp' \in SetUp /\ (setUp'.step = "idle" => setUp' = NoSetUp)
      /\ continuityPolicies' \in Seq(SUBSET ContinuityRule)
  <2>1. ASSUME NEW b \in Backups, PostContinuity(b)
        PROVE  /\ setUp' \in SetUp /\ setUp'.step # "idle"
               /\ continuityPolicies' \in Seq(SUBSET ContinuityRule)
    BY <1>1, <2>1, NewContinuityPolicy DEF PostContinuity, SetUp
  <2>2. CASE StripForSetUp \/ ReattachContinuitySigner
    BY <2>2 DEF StripForSetUp, ReattachContinuitySigner, SetUp, Orderly
  <2>3. CASE RecordContinuityGrant \/ GiveUpSetUp
    BY <2>3 DEF RecordContinuityGrant, GiveUpSetUp, NoSetUp, SetUp, Orderly
  <2>4. ASSUME NEW b \in Backups, PostContinuityFails(b)
        PROVE  UNCHANGED <<setUp, continuityPolicies>>
    BY <2>4 DEF PostContinuityFails
  <2> QED
    BY <2>1, <2>2, <2>3, <2>4 DEF SetUpStep, Orderly
<1>6. \A s \in Screens : Promised(s, {})'
  <2>1. PICK t : Screens = {t}
    BY DEF OnePage
  <2>2. Known'
    BY <1>1, <2>1 DEF Orderly, Promised, Known, SetUpKeeps
  <2> QED
    BY <1>1, <2>2, IdlePromised DEF SetUpKeeps
<1>7. \A i \in DOMAIN grants' : grants'[i].status = "ACTIVE" => grants'[i].policy \in 0 .. Len(policies')
  BY <1>1 DEF Orderly, SetUpKeeps
<1>8. cache'.agent \in 0 .. Len(policies') /\ \A s \in Screens : screens'[s] = Idle
  BY <1>1 DEF Orderly, SetUpKeeps
<1> QED
  BY <1>2, <1>4, <1>5, <1>6, <1>7, <1>8 DEF Orderly

\* What the application reads of the agent's policy exists.
LEMMA RefreshOrderly ==
  ASSUME Orderly, Refresh
  PROVE  Orderly' /\ UNCHANGED <<policyVars, screens, now, setUp, held>>
<1>1. UNCHANGED <<policyVars, checkouts, screens, now, setUp, held, continuityPolicies>>
  BY DEF Refresh
<1>2. CurrentAgentSigner \subseteq 0 .. Len(policies)
  BY TablesHave DEF Orderly, CurrentAgentSigner
<1>3. cache'.agent \in 0 .. Len(policies)
  BY <1>2 DEF Refresh
<1>4. UNCHANGED <<obligations, grants, policies, attached, interrupted>>
  BY <1>1 DEF policyVars
<1>5. Tables'
  BY <1>1, <1>4 DEF Orderly, Tables, PolicyTypeOK, ScreenOK, OneRecorded
<1>6. \A s \in Screens : Promised(s, {})'
  BY <1>1, <1>4 DEF Orderly, Promised, Known, PageOK, RecordOK, HasPolicy, PolicyOK
<1> QED
  BY <1>1, <1>3, <1>4, <1>5, <1>6 DEF Orderly

\* Time passes.
LEMMA TickOrderly ==
  ASSUME Orderly, Tick, UNCHANGED continuityVars
  PROVE  Orderly'
<1>1. Tables' /\ \A s \in Screens : Promised(s, {})'
  BY TickKeepsTables, TickPromised DEF Orderly
<1>2. UNCHANGED <<grants, policies, screens, cache, held, setUp, continuityPolicies>>
  BY DEF Tick, policyVars, continuityVars
<1> QED
  BY <1>1, <1>2 DEF Orderly

\* Nothing is at work at the start.
LEMMA InitOrderly == Init => Orderly
<1> SUFFICES ASSUME Init PROVE Orderly
  OBVIOUS
<1>1. Tables /\ \A s \in Screens : Promised(s, {})
  BY TablesInit, InitPromised DEF Init
<1>2. grants = << >> /\ policies = << >> /\ Len(policies) = 0 /\ DOMAIN grants = {}
  BY DEF Init, PolicyInit
<1>3. setUp = NoSetUp /\ setUp \in SetUp
  BY DEF Init, NoSetUp, SetUp
<1>4. continuityPolicies \in Seq(SUBSET ContinuityRule)
  BY EmptySeq DEF Init
<1>5. cache.agent = 0 /\ held.agent = 0
  BY DEF Init, NothingSeen
<1> QED
  BY <1>1, <1>2, <1>3, <1>4, <1>5 DEF Orderly

\* With one page at work, every step keeps order.
LEMMA StepOrderly ==
  ASSUME Orderly, OnePage, [Next]_vars
  PROVE  Orderly'
<1>1. ASSUME UNCHANGED vars PROVE Orderly'
  <2>1. UNCHANGED <<obligations, grants, policies, attached, interrupted, checkouts, screens, now,
                    continuityPolicies, setUp, cache, held>>
    BY <1>1 DEF vars, policyVars, continuityVars
  <2>2. Tables'
    BY <2>1 DEF Orderly, Tables, PolicyTypeOK, ScreenOK, OneRecorded
  <2>3. \A s \in Screens : Promised(s, {})'
    BY <2>1 DEF Orderly, Promised, Known, PageOK, RecordOK, HasPolicy, PolicyOK
  <2> QED
    BY <2>1, <2>2, <2>3 DEF Orderly
<1> QED
  BY <1>1, PageOrderly, SetUpOrderly, RefreshOrderly, TickOrderly DEF Next, PageStep

-----------------------------------------------------------------------------
(* The agent's authority. *)

\* The obligations that nobody has stopped.  None ever joins them.
Live == {o \in Obligations : obligations[o] \notin {"PAUSED", "CANCELLED"}}

NowRight(a, U) == Right(policies, grants, obligations, now, a, U)

RecordedRight(U) ==
  \A i \in DOMAIN grants : grants[i].status = "ACTIVE" => NowRight(grants[i].policy, U)

\* A wallet that nobody is changing is right, every ACTIVE grant names a policy
\* that is, and so does what a set-up will put back.
AgentOK(U) ==
  /\ \A s \in Screens :
       /\ Promised(s, U)
       /\ Clean(s) /\ "agent" \notin doubt /\ setUp.step \in {"idle", "built"} => Wallet(U)
  /\ RecordedRight(U)
  /\ setUp # NoSetUp /\ "agent" \notin doubt => NowRight(held.agent, U)
  /\ setUp.step = "attached" => attached = held.agent

\* Whatever a page does, the policies that the ACTIVE grants name stay right.
LEMMA RecordedAreRight ==
  ASSUME Orderly, Distinct, NEW s \in Screens, PolicyStep(s),
         NEW U \in SUBSET Obligations, NEW V \in SUBSET U, \A u \in V : obligations'[u] # "PAUSED",
         AgentOK(U)
  PROVE  RecordedRight(V)'
<1>1. Tables /\ Promised(s, U)
  BY DEF Orderly, AgentOK
<1>2. \A i \in DOMAIN grants : grants[i].status = "ACTIVE" =>
        grants[i].policy \in 0 .. Len(policies)
        /\ Right(policies, grants, obligations, now, grants[i].policy, U)
  BY DEF Orderly, AgentOK, RecordedRight, NowRight
<1>3. ASSUME \A a \in 0 .. Len(policies) :
               Right(policies, grants, obligations, now, a, U)
                 => Right(policies', grants', obligations', now', a, V),
             DOMAIN grants' = DOMAIN grants,
             \A i \in DOMAIN grants : grants'[i].status = "ACTIVE" => grants'[i] = grants[i]
      PROVE  RecordedRight(V)'
  <2> SUFFICES ASSUME NEW i \in DOMAIN grants', grants'[i].status = "ACTIVE"
               PROVE  Right(policies', grants', obligations', now', grants'[i].policy, V)
    BY DEF RecordedRight, NowRight
  <2>1. grants'[i] = grants[i] /\ i \in DOMAIN grants
    BY <1>3
  <2> QED
    BY <1>2, <1>3, <2>1
<1>4. CASE \/ \E o \in Obligations :
                CreateObligation(s, o) \/ RenewObligation(s, o) \/ CancelObligation(s, o)
           \/ ConfirmKill(s)
  <2>1. UNCHANGED grants
    BY <1>4 DEF CreateObligation, RenewObligation, CancelObligation, ConfirmKill, policyVars
  <2>2. \A a \in 0 .. Len(policies) :
          Right(policies, grants, obligations, now, a, U)
            => Right(policies', grants', obligations', now', a, V)
    BY <1>1, <1>4, BeginPromised
  <2> QED
    BY <1>3, <2>1, <2>2
<1>5. CASE RemoveSigners(s) \/ AddSigners(s) \/ Killed(s) \/ GiveUp(s)
  <2>1. UNCHANGED <<grants, obligations, policies, now>>
    BY <1>5 DEF RemoveSigners, AddSigners, Killed, GiveUp, policyVars
  <2>2. \A a \in 0 .. Len(policies) :
          Right(policies, grants, obligations, now, a, U)
            => Right(policies', grants', obligations', now', a, V)
    BY <1>1, <2>1, RightKept
  <2> QED
    BY <1>3, <2>1, <2>2
<1>6. CASE GrantRoute(s) \/ CancelConfirm(s)
  <2>1. /\ Wallet(V)'
        /\ \A i \in DOMAIN grants' : grants'[i].status = "ACTIVE" => grants'[i].policy = attached'
    BY <1>1, <1>6, GrantPromised, CancelPromised
  <2> QED
    BY <2>1 DEF Wallet, RecordedRight, NowRight
<1>7. CASE KillSwitchRoute(s)
  <2>1. PICK o : grants' = RevokeActiveGrant(grants, o)
    BY <1>7 DEF KillSwitchRoute
  <2>2. /\ DOMAIN grants' = DOMAIN grants
        /\ \A i \in DOMAIN grants : grants'[i].status = "ACTIVE" => grants'[i] = grants[i]
    BY <1>1, <2>1, RevokeType DEF Tables, PolicyTypeOK
  <2>3. \A a \in 0 .. Len(policies) :
          Right(policies, grants, obligations, now, a, U)
            => Right(policies', grants', obligations', now', a, V)
    BY <1>1, <1>7, KillPromised
  <2> QED
    BY <1>3, <2>2, <2>3
<1> QED
  BY <1>4, <1>5, <1>6, <1>7 DEF PolicyStep

\* A page at work.
LEMMA PageAgent ==
  ASSUME Orderly, OnePage, Distinct, NEW s \in Screens, PageStep(s),
         NEW U \in SUBSET Obligations, NEW V \in SUBSET U, \A u \in V : obligations'[u] # "PAUSED",
         AgentOK(U)
  PROVE  AgentOK(V)'
<1>1. PolicyStep(s) /\ setUp = NoSetUp /\ setUp' = NoSetUp
  BY PageStepIs
<1>2. setUp.step = "idle" /\ setUp'.step = "idle"
  BY <1>1 DEF NoSetUp
<1>3. Tables /\ Promised(s, U)
  BY DEF Orderly, AgentOK
<1>4. Promised(s, V)' /\ ((Clean(s) => Wallet(U)) /\ Clean(s)' => Wallet(V)')
  BY <1>1, <1>3, PolicyStepPromised
<1>5. Clean(s)' /\ "agent" \notin doubt' => Wallet(V)'
  <2>1. CASE ReattachAgentSigner(s)
    BY <1>3, <2>1, SignersPromised DEF ReattachAgentSigner
  <2>2. CASE StartFlow(s) \/ StripWallet(s) \/ FinishFlow(s)
    <3>1. doubt' = doubt
      BY <2>2 DEF StartFlow, StripWallet, FinishFlow
    <3> QED
      BY <1>2, <1>4, <3>1 DEF AgentOK
  <2> QED
    BY <2>1, <2>2 DEF PageStep
<1>6. RecordedRight(V)'
  BY <1>1, RecordedAreRight
<1> QED
  BY <1>1, <1>2, <1>4, <1>5, <1>6 DEF OnePage, AgentOK

\* The policy that reattachContinuitySigner() would find to put back is right.
LEMMA SeenIsRight ==
  ASSUME Orderly, NEW U, AgentOK(U), cache.agent \in CurrentAgentSigner
  PROVE  NowRight(cache.agent, U)
<1>1. CASE \E i \in DOMAIN grants : grants[i].status = "ACTIVE"
  BY <1>1 DEF CurrentAgentSigner, AgentOK, RecordedRight
<1>2. CASE ~ \E i \in DOMAIN grants : grants[i].status = "ACTIVE"
  <2>1. cache.agent = 0 /\ Owed(grants, obligations, now, {}) = {}
    BY <1>2 DEF CurrentAgentSigner, Owed
  <2> QED
    BY <2>1 DEF NowRight, Right, Pays, Records
<1> QED
  BY <1>1, <1>2

\* A set-up leaves the tables alone, and so the policies that are right.
LEMMA SetUpRight ==
  ASSUME Orderly, SetUpKeeps, NEW U, NEW a, NowRight(a, U)
  PROVE  Right(policies', grants', obligations', now', a, U)
  BY RightKept DEF Orderly, SetUpKeeps, NowRight

\* A set-up at work.
LEMMA SetUpAgent ==
  ASSUME Orderly, OnePage, SetUpStep, NEW U, AgentOK(U)
  PROVE  AgentOK(U)'
<1>1. /\ SetUpKeeps /\ \A s \in Screens : screens[s] = Idle
      /\ \A s \in Screens : screens'[s] = Idle
  BY SetUpAlone DEF SetUpKeeps
<1>2. PICK s : Screens = {s}
  BY DEF OnePage
<1>3. Promised(s, U)' /\ (Clean(s)' => ~interrupted')
  <2>1. Known'
    BY <1>1, <1>2 DEF Orderly, Promised, Known, SetUpKeeps
  <2> QED
    BY <1>1, <1>2, <2>1, IdlePromised DEF Clean
<1>4. RecordedRight(U)'
  BY <1>1, SetUpRight DEF AgentOK, RecordedRight, NowRight, SetUpKeeps
<1>5. ~interrupted /\ "agent" \notin doubt /\ setUp.step \in {"idle", "built"} => NowRight(attached, U)
  BY <1>1, <1>2 DEF AgentOK, Wallet, NowRight, Clean, Idle
<1>6. setUp # NoSetUp /\ "agent" \notin doubt => NowRight(held.agent, U)
  BY DEF AgentOK
<1>7. /\ ~interrupted' /\ "agent" \notin doubt' /\ setUp'.step \in {"idle", "built"}
           => NowRight(attached', U)
      /\ setUp' # NoSetUp /\ "agent" \notin doubt' => NowRight(held'.agent, U)
      /\ setUp'.step = "attached" => attached' = held'.agent
  <2>1. ASSUME NEW b \in Backups, PostContinuity(b)
        PROVE  <1>7!:
    <3>1. /\ setUp.step = "idle" /\ setUp'.step = "built" /\ UNCHANGED <<attached, interrupted>>
          /\ held' = cache
          /\ "agent" \notin doubt' => "agent" \notin doubt /\ cache.agent \in CurrentAgentSigner
      BY <2>1 DEF PostContinuity, NoSetUp, policyVars
    <3> QED
      BY <1>5, <3>1, SeenIsRight
  <2>2. ASSUME NEW b \in Backups, PostContinuityFails(b)
        PROVE  <1>7!:
    <3>1. /\ setUp = NoSetUp /\ setUp' = NoSetUp /\ setUp.step = "idle"
          /\ UNCHANGED <<attached, interrupted>> /\ ("agent" \notin doubt' => "agent" \notin doubt)
      BY <2>2 DEF PostContinuityFails, NoSetUp, policyVars
    <3> QED
      BY <1>5, <3>1
  <2>3. CASE StripForSetUp
    <3>1. setUp # NoSetUp /\ setUp'.step = "detached" /\ UNCHANGED <<held, doubt>>
      BY <2>3 DEF StripForSetUp, NoSetUp, Orderly, SetUp
    <3> QED
      BY <1>6, <3>1
  <2>4. CASE ReattachContinuitySigner
    <3>1. setUp # NoSetUp /\ setUp'.step = "attached" /\ UNCHANGED <<held, doubt>>
          /\ attached' = held.agent
      BY <2>4 DEF ReattachContinuitySigner, NoSetUp, Orderly, SetUp
    <3> QED
      BY <1>6, <3>1
  <2>5. CASE RecordContinuityGrant
    <3>1. setUp.step = "attached" /\ setUp' = NoSetUp /\ UNCHANGED attached
          /\ doubt' = doubt \ {"continuity", "backup"}
      BY <2>5 DEF RecordContinuityGrant, policyVars
    <3>2. setUp # NoSetUp /\ attached = held.agent /\ setUp'.step = "idle"
          /\ ("agent" \notin doubt' => "agent" \notin doubt)
      BY <3>1 DEF NoSetUp, AgentOK
    <3> QED
      BY <1>6, <3>1, <3>2
  <2>6. CASE GiveUpSetUp
    <3>1. /\ setUp # NoSetUp /\ setUp' = NoSetUp /\ setUp'.step = "idle"
          /\ UNCHANGED attached /\ doubt' = doubt \cup {"backup"}
          /\ ~interrupted' => ~interrupted /\ setUp.step \in {"built", "attached"}
      <4>1. setUp.step \in {"built", "detached", "attached"}
        BY <2>6 DEF GiveUpSetUp, Orderly, SetUp
      <4>2. ~interrupted' => ~interrupted /\ setUp.step # "detached"
        BY <2>6, Zenon DEF GiveUpSetUp
      <4>3. /\ setUp # NoSetUp /\ setUp' = NoSetUp /\ setUp'.step = "idle"
            /\ UNCHANGED attached /\ doubt' = doubt \cup {"backup"}
        BY <2>6 DEF GiveUpSetUp, NoSetUp
      <4> QED
        BY <4>1, <4>2, <4>3
    <3>2. setUp.step = "attached" => attached = held.agent
      BY DEF AgentOK
    <3> QED
      BY <1>5, <1>6, <3>1, <3>2
  <2> QED
    BY <2>1, <2>2, <2>3, <2>4, <2>5, <2>6 DEF SetUpStep
<1>8. /\ ~interrupted' /\ "agent" \notin doubt' /\ setUp'.step \in {"idle", "built"}
           => Wallet(U)'
      /\ setUp' # NoSetUp /\ "agent" \notin doubt' => NowRight(held.agent, U)'
  BY <1>1, <1>7, SetUpRight DEF Wallet, NowRight
<1> QED
  BY <1>2, <1>3, <1>4, <1>7, <1>8 DEF AgentOK

\* Lookups and the passing of time.
LEMMA OthersAgent ==
  ASSUME Orderly, OnePage, NEW U, AgentOK(U),
         \/ Refresh
         \/ Tick /\ UNCHANGED continuityVars
         \/ UNCHANGED vars
  PROVE  AgentOK(U)'
<1>1. UNCHANGED <<obligations, grants, policies, attached, interrupted, screens, setUp, held, doubt>>
  BY DEF Refresh, Tick, vars, policyVars, continuityVars
<1>2. PICK s : Screens = {s}
  BY DEF OnePage
<1>3. /\ Promised(s, U)'
      /\ \A a \in 0 .. Len(policies) :
           NowRight(a, U) => Right(policies', grants', obligations', now', a, U)
  <2>1. CASE Tick
    BY <1>2, <2>1, TickPromised DEF Orderly, AgentOK, NowRight
  <2>2. CASE Refresh \/ UNCHANGED vars
    <3>1. UNCHANGED now
      BY <2>2 DEF Refresh, vars
    <3>2. Promised(s, U)'
      BY <1>1, <1>2, <3>1
      DEF AgentOK, Promised, Known, PageOK, RecordOK, HasPolicy, PolicyOK
    <3> QED
      BY <1>1, <3>1, <3>2, RightKept DEF NowRight, Orderly
  <2> QED
    BY <2>1, <2>2
<1>4. Wallet(U) => Wallet(U)'
  BY <1>1, <1>3, TablesHave DEF Wallet, NowRight, Orderly
<1>5. RecordedRight(U)'
  BY <1>1, <1>3 DEF NowRight, Orderly, AgentOK, RecordedRight
<1>6. NowRight(held.agent, U) => NowRight(held.agent, U)'
  BY <1>1, <1>3 DEF NowRight, Orderly
<1>7. Clean(s)' => Clean(s)
  BY <1>1 DEF Clean
<1> QED
  BY <1>1, <1>2, <1>3, <1>4, <1>5, <1>6, <1>7 DEF AgentOK

\* Nobody resumes a payment that was stopped.
LEMMA LiveShrinks ==
  ASSUME Orderly, [Next]_vars
  PROVE  Live' \subseteq Live
<1>1. Moves
  <2>1. ASSUME NEW s \in Screens, PageStep(s) PROVE Moves
    BY <2>1, FlowsMove DEF PageStep
  <2>2. CASE SetUpStep
    BY <2>2, SetUpAlone DEF SetUpKeeps, Moves
  <2>3. CASE Refresh \/ Tick \/ UNCHANGED vars
    BY <2>3 DEF Refresh, Tick, vars, policyVars, Moves
  <2> QED
    BY <2>1, <2>2, <2>3 DEF Next, PageStep
<1> QED
  BY <1>1 DEF Moves, Live, Orderly, Tables, PolicyTypeOK

\* The agent may pay what is granted, and of what nobody has stopped nothing else.
AgentNow == \E U : U = Live /\ AgentOK(U)

\* With one page at work, every step keeps it so.
LEMMA StepAgent ==
  ASSUME Orderly, OnePage, Distinct, AgentNow, [Next]_vars
  PROVE  AgentNow'
<1>1. PICK U : U = Live /\ AgentOK(U)
  BY DEF AgentNow
<1>2. PICK V : V = Live'
  OBVIOUS
<1>3. U \in SUBSET Obligations /\ V \in SUBSET U /\ \A u \in V : obligations'[u] # "PAUSED"
  BY <1>1, <1>2, LiveShrinks DEF Live
<1>4. AgentOK(V)'
  <2>1. ASSUME NEW s \in Screens, PageStep(s) PROVE AgentOK(V)'
    BY <1>1, <1>3, <2>1, PageAgent
  <2>2. CASE SetUpStep \/ Refresh \/ (Tick /\ UNCHANGED continuityVars) \/ UNCHANGED vars
    <3>1. AgentOK(U)'
      BY <1>1, <2>2, SetUpAgent, OthersAgent
    <3>2. UNCHANGED obligations
      BY <2>2, SetUpAlone DEF SetUpKeeps, Refresh, Tick, vars, policyVars
    <3>3. U = V
      BY <1>1, <1>2, <3>2 DEF Live
    <3> QED
      BY <3>1, <3>3
  <2> QED
    BY <2>1, <2>2 DEF Next, PageStep
<1> QED
  BY <1>2, <1>4 DEF AgentNow

\* Nothing is granted at the start.
LEMMA InitAgent == Init => AgentNow
<1> SUFFICES ASSUME Init PROVE \A U : AgentOK(U)
  BY DEF AgentNow
<1>1. \A U : Wallet(U) /\ \A s \in Screens : Promised(s, U)
  BY InitPromised DEF Init
<1>2. DOMAIN grants = {} /\ setUp = NoSetUp /\ setUp.step = "idle"
  BY DEF Init, PolicyInit, NoSetUp
<1> QED
  BY <1>1, <1>2 DEF AgentOK, RecordedRight

\* Setting continuity up, which strips the wallet of both signers and puts the
\* agent's back from what the application last read (reattachSigners.ts), leaves
\* the agent's authority as it is, whenever it was read in time.
THEOREM AgentKept ==
  ASSUME OnePage, Distinct
  PROVE  Spec => []AgentAuthorityKept
<1>1. Init => Orderly /\ AgentNow
  BY InitOrderly, InitAgent
<1>2. Orderly /\ AgentNow /\ [Next]_vars => Orderly' /\ AgentNow'
  BY StepOrderly, StepAgent
<1>3. Orderly /\ AgentNow => AgentAuthorityKept
  <2> SUFFICES ASSUME Orderly, AgentNow, Quiet, ~interrupted, "agent" \notin doubt
               PROVE  /\ \A i \in ListActiveGrants({}) :
                           obligations[grants[i].obligation] = "ACTIVE"
                             => Allows(grants[i].obligation)
                      /\ \A o \in Active : Allows(o) => ActiveOf(o) \cap ListActiveGrants({}) # {}
    BY DEF AgentAuthorityKept
  <2>1. PICK U : U = Live /\ AgentOK(U)
    BY DEF AgentNow
  <2>2. Wallet(U)
    <3>1. PICK s : Screens = {s}
      BY DEF OnePage
    <3> QED
      BY <2>1, <3>1 DEF AgentOK, Quiet, NoSetUp, Clean, Idle
  <2>3. Active \subseteq U
    BY <2>1 DEF Active, Live
  <2> QED
    BY <2>2, <2>3, WalletAllows DEF Orderly
<1> QED
  BY <1>1, <1>2, <1>3, PTL DEF Spec

-----------------------------------------------------------------------------
(* The continuity signer's authority. *)

\* Continuity policy p pays the backup recipient of o until e.
HasRule(o, p, e) ==
  /\ p \in 1 .. Len(continuityPolicies)
  /\ [payee |-> backup[o], expires |-> e] \in continuityPolicies[p]

\* The covers that the tables record name one policy, which pays the recipients
\* they have now; a set-up's policy does so before it is recorded; and a page
\* that has not touched the wallet, or has put the signers back, finds it attached.
CoverOK ==
  /\ setUp = NoSetUp /\ "backup" \notin doubt =>
       \A o \in Covered : /\ HasRule(o, covers[o].policy, covers[o].expires)
                          /\ \A p \in Covered : covers[p] = covers[o]
  /\ setUp # NoSetUp => \A o \in Covered : HasRule(o, setUp.policy, setUp.expires)
  /\ setUp.step = "attached" => attachedContinuity = setUp.policy
  /\ \A s \in Screens :
       /\ setUp = NoSetUp /\ ~interrupted /\ doubt \cap {"continuity", "backup"} = {}
       /\ screens[s].step \in {"idle", "built", "attached"}
       => \A o \in Covered : attachedContinuity = covers[o].policy

\* reattachAgentSigner() puts back the policy that all covers name, or leaves a doubt.
LEMMA PutBack ==
  ASSUME CoverOK, setUp = NoSetUp, NEW s, ReattachAgentSigner(s),
         doubt' \cap {"continuity", "backup"} = {}
  PROVE  \A o \in Covered : attachedContinuity' = covers[o].policy
<1>1. /\ attachedContinuity' = held.continuity
      /\ held.continuity \in ContinuityStatuses /\ "backup" \notin doubt
  BY DEF ReattachAgentSigner
<1>2. \A o, p \in Covered : covers[p] = covers[o]
  BY <1>1 DEF CoverOK
<1> QED
  BY <1>1, <1>2 DEF ContinuityStatuses

\* A page at work.
LEMMA PageCover ==
  ASSUME Orderly, OnePage, BackupInv, CoverOK, NEW s \in Screens, PageStep(s)
  PROVE  CoverOK'
<1>1. /\ setUp = NoSetUp /\ setUp' = NoSetUp /\ setUp'.step # "attached"
      /\ UNCHANGED <<backup, covers, continuityPolicies>>
  BY PageStepIs DEF NoSetUp
<1>2. Covered' \subseteq Covered
  BY FlowsMove, CoveredShrinks DEF PageStep
<1>3. "backup" \notin doubt' => "backup" \notin doubt
  BY DEF PageStep, StartFlow, StripWallet, ReattachAgentSigner, FinishFlow
<1>4. "backup" \notin doubt' =>
        \A o \in Covered' : /\ HasRule(o, covers[o].policy, covers[o].expires)'
                            /\ \A p \in Covered' : covers'[p] = covers'[o]
  BY <1>1, <1>2, <1>3 DEF CoverOK, HasRule
<1>5. screens[s] \in Screen /\ DOMAIN screens = Screens /\ Promised(s, {})
  BY TablesHave DEF Orderly, Tables, PolicyTypeOK
<1>6. ASSUME ~interrupted', doubt' \cap {"continuity", "backup"} = {},
             screens'[s].step \in {"idle", "built", "attached"}
      PROVE  \A o \in Covered' : attachedContinuity' = covers'[o].policy
  <2>1. ASSUME UNCHANGED <<attachedContinuity, doubt>>, ~interrupted,
               screens[s].step \in {"idle", "built", "attached"}
        PROVE  \A o \in Covered' : attachedContinuity' = covers'[o].policy
    BY <1>1, <1>2, <1>6, <2>1 DEF CoverOK
  <2>2. CASE StartFlow(s)
    <3>1. /\ UNCHANGED <<attachedContinuity, doubt>> /\ screens[s] = Idle
          /\ ~interrupted
      <4>1. UNCHANGED interrupted
        BY <2>2 DEF StartFlow, CreateObligation, RenewObligation, CancelObligation, ConfirmKill,
                    policyVars
      <4>2. screens[s] = Idle
        BY <2>2 DEF StartFlow, CreateObligation, RenewObligation, CancelObligation, ConfirmKill,
                    Begin
      <4> QED
        BY <1>6, <2>2, <4>1, <4>2 DEF StartFlow
    <3> QED
      BY <2>1, <3>1 DEF Idle
  <2>3. CASE StripWallet(s)
    BY <1>5, <1>6, <2>3 DEF StripWallet, RemoveSigners, Screen
  <2>4. CASE ReattachAgentSigner(s)
    BY <1>1, <1>2, <1>6, <2>4, PutBack
  <2>5. CASE FinishFlow(s)
    <3>1. UNCHANGED <<attachedContinuity, doubt>>
      BY <2>5 DEF FinishFlow
    <3>2. CASE GrantRoute(s) \/ CancelConfirm(s)
      <4>1. screens[s].step = "attached" /\ UNCHANGED interrupted
        BY <3>2 DEF GrantRoute, CancelConfirm
      <4> QED
        BY <1>6, <2>1, <3>1, <4>1
    <3>3. CASE KillSwitchRoute(s)
      BY <1>5, <1>6, <3>3 DEF KillSwitchRoute, Screen
    <3>4. CASE Killed(s)
      <4>1. \A o \in Obligations : obligations[o] # "ACTIVE"
        BY <1>5, <3>4 DEF Killed, Promised, PageOK
      <4>2. Covered' = {}
        BY <3>4, <4>1 DEF Killed, policyVars, Covered, Active
      <4> QED
        BY <4>2
    <3>5. CASE GiveUp(s)
      <4>1. ~interrupted /\ screens[s].step \notin {"detached", "attached", "revoking"}
        BY <1>6, <3>5, Zenon DEF GiveUp
      <4>2. screens[s].step \in {"pricing", "building", "built"}
        BY <3>5, <4>1 DEF GiveUp
      <4>3. screens[s].step \notin {"pricing", "building"}
        BY <1>5, ContinuityAssumption, TablesHave DEF Orderly, ScreenOK, Promised, PageOK
      <4> QED
        BY <2>1, <3>1, <4>1, <4>2, <4>3
    <3> QED
      BY <2>5, <3>2, <3>3, <3>4, <3>5 DEF FinishFlow
  <2> QED
    BY <2>2, <2>3, <2>4, <2>5 DEF PageStep
<1> QED
  BY <1>1, <1>4, <1>6 DEF OnePage, CoverOK

\* The route of a set-up chooses the recipient of every ACTIVE obligation, and
\* then creates the policy that pays it.
LEMMA PostCover ==
  ASSUME Orderly, CoverOK, NEW b \in Backups, PostContinuity(b)
  PROVE  CoverOK'
<1>1. /\ setUp'.policy = Len(continuityPolicies) + 1 /\ setUp'.step = "built"
      /\ setUp'.expires = now + ContinuityDuration
      /\ backup' = SetBackupRecipients(b) /\ UNCHANGED obligations
  BY DEF PostContinuity, policyVars
<1>2. setUp' # NoSetUp
  BY <1>1 DEF NoSetUp
<1>3. /\ Len(continuityPolicies') = Len(continuityPolicies) + 1
      /\ Len(continuityPolicies) \in Nat
      /\ continuityPolicies'[Len(continuityPolicies) + 1] =
           {[payee |-> b, expires |-> now + ContinuityDuration] : o \in Active}
  BY NewContinuityPolicy
<1>4. ASSUME NEW o \in Covered'
      PROVE  HasRule(o, setUp.policy, setUp.expires)'
  <2>1. o \in Active /\ backup'[o] = b
    BY <1>1 DEF Covered, Active, SetBackupRecipients
  <2>2. [payee |-> b, expires |-> now + ContinuityDuration]
          \in continuityPolicies'[Len(continuityPolicies) + 1]
    BY <1>3, <2>1
  <2> QED
    BY <1>1, <1>3, <2>1, <2>2 DEF HasRule
<1> QED
  BY <1>1, <1>2, <1>4 DEF CoverOK

\* A set-up at work.
LEMMA SetUpCover ==
  ASSUME Orderly, CoverOK, SetUpStep
  PROVE  CoverOK'
<1>1. setUp \in SetUp /\ SetUpKeeps /\ (setUp.step # "idle" => setUp # NoSetUp)
  BY SetUpAlone DEF Orderly, NoSetUp
<1>2. ASSUME NEW b \in Backups, PostContinuityFails(b)
      PROVE  CoverOK'
  <2>1. setUp' = NoSetUp /\ "backup" \in doubt'
    BY <1>2 DEF PostContinuityFails
  <2> QED
    BY <2>1 DEF CoverOK, NoSetUp
<1>3. CASE StripForSetUp \/ ReattachContinuitySigner
  <2>1. /\ setUp # NoSetUp /\ setUp' # NoSetUp /\ UNCHANGED <<obligations, backup, continuityPolicies>>
        /\ setUp'.policy = setUp.policy /\ setUp'.expires = setUp.expires
        /\ setUp'.step = "attached" => attachedContinuity' = setUp'.policy
    <3>1. CASE StripForSetUp
      BY <1>1, <3>1 DEF StripForSetUp, SetUp, NoSetUp
    <3>2. CASE ReattachContinuitySigner
      BY <1>1, <3>2 DEF ReattachContinuitySigner, SetUp, NoSetUp
    <3> QED
      BY <1>3, <3>1, <3>2
  <2>2. Covered' = Covered
    BY <2>1 DEF Covered, Active
  <2> QED
    BY <2>1, <2>2 DEF CoverOK, HasRule
<1>4. CASE RecordContinuityGrant
  <2>1. /\ setUp.step = "attached" /\ setUp # NoSetUp /\ setUp' = NoSetUp
        /\ UNCHANGED <<obligations, backup, continuityPolicies, attachedContinuity>>
    BY <1>1, <1>4 DEF RecordContinuityGrant, policyVars
  <2>2. Covered' = Covered /\ attachedContinuity' = setUp.policy
    BY <2>1 DEF Covered, Active, CoverOK
  <2>3. \A o \in Covered : covers'[o] = [policy |-> setUp.policy, expires |-> setUp.expires]
    BY <1>4 DEF RecordContinuityGrant, Covered, Active
  <2>4. \A o \in Covered : HasRule(o, setUp.policy, setUp.expires)
    BY <2>1 DEF CoverOK
  <2> QED
    BY <2>1, <2>2, <2>3, <2>4 DEF CoverOK, HasRule, NoSetUp
<1>5. CASE GiveUpSetUp
  <2>1. setUp' = NoSetUp /\ "backup" \in doubt'
    BY <1>5 DEF GiveUpSetUp
  <2> QED
    BY <2>1 DEF CoverOK, NoSetUp
<1> QED
  BY <1>2, <1>3, <1>4, <1>5, PostCover DEF SetUpStep

\* Every step keeps the continuity signer's authority.
LEMMA StepCover ==
  ASSUME Orderly, OnePage, BackupInv, CoverOK, [Next]_vars
  PROVE  CoverOK'
<1>1. CASE Refresh \/ (Tick /\ UNCHANGED continuityVars) \/ UNCHANGED vars
  BY <1>1 DEF Refresh, Tick, vars, policyVars, continuityVars, CoverOK, HasRule, Covered, Active
<1> QED
  BY <1>1, PageCover, SetUpCover DEF Next, PageStep

\* Nobody is covered at the start.
LEMMA InitCover == Init => CoverOK
  BY DEF Init, PolicyInit, CoverOK, Covered, Active, NoSetUp

\* When the owner falls silent the backup recipients can be paid: whatever
\* creations, renewals, cancellations, kill switches and set-ups one page went
\* through, between them the continuity signer holds a rule for every redirection
\* the scheduler would make (reattachSigners.ts, routes/continuity.ts:71-142),
\* unless a look-up was stale or a set-up was left half done.
THEOREM RedirectsArePaid ==
  ASSUME OnePage
  PROVE  Spec => []RedirectIsAuthorised
<1>1. Init => Orderly /\ BackupInv /\ CoverOK
  BY InitOrderly, InitBackup, InitCover
<1>2. Orderly /\ BackupInv /\ CoverOK /\ [Next]_vars => Orderly' /\ BackupInv' /\ CoverOK'
  BY StepOrderly, StepBackup, StepCover
<1>3. Orderly /\ BackupInv /\ CoverOK => RedirectIsAuthorised
  <2> SUFFICES ASSUME CoverOK, Quiet, ~interrupted, doubt \cap {"continuity", "backup"} = {},
                      OnePage, Orderly,
                      NEW o \in Obligations, Redirects(o), now < covers[o].expires
               PROVE  AllowsBackup(backup[o])
    BY DEF RedirectIsAuthorised
  <2>1. o \in Covered
    BY DEF Redirects, Covered, Active
  <2>2. attachedContinuity = covers[o].policy
    BY <2>1 DEF OnePage, Quiet, Idle, CoverOK
  <2>3. /\ attachedContinuity \in 1 .. Len(continuityPolicies)
        /\ [payee |-> backup[o], expires |-> covers[o].expires] \in continuityPolicies[attachedContinuity]
    BY <2>1, <2>2 DEF CoverOK, HasRule, Quiet
  <2>4. attachedContinuity # 0
    BY <2>2 DEF Redirects
  <2> QED
    BY <2>3, <2>4 DEF AllowsBackup
<1> QED
  BY <1>1, <1>2, <1>3, PTL DEF Spec

=============================================================================
