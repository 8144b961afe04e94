----------------------------- MODULE Continuity -----------------------------
(***************************************************************************)
(* The authority to redirect payments to a backup recipient: a second      *)
(* signer with a policy of its own, on the same wallet as the agent's.     *)
(* Sources: http/routes/continuity.ts, engine/continuityPolicy.ts,         *)
(* persistence/obligations.ts, and in the frontend ContinuitySetup.tsx,    *)
(* reattachSigners.ts and the cache of AppDataContext.tsx.                 *)
(*                                                                         *)
(* A wallet can only be stripped of all signers and given a complete set   *)
(* again, so every flow of OperationsPolicy must put the continuity signer *)
(* back, and the set-up of continuity the agent's.  Each takes the other's *)
(* policy from what the application last read.  One page works at a time.  *)
(***************************************************************************)
EXTENDS OperationsPolicy

CONSTANTS Backups,           \* recipients that may be chosen as backup
          ContinuityDuration, \* continuityGrantDurationSeconds, in ticks
          MaxSetUps          \* bound: continuity policies ever created

ASSUME ContinuityAssumption ==
  /\ None \notin Backups
  /\ ContinuityDuration \in Nat /\ MaxSetUps \in Nat
  /\ Payables = {} /\ CheckoutIds = {}

VARIABLES backup,      \* backup_recipient_id of each obligation
          covers,      \* the newest ACTIVE CONTINUITY grant of each obligation, policy 0 for none
          continuityPolicies, \* the rules of each continuity policy, by id
          attachedContinuity, \* the policy the continuity signer holds, or 0
          setUp,       \* what ContinuitySetup.tsx is doing
          cache,       \* policies found by the last refresh of AppDataContext
          held,        \* the cache as the flow under way was started with
          doubt        \* which authority a stale or failed lookup, or an abandoned set-up, left in doubt

continuityVars == <<backup, covers, continuityPolicies, attachedContinuity, setUp, cache, held, doubt>>
vars == <<policyVars, checkouts, screens, now, continuityVars>>

NothingSeen == [agent |-> 0, continuity |-> 0]

NoSetUp == [step |-> "idle", policy |-> 0, expires |-> 0]

Init ==
  /\ PolicyInit
  /\ backup = [o \in Obligations |-> None]
  /\ covers = [o \in Obligations |-> [policy |-> 0, expires |-> 0]]
  /\ continuityPolicies = << >>
  /\ attachedContinuity = 0
  /\ setUp = NoSetUp
  /\ cache = NothingSeen
  /\ held = NothingSeen
  /\ doubt = {}

-----------------------------------------------------------------------------
(* What the application reads. *)

Active == {o \in Obligations : obligations[o] = "ACTIVE"}

\* listActiveObligationsWithBackupForUser, in an order SQL leaves open.
Covered == {o \in Active : backup[o] # None}

\* GET /users/:id/continuity: the grant of the first covered obligation.
ContinuityStatuses ==
  IF Covered = {} THEN {0} ELSE {covers[o].policy : o \in Covered}

\* The set-up without the agent's signer.
FaultyCurrentAgentSigner == {0}

\* currentAgentSigner: any ACTIVE CYCLE grant, lapsed or not.
CurrentAgentSigner ==
  LET active == {i \in DOMAIN grants : grants[i].status = "ACTIVE"} IN
  IF active = {} THEN {0} ELSE {grants[i].policy : i \in active}

\* A refresh, done at any time after the flow that asked for it; one that fails
\* before the grants leaves the cache as it is, one that fails to look continuity
\* up takes it for not configured.
Refresh ==
  /\ \E agent \in CurrentAgentSigner, continuity \in ContinuityStatuses \cup {0} :
       cache' = [agent |-> agent, continuity |-> continuity]
  /\ UNCHANGED <<policyVars, checkouts, screens, now, backup, covers, continuityPolicies,
                 attachedContinuity, setUp, held, doubt>>

-----------------------------------------------------------------------------
(* The flows of OperationsPolicy, which all work on the shared wallet. *)

\* A handler of NewPayment.tsx or Settings.tsx starts, with the cache it was rendered with.
StartFlow(s) ==
  /\ setUp = NoSetUp
  /\ \/ \E o \in Obligations :
          CreateObligation(s, o) \/ RenewObligation(s, o) \/ CancelObligation(s, o)
     \/ ConfirmKill(s)
  /\ held' = cache
  /\ UNCHANGED <<backup, covers, continuityPolicies, attachedContinuity, setUp, cache, doubt>>

\* removeSigners() takes both.
StripWallet(s) ==
  /\ RemoveSigners(s)
  /\ attachedContinuity' = 0
  /\ UNCHANGED <<backup, covers, continuityPolicies, setUp, cache, held, doubt>>

\* Only the signer that changed.
FaultyReattachAgentSigner(s) ==
  /\ AddSigners(s)
  /\ attachedContinuity' = 0
  /\ doubt' = IF held.continuity \in ContinuityStatuses THEN doubt \ {"agent", "continuity"}
              ELSE (doubt \ {"agent"}) \cup {"continuity"}
  /\ UNCHANGED <<backup, covers, continuityPolicies, setUp, cache, held>>

\* reattachAgentSigner(): the new policy, and continuity as it was last seen.
ReattachAgentSigner(s) ==
  /\ AddSigners(s)
  /\ attachedContinuity' = held.continuity
  /\ doubt' = IF held.continuity \in ContinuityStatuses THEN doubt \ {"agent", "continuity"}
              ELSE (doubt \ {"agent"}) \cup {"continuity"}
  /\ UNCHANGED <<backup, covers, continuityPolicies, setUp, cache, held>>

\* The routes that confirm, and a flow given up.
FinishFlow(s) ==
  /\ GrantRoute(s) \/ CancelConfirm(s) \/ KillSwitchRoute(s) \/ Killed(s) \/ GiveUp(s)
  /\ held' = IF screens'[s] = Idle THEN NothingSeen ELSE held
  /\ UNCHANGED <<backup, covers, continuityPolicies, attachedContinuity, setUp, cache, doubt>>

-----------------------------------------------------------------------------
(* handleSubmit of ContinuitySetup.tsx, and its two routes. *)

\* A route that covers only the obligations that had no backup yet.
FaultySetBackupRecipients(b) ==
  [o \in Obligations |-> IF o \in Active /\ backup[o] = None THEN b ELSE backup[o]]

\* setBackupRecipient, for every ACTIVE obligation.
SetBackupRecipients(b) ==
  [o \in Obligations |-> IF o \in Active THEN b ELSE backup[o]]

\* rebuildContinuityPolicy(): a rule for the backup recipient of every covered obligation.
ContinuityRules(backups) ==
  {[payee |-> backups[o], expires |-> now + ContinuityDuration] :
     o \in {p \in Active : backups[p] # None}}

\* POST /users/:id/continuity, the backup recipients first.
PostContinuity(b) ==
  /\ \A s \in Screens : screens[s] = Idle
  /\ setUp = NoSetUp
  /\ Active # {}
  /\ Len(continuityPolicies) < MaxSetUps
  /\ backup' = SetBackupRecipients(b)
  /\ continuityPolicies' = Append(continuityPolicies, ContinuityRules(SetBackupRecipients(b)))
  /\ setUp' = [step |-> "built", policy |-> Len(continuityPolicies) + 1,
               expires |-> now + ContinuityDuration]
  /\ held' = cache
  /\ doubt' = IF cache.agent \in CurrentAgentSigner THEN doubt ELSE doubt \cup {"agent"}
  /\ UNCHANGED <<policyVars, checkouts, screens, now, covers, attachedContinuity, cache>>

\* The backup recipients are stored, and the policy is not created.
PostContinuityFails(b) ==
  /\ \A s \in Screens : screens[s] = Idle
  /\ setUp = NoSetUp
  /\ Active # {}
  /\ backup' = SetBackupRecipients(b)
  /\ doubt' = doubt \cup {"backup"}
  /\ UNCHANGED <<policyVars, checkouts, screens, now, covers, continuityPolicies,
                 attachedContinuity, setUp, cache, held>>

\* reattachContinuitySigner(): removeSigners().
StripForSetUp ==
  /\ setUp.step = "built"
  /\ attached' = 0
  /\ attachedContinuity' = 0
  /\ setUp' = [setUp EXCEPT !.step = "detached"]
  /\ UNCHANGED <<obligations, grants, policies, interrupted, checkouts, screens, now,
                 backup, covers, continuityPolicies, cache, held, doubt>>

\* reattachContinuitySigner(): addSigners(), with the agent as it was last seen.
ReattachContinuitySigner ==
  /\ setUp.step = "detached"
  /\ attached' = held.agent
  /\ attachedContinuity' = setUp.policy
  /\ setUp' = [setUp EXCEPT !.step = "attached"]
  /\ UNCHANGED <<obligations, grants, policies, interrupted, checkouts, screens, now,
                 backup, covers, continuityPolicies, cache, held, doubt>>

\* POST /users/:id/continuity/grant: every obligation that is covered by now.
RecordContinuityGrant ==
  /\ setUp.step = "attached"
  /\ covers' = [o \in Obligations |->
                  IF o \in Covered THEN [policy |-> setUp.policy, expires |-> setUp.expires]
                  ELSE covers[o]]
  /\ setUp' = NoSetUp
  /\ held' = NothingSeen
  /\ doubt' = doubt \ {"continuity", "backup"}
  /\ UNCHANGED <<policyVars, checkouts, screens, now, backup, continuityPolicies,
                 attachedContinuity, cache>>

\* The user leaves, or a call fails; the wallet may be left without signers.
GiveUpSetUp ==
  /\ setUp.step # "idle"
  /\ setUp' = NoSetUp
  /\ held' = NothingSeen
  /\ interrupted' = (interrupted \/ setUp.step = "detached")
  /\ doubt' = doubt \cup {"backup"}
  /\ UNCHANGED <<obligations, grants, policies, attached, checkouts, screens, now,
                 backup, covers, continuityPolicies, attachedContinuity, cache>>

\* The page ContinuitySetup.tsx: a recipient, known or new, and its one button.
SetUpStep ==
  \/ \E b \in Backups : PostContinuity(b) \/ PostContinuityFails(b)
  \/ StripForSetUp
  \/ ReattachContinuitySigner
  \/ RecordContinuityGrant
  \/ GiveUpSetUp

Next ==
  \/ \E s \in Screens :
       StartFlow(s) \/ StripWallet(s) \/ ReattachAgentSigner(s) \/ FinishFlow(s)
  \/ SetUpStep
  \/ Refresh
  \/ Tick /\ UNCHANGED continuityVars

Spec == Init /\ [][Next]_vars

-----------------------------------------------------------------------------
Quiet == setUp = NoSetUp /\ \A s \in Screens : screens[s] = Idle

\* runDueCycles() redirects the cycles of an obligation, once its user is inactive.
Redirects(o) == obligations[o] = "ACTIVE" /\ backup[o] # None /\ covers[o].policy # 0

AllowsBackup(b) ==
  /\ attachedContinuity # 0
  /\ \E r \in continuityPolicies[attachedContinuity] : r.payee = b /\ now < r.expires

\* A redirection can be paid: between flows, none of them left half done, and
\* as long as each was started from an application that had the current policies
\* and no set-up was abandoned, the continuity signer holds a rule for the backup
\* recipient of every obligation the scheduler would redirect.  Creating,
\* renewing, cancelling and the kill switch take that authority from nobody
\* they leave ACTIVE.
RedirectIsAuthorised ==
  Quiet /\ ~interrupted /\ doubt \cap {"continuity", "backup"} = {} =>
    \A o \in Obligations :
      Redirects(o) /\ now < covers[o].expires => AllowsBackup(backup[o])

\* Setting continuity up leaves the day-to-day authority as it is: with the same
\* provisos the agent may still pay every ACTIVE obligation with a live grant,
\* and no ACTIVE obligation without one.
AgentAuthorityKept ==
  Quiet /\ ~interrupted /\ "agent" \notin doubt =>
    /\ \A i \in ListActiveGrants({}) :
         obligations[grants[i].obligation] = "ACTIVE" => Allows(grants[i].obligation)
    /\ \A o \in Active : Allows(o) => ActiveOf(o) \cap ListActiveGrants({}) # {}

\* A change of the backup recipient reaches every payment it protects: once a
\* set-up is complete, no ACTIVE obligation goes to a former backup recipient
\* while others go to the new one, however often the set-up was repeated,
\* abandoned or failed before.
OneBackup ==
  \A o, p \in Obligations : Redirects(o) /\ Redirects(p) => backup[o] = backup[p]
=============================================================================
