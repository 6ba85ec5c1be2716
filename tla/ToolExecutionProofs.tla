------------------------ MODULE ToolExecutionProofs ------------------------
(***************************************************************************)
(* Proofs about ToolExecution for every number of threads, cases and keys, *)
(* every policy and every bound.                                           *)
(*                                                                         *)
(* The inductive invariant has a part for each key, each action row and    *)
(* each open run.  It is preserved because a run holds the lock on its     *)
(* case and every action touches the rows of one case only: Elsewhere says *)
(* what the rows of the other cases keep, and OpenElsewhere that open runs *)
(* keep what they know.                                                    *)
(***************************************************************************)
EXTENDS ToolExecution, LifecycleProofs, TLAPS

-----------------------------------------------------------------------------
(* The inductive invariant *)

\* A key without a result has had no effect, and every provider call made for
\* it was lost; once it has its result, one call more.
KeyOK(k) ==
    /\ keys[k].status = "ABSENT" => keys[k].result = NULL
    /\ keys[k].status = "IN_PROGRESS" => keys[k].result = "APPROVAL_REQUIRED"
    /\ keys[k].result \notin Final => effects[k] = 0 /\ calls[k] = lost[k]
    /\ calls[k] <= 1 + lost[k]

\* An approval is of a row that is there, and while both wait for a decision
\* the row holds what was asked.
RowOK(k) ==
    /\ actions[k].status = "ABSENT" => approvals[k].status = "ABSENT"
    /\ /\ approvals[k].status = "PENDING"
       /\ actions[k].status \in Approvable
       => /\ approvals[k].asked \in Asked
          /\ actions[k].request = approvals[k].asked.request
          /\ actions[k].material = approvals[k].asked.material

\* An effect moves the case on, unless it schedules a retry.
EffectOK(k) ==
    effects[k] > 0 => \/ last[k].request.action = "RETRY_LATER"
                      \/ cases[CaseOf[k]].status \notin Early

\* The keys of the processor's rows.
Planned == {PlannedKey[c] : c \in DOMAIN PlannedKey}

\* The processor plans for a case once.
PlanOK(c) ==
    actions[PlannedKey[c]].status # "ABSENT" => cases[c].status \notin OnWalk

\* What an open run knows of the rows it has locked: its key is undecided; if
\* it was approved, the approval is of its request and still good; if its
\* handler succeeded, the policy it read permitted that.
Locked(x) ==
    /\ CaseOf[x.row] = CaseOf[x.key]
    /\ keys[x.key].result \notin Final
    /\ actions[x.row].status # "ABSENT" \/ x.row \notin Planned
    /\ x.outcome = "APPROVAL_REQUIRED" => x.request # ReadOnly
Approved(x) ==
    /\ x.row = x.key
    /\ approvals[x.row].status = "PENDING"
    /\ clock < approvals[x.row].expires
    /\ actions[x.row].status \in Approvable
    /\ x.request = actions[x.row].request
Permitted(x) ==
    LET c == CaseOf[x.key]
        s == cases[c].status
    IN  /\ (IF x.approved THEN s ELSE Walked(s)) \in SIDE_EFFECT_EXECUTE_STATES
        /\ x.approved => approvals[x.row].asked.material = cases[c].material
        /\ NeedsApproval(x.settings, AtRisk[c], x.request.action)
             => x.approved
        /\ x.request.action \in AUTOMATIC_ACTIONS =>
             x.settings.automatic_recovery_enabled
RunOK(x) ==
    /\ Locked(x)
    /\ x.approved => Approved(x)
    /\ TakesEffect(x) => Permitted(x)

\* lock_recovery_case: a case has one open run at most.
OneRun ==
    \A t, u \in Threads :
      /\ txn[t] # NULL
      /\ txn[u] # NULL
      /\ CaseOf[txn[t].key] = CaseOf[txn[u].key]
      => t = u

KeysOK == \A k \in Keys : KeyOK(k) /\ RowOK(k) /\ EffectOK(k)
PlansOK == \A c \in DOMAIN PlannedKey : PlanOK(c)
RunsOK == \A t \in Threads : txn[t] # NULL => RunOK(txn[t])
PolicyOK == policy \in Policies \cup {MerchantPolicy}

\* The cause for which the case of a key may wait.
Cause(k) ==
    \/ approvals[k].status \in {"PENDING", "EXPIRED"}
    \/ /\ approvals[k].status = "APPROVED"
       /\ effects[k] = 0 \/ TookEffect(k, "RETRY_LATER")
Waits(c) ==
    cases[c].status = "AWAITING_APPROVAL" =>
      \E k \in Keys : CaseOf[k] = c /\ Cause(k)
WaitsOK == \A c \in Cases : Waits(c)

IndInv == /\ TypeOK
          /\ PolicyOK
          /\ OneRun
          /\ KeysOK
          /\ PlansOK
          /\ RunsOK
          /\ WaitsOK

-----------------------------------------------------------------------------
(* What the operators return *)

\* An amount that is rounded is an amount.
LEMMA MoneyIsNat ==
    ASSUME NEW n \in Nat
    PROVE  as_money(n) \in Nat
  BY DEF as_money

\* So is a percentage of what is at risk.
LEMMA DiscountIsNat ==
    ASSUME NEW c \in Cases, NEW percent \in Nat
    PROVE  Discount(c, percent) \in Nat
  <1>1. AtRisk[c] \in Nat
    BY CasesAssumption
  <1>2. AtRisk[c] * percent \in Nat
    BY <1>1
  <1> QED BY <1>2, MoneyIsNat DEF Discount

\* The settings that a stored policy is merged into have their types.
LEMMA SettingsAreTyped ==
    ASSUME PolicyOK
    PROVE  settings \in Settings
  <1>1. CASE policy = MerchantPolicy
    BY <1>1, SettingsAssumption DEF settings
  <1>2. CASE policy \in Policies
    <2>1. policy \in Settings
      BY <1>2, SettingsAssumption
    <2>2. DOMAIN Defaults = DOMAIN policy
      BY <2>1, SettingsAssumption DEF Settings
    <2>3. merge_merchant(Defaults, policy) = policy
      BY <2>1, <2>2 DEF merge_merchant, Settings
    <2> QED BY <2>1, <2>3 DEF settings
  <1> QED BY <1>1, <1>2 DEF PolicyOK

\* What the keys offer are amounts.
LEMMA OffersAreTyped ==
    ASSUME TypeOK
    PROVE  Offers \in [Keys -> Nat]
  BY DEF TypeOK, Offers, ActionRow

\* The result of a successful handler, or the outcome itself, is one that
\* apply_case_outcome knows.
LEMMA OutcomeIsKnown ==
    ASSUME NEW x \in Txn, x.request # ReadOnly, x.outcome \in Result
    PROVE  (IF x.outcome = "SUCCEEDED" THEN CaseOutcome(x.request.action)
            ELSE x.outcome) \in ToolOutcome
  <1>1. x.request.action \in RecoveryActionType
    BY DEF Txn, ProposedAction
  <1>2. CaseOutcome(x.request.action)
          \in {"ACTION_COMPLETED", "RETRY_SCHEDULED", "ESCALATED", "STOPPED"}
    BY <1>1 DEF RecoveryActionType, CaseOutcome
  <1> QED BY <1>2 DEF Result, Final, ToolOutcome

\* Where a run leaves its case.
LEMMA StatusAfterMoves ==
    ASSUME TypeOK, NEW x \in Txn,
           x.outcome = "APPROVAL_REQUIRED" => x.request # ReadOnly
    PROVE  LET s == cases[CaseOf[x.key]].status IN
           /\ StatusAfter(x) \in CaseStatus
           /\ s \notin OnWalk => StatusAfter(x) \notin OnWalk
           /\ s \notin Early => StatusAfter(x) \notin Early
           /\ StatusAfter(x) = "AWAITING_APPROVAL" =>
                s = "AWAITING_APPROVAL" \/ x.outcome = "APPROVAL_REQUIRED"
           /\ /\ TakesEffect(x)
              /\ Permitted(x)
              /\ x.request.action # "RETRY_LATER"
              => StatusAfter(x) \notin Early
  <1> DEFINE s == cases[CaseOf[x.key]].status
             t == IF x.approved THEN s ELSE Walked(s)
             o == IF x.outcome = "SUCCEEDED"
                  THEN CaseOutcome(x.request.action) ELSE x.outcome
  <1>1. s \in CaseStatus
    BY KeysAssumption DEF TypeOK, CaseRow, Txn
  <1>2. /\ t \in CaseStatus
        /\ s \notin OnWalk => t = s
        /\ t = "AWAITING_APPROVAL" => s = "AWAITING_APPROVAL"
    BY <1>1, WalkIs DEF Walked, CaseStatus
  <1>3. CASE x.request = ReadOnly \/ x.outcome \notin Result
    <2>1. StatusAfter(x) = t
      BY <1>3 DEF StatusAfter
    <2>2. ~TakesEffect(x)
      BY <1>3 DEF TakesEffect, Result, Final
    <2> QED BY <1>1, <1>2, <2>1, <2>2 DEF Early
  <1>4. CASE x.request # ReadOnly /\ x.outcome \in Result
    <2>1. StatusAfter(x) = ToolStatus(t, o)
      BY <1>4 DEF StatusAfter
    <2>2. o \in ToolOutcome
      BY <1>4, OutcomeIsKnown
    <2>3. o = "APPROVAL_REQUIRED" => x.outcome = "APPROVAL_REQUIRED"
      <3>1. x.request.action \in RecoveryActionType
        BY <1>4 DEF Txn, ProposedAction
      <3>2. CaseOutcome(x.request.action) # "APPROVAL_REQUIRED"
        BY <3>1 DEF RecoveryActionType, CaseOutcome
      <3> QED BY <3>2
    <2>4. ASSUME TakesEffect(x), Permitted(x),
                 x.request.action # "RETRY_LATER"
          PROVE  ToolStatus(t, o) \notin Early
      <3>1. x.request.action \in RecoveryActionType \ {"RETRY_LATER"}
        BY <1>4, <2>4 DEF Txn, ProposedAction
      <3>2. o \in {"ACTION_COMPLETED", "ESCALATED", "STOPPED"}
        BY <2>4, <3>1 DEF TakesEffect, RecoveryActionType, CaseOutcome
      <3>3. t \in SIDE_EFFECT_EXECUTE_STATES
        BY <2>4 DEF Permitted
      <3> QED BY <1>2, <2>2, <3>2, <3>3, ToolStatusMoves
    <2> HIDE DEF t, o
    <2> QED BY <1>1, <1>2, <2>1, <2>2, <2>3, <2>4, ToolStatuses,
               ToolStatusMoves DEF Early
  <1> QED BY <1>3, <1>4

-----------------------------------------------------------------------------
(* Steps that touch the rows of one case *)

Elsewhere(c) ==
    /\ clock' = clock
    /\ \A d \in Cases \ {c} : cases'[d] = cases[d]
    /\ \A k \in Keys : CaseOf[k] # c =>
         /\ keys'[k] = keys[k]
         /\ actions'[k] = actions[k]
         /\ approvals'[k] = approvals[k]
         /\ effects'[k] = effects[k]
         /\ last'[k] = last[k]
         /\ calls'[k] = calls[k]
         /\ lost'[k] = lost[k]

\* The runs that stay open are on other cases.
Leaves(c) ==
    \A t \in Threads : txn'[t] # NULL => /\ txn'[t] = txn[t]
                                         /\ CaseOf[txn[t].key] # c

\* Runs on other cases stay as they are.
LEMMA OpenElsewhere ==
    ASSUME TypeOK, RunsOK, NEW c \in Cases, Elsewhere(c), Leaves(c)
    PROVE  RunsOK'
  <1> SUFFICES ASSUME NEW t \in Threads, (txn[t] # NULL)'
               PROVE  RunOK(txn[t])'
    BY DEF RunsOK
  <1>1. /\ txn'[t] = txn[t]
        /\ CaseOf[txn[t].key] # c
        /\ txn[t] \in Txn
        /\ RunOK(txn[t])
    BY DEF Leaves, TypeOK, RunsOK
  <1> DEFINE x == txn[t]
  <1>2. /\ x.key \in Keys
        /\ x.row \in Keys
        /\ CaseOf[x.row] = CaseOf[x.key]
        /\ CaseOf[x.key] \in Cases \ {c}
    BY <1>1, KeysAssumption DEF Txn, RunOK, Locked
  <1>3. /\ clock' = clock
        /\ cases'[CaseOf[x.key]] = cases[CaseOf[x.key]]
        /\ keys'[x.key] = keys[x.key]
        /\ actions'[x.row] = actions[x.row]
        /\ approvals'[x.row] = approvals[x.row]
    BY <1>2 DEF Elsewhere
  <1> QED BY <1>1, <1>3
          DEF RunOK, Locked, Approved, Permitted, TakesEffect

\* A step on the rows of one case keeps the invariant if it keeps the parts
\* of that case.
LEMMA StepOn ==
    ASSUME IndInv, TypeOK', PolicyOK',
           NEW c \in Cases, Elsewhere(c), Leaves(c),
           \A k \in Keys : CaseOf[k] = c => (KeyOK(k) /\ RowOK(k)
                                               /\ EffectOK(k))',
           c \in DOMAIN PlannedKey => PlanOK(c)',
           Waits(c)'
    PROVE  IndInv'
  <1>1. OneRun'
    BY DEF IndInv, OneRun, Leaves
  <1>2. KeysOK'
    <2> SUFFICES ASSUME NEW k \in Keys
                 PROVE  (KeyOK(k) /\ RowOK(k) /\ EffectOK(k))'
      BY DEF KeysOK
    <2>1. CASE CaseOf[k] # c
      <3>1. /\ keys'[k] = keys[k]
            /\ actions'[k] = actions[k]
            /\ approvals'[k] = approvals[k]
            /\ effects'[k] = effects[k]
            /\ last'[k] = last[k]
            /\ calls'[k] = calls[k]
            /\ lost'[k] = lost[k]
            /\ cases'[CaseOf[k]] = cases[CaseOf[k]]
        BY <2>1, KeysAssumption DEF Elsewhere
      <3> QED BY <3>1 DEF IndInv, KeysOK, KeyOK, RowOK, EffectOK
    <2> QED BY <2>1
  <1>3. PlansOK'
    <2> SUFFICES ASSUME NEW d \in DOMAIN PlannedKey, d # c
                 PROVE  PlanOK(d)'
      BY DEF PlansOK
    <2>1. /\ d \in Cases
          /\ PlannedKey[d] \in Keys
          /\ CaseOf[PlannedKey[d]] = d
      BY KeysAssumption
    <2> QED BY <2>1 DEF IndInv, PlansOK, PlanOK, Elsewhere
  <1>4. RunsOK'
    BY OpenElsewhere DEF IndInv
  <1>5. WaitsOK'
    <2> SUFFICES ASSUME NEW d \in Cases, d # c,
                        cases'[d].status = "AWAITING_APPROVAL"
                 PROVE  \E k \in Keys : CaseOf[k] = d /\ Cause(k)'
      BY DEF WaitsOK, Waits
    <2>1. cases[d].status = "AWAITING_APPROVAL"
      BY DEF Elsewhere
    <2>2. PICK k \in Keys : CaseOf[k] = d /\ Cause(k)
      BY <2>1 DEF IndInv, WaitsOK, Waits
    <2>3. /\ approvals'[k] = approvals[k]
          /\ effects'[k] = effects[k]
          /\ last'[k] = last[k]
      BY <2>2 DEF Elsewhere
    <2> QED BY <2>2, <2>3 DEF Cause, TookEffect
  <1> QED BY <1>1, <1>2, <1>3, <1>4, <1>5 DEF IndInv

-----------------------------------------------------------------------------
(* Opening a run *)

\* A read proposes no action.
LEMMA ReadOnlyIsNoAction == ReadOnly \notin ProposedAction
  <1>1. ReadOnly.action \notin RecoveryActionType
    BY DEF ReadOnly, RecoveryActionType
  <1> QED BY <1>1 DEF ProposedAction

\* What the verdict says of the value of the case and of the switch.
LEMMA VerdictMeans ==
    ASSUME NEW c \in Cases, NEW request
    PROVE  LET v == Evaluated(c, request) IN
           /\ v \in Verdict
           /\ v = "ALLOW" =>
                ~NeedsApproval(settings, AtRisk[c], request.action)
           /\ v \in {"ALLOW", "APPROVE"} =>
                ~MerchantRules(settings, request.action)
  <1> DEFINE ctx == build_policy_context(c)
             offer == ctx.amount_at_risk * request.percent
  <1>1. ctx.amount_at_risk = AtRisk[c]
    BY DEF build_policy_context
  <1>2. Evaluated(c, request) = EvaluateOffer(settings, ctx, request, offer)
    BY DEF Evaluated, evaluate_action
  <1>3. MerchantRules(settings, request.action) =>
          Denied(settings, ctx, request, offer)
    BY DEF Denied
  <1> HIDE DEF ctx, offer
  <1> QED BY <1>1, <1>2, <1>3 DEF EvaluateOffer, Verdict

\* What an outcome says of the request, the case and the policy.
LEMMA OutcomesMean ==
    ASSUME NEW c \in Cases, NEW s, NEW row \in Keys,
           NEW request \in ProposedAction \cup {ReadOnly},
           NEW approved \in BOOLEAN,
           NEW o \in Outcomes(c, s, row, request, approved)
    PROVE  /\ o \in Outcome
           /\ o = "APPROVAL_REQUIRED" => request # ReadOnly
           /\ o = "SUCCEEDED" /\ request # ReadOnly =>
                /\ s \in SIDE_EFFECT_EXECUTE_STATES
                /\ approved => ~ApprovalStale(c, row)
                /\ NeedsApproval(settings, AtRisk[c], request.action)
                     => approved
                /\ request.action \in AUTOMATIC_ACTIONS
                     => settings.automatic_recovery_enabled
  <1> DEFINE v == IF request = ReadOnly THEN "ALLOW"
                  ELSE Evaluated(c, request)
  <1>1. /\ request # ReadOnly => v = Evaluated(c, request)
        /\ request = ReadOnly => v = "ALLOW"
        /\ v \in Verdict
    BY VerdictMeans DEF Verdict
  <1>2. o \in IF request # ReadOnly /\ s \notin SIDE_EFFECT_EXECUTE_STATES
              THEN {"INVALID_CASE_STATE"}
              ELSE IF v \in {"DENY", "DENY_SOURCE"} THEN {"BLOCKED"}
              ELSE IF v = "APPROVE" /\ ~approved THEN {"APPROVAL_REQUIRED"}
              ELSE IF approved /\ ApprovalStale(c, row)
              THEN {"STALE_APPROVAL"}
              ELSE {"SUCCEEDED"}
                     \cup {p \in {"FAILED"} : request.action \in MayFail}
    BY DEF Outcomes
  <1>3. request # ReadOnly =>
          /\ v = "ALLOW" =>
               ~NeedsApproval(settings, AtRisk[c], request.action)
          /\ v \in {"ALLOW", "APPROVE"} =>
               ~MerchantRules(settings, request.action)
    BY <1>1, VerdictMeans
  <1> HIDE DEF v
  <1>4. /\ o \in Outcome
        /\ o = "APPROVAL_REQUIRED" => request # ReadOnly
    BY <1>1, <1>2 DEF Outcome, Result, Final
  <1>5. ASSUME o = "SUCCEEDED", request # ReadOnly
        PROVE  /\ s \in SIDE_EFFECT_EXECUTE_STATES
               /\ v = "ALLOW" \/ (v = "APPROVE" /\ approved)
               /\ approved => ~ApprovalStale(c, row)
    BY <1>1, <1>2, <1>5 DEF Verdict
  <1> QED BY <1>3, <1>4, <1>5 DEF MerchantRules

\* A run that opens knows what it read, and keeps the case to itself.
LEMMA BeginStep ==
    ASSUME IndInv, NEW t \in Threads, NEW k \in Keys, NEW row \in Keys,
           NEW request \in ProposedAction \cup {ReadOnly},
           NEW approved \in BOOLEAN,
           CaseOf[row] = CaseOf[k],
           actions[row].status # "ABSENT" \/ row \notin Planned,
           approved => /\ row = k
                       /\ Decidable(k)
                       /\ request = actions[k].request,
           Begin(t, k, row, request, approved)
    PROVE  IndInv'
  <1> DEFINE c == CaseOf[k]
             s == IF approved THEN cases[c].status
                  ELSE Walked(cases[c].status)
  <1>0. c \in Cases
    BY KeysAssumption
  <1> DEFINE X(o) == [key |-> k, row |-> row, request |-> request,
                      approved |-> approved, outcome |-> o,
                      settings |-> settings, offers |-> Offers,
                      notified |-> Notified]
  <1>1. PICK o \in Outcomes(c, s, row, request, approved) :
          txn' = [txn EXCEPT ![t] = X(o)]
    BY DEF Begin
  <1> DEFINE x == X(o)
  <1>2. /\ txn[t] = NULL
        /\ Unlocked(c)
        /\ Runs(k, request, approved)
        /\ runs' = runs + 1
        /\ UNCHANGED <<clock, policy, rows, history>>
    BY DEF Begin
  <1>3. /\ o \in Outcome
        /\ o = "APPROVAL_REQUIRED" => request # ReadOnly
        /\ o = "SUCCEEDED" /\ request # ReadOnly =>
             /\ s \in SIDE_EFFECT_EXECUTE_STATES
             /\ approved => ~ApprovalStale(c, row)
             /\ NeedsApproval(settings, AtRisk[c], request.action)
                  => approved
             /\ request.action \in AUTOMATIC_ACTIONS
                  => settings.automatic_recovery_enabled
    <2> HIDE DEF c, s
    <2> QED BY <1>0, OutcomesMean
  <1>4. x \in Txn
    <2>1. settings \in Settings /\ Offers \in [Keys -> Nat]
      BY OffersAreTyped, SettingsAreTyped DEF IndInv
    <2>2. Notified \in SUBSET Keys
      BY DEF Notified
    <2> HIDE DEF c, s
    <2> QED BY <1>3, <2>1, <2>2 DEF Txn
  <1>5. keys[k].result \notin Final
    BY <1>2, NullAssumption DEF IndInv, KeysOK, KeyOK, Runs, Result, Final
  <1>6. RunOK(x)
    <2>1. Locked(x)
      BY <1>3, <1>5 DEF Locked
    <2>2. approved => Approved(x)
      BY DEF Approved, Decidable
    <2>3. ASSUME TakesEffect(x)
          PROVE  Permitted(x)
      <3>1. o = "SUCCEEDED" /\ request # ReadOnly
        BY <2>3 DEF TakesEffect
      <3>2. approved => approvals[row].asked.material = cases[c].material
        <4> SUFFICES ASSUME approved
                     PROVE  approvals[k].asked.material = cases[c].material
          OBVIOUS
        <4>1. /\ approvals[k].asked \in Asked
              /\ actions[k].material = approvals[k].asked.material
          BY DEF IndInv, KeysOK, RowOK, Decidable
        <4>2. actions[k].material # NULL
          BY <4>1, NullAssumption DEF Asked
        <4> QED BY <1>3, <3>1, <4>1, <4>2 DEF ApprovalStale
      <3> QED BY <1>3, <3>1, <3>2 DEF Permitted
    <2> QED BY <2>1, <2>2, <2>3 DEF RunOK
  <1> HIDE DEF x, X, s
  <1>7. /\ txn' = [txn EXCEPT ![t] = x]
        /\ txn \in [Threads -> Txn \cup {NULL}]
        /\ x.key = k
    BY <1>1 DEF x, X, IndInv, TypeOK
  <1>8. RunsOK'
    <2>1. ASSUME NEW u \in Threads, txn'[u] # NULL
          PROVE  RunOK(txn'[u])
      <3>1. CASE u = t
        BY <1>6, <1>7, <3>1
      <3>2. CASE u # t
        BY <1>7, <2>1, <3>2 DEF IndInv, RunsOK
      <3> QED BY <3>1, <3>2
    <2>2. ASSUME NEW u \in Threads, (txn[u] # NULL)'
          PROVE  RunOK(txn[u])'
      <3>1. RunOK(txn'[u])
        BY <2>1, <2>2
      <3> QED BY <1>2, <3>1
              DEF RunOK, Locked, Approved, Permitted, TakesEffect, rows
    <2> QED BY <2>2 DEF RunsOK
  <1>9. OneRun'
    BY <1>2, <1>7 DEF IndInv, OneRun, Unlocked
  <1>10. TypeOK'
    BY <1>2, <1>4, <1>7 DEF IndInv, TypeOK, settings, rows, history
  <1>11. KeysOK' /\ PlansOK' /\ WaitsOK' /\ PolicyOK'
    <2>1. KeysOK'
      BY <1>2 DEF IndInv, KeysOK, KeyOK, RowOK, EffectOK, rows, history
    <2>2. PlansOK' /\ PolicyOK'
      BY <1>2 DEF IndInv, PlansOK, PlanOK, PolicyOK, rows
    <2>3. WaitsOK'
      BY <1>2 DEF IndInv, WaitsOK, Waits, Cause, TookEffect, rows, history
    <2> QED BY <2>1, <2>2, <2>3
  <1> QED BY <1>8, <1>9, <1>10, <1>11 DEF IndInv

-----------------------------------------------------------------------------
(* Steps under the lock of a case that open no run *)

\* A step that only moves a case on: not back to the walk, nor to wait.
LEMMA MoveStep ==
    ASSUME IndInv, NEW c \in Cases, NEW to \in CaseStatus, Unlocked(c),
           cases' = [cases EXCEPT ![c].status = to],
           LET s == cases[c].status IN
             /\ s \notin OnWalk => to \notin OnWalk
             /\ s \notin Early => to \notin Early
             /\ to = "AWAITING_APPROVAL" => s = "AWAITING_APPROVAL",
           UNCHANGED <<clock, policy, actions, keys, approvals,
                       notifications, txn, runs, effects, last, calls, lost,
                       reused, overlapped>>,
           answers' \in [Keys -> SUBSET Result]
    PROVE  IndInv'
  <1> DEFINE s == cases[c].status
  <1>1. /\ cases \in [Cases -> CaseRow]
        /\ s \notin OnWalk => to \notin OnWalk
        /\ s \notin Early => to \notin Early
        /\ to = "AWAITING_APPROVAL" => s = "AWAITING_APPROVAL"
    BY DEF IndInv, TypeOK
  <1> HIDE DEF s
  <1>2. /\ cases' \in [Cases -> CaseRow]
        /\ cases'[c].status = to
        /\ \A d \in Cases \ {c} : cases'[d] = cases[d]
    BY <1>1 DEF CaseRow
  <1>3. TypeOK'
    BY <1>2 DEF IndInv, TypeOK, settings
  <1>4. PolicyOK'
    BY DEF IndInv, PolicyOK
  <1>5. Elsewhere(c)
    BY <1>2 DEF Elsewhere
  <1>6. Leaves(c)
    BY DEF Leaves, Unlocked
  <1>7. ASSUME NEW k \in Keys, CaseOf[k] = c
        PROVE  (KeyOK(k) /\ RowOK(k) /\ EffectOK(k))'
    <2>1. KeyOK(k)' /\ RowOK(k)'
      BY DEF IndInv, KeysOK, KeyOK, RowOK
    <2>2. EffectOK(k)'
      BY <1>1, <1>2, <1>7 DEF IndInv, KeysOK, EffectOK, s
    <2> QED BY <2>1, <2>2
  <1>8. c \in DOMAIN PlannedKey => PlanOK(c)'
    BY <1>1, <1>2 DEF IndInv, PlansOK, PlanOK, s
  <1>9. Waits(c)'
    BY <1>1, <1>2 DEF IndInv, WaitsOK, Waits, Cause, TookEffect, s
  <1> QED BY <1>3, <1>4, <1>5, <1>6, <1>7, <1>8, <1>9, StepOn

\* The walk of a case to POLICY_CHECK keeps the invariant.
LEMMA WalkStep ==
    ASSUME IndInv, NEW c \in Cases, WalkTo(c),
           UNCHANGED <<clock, policy, actions, keys, approvals,
                       notifications, txn, runs, effects, last, calls, lost,
                       reused, overlapped>>,
           answers' \in [Keys -> SUBSET Result]
    PROVE  IndInv'
  <1> DEFINE s == cases[c].status
  <1>1. /\ Unlocked(c)
        /\ cases' = [cases EXCEPT ![c].status = Walked(s)]
        /\ s \in CaseStatus
    BY DEF IndInv, TypeOK, WalkTo, CaseRow
  <1>2. /\ Walked(s) \in CaseStatus
        /\ s \notin OnWalk => Walked(s) = s
        /\ Walked(s) = "AWAITING_APPROVAL" => s = "AWAITING_APPROVAL"
    BY <1>1, WalkIs DEF Walked, CaseStatus
  <1>3. /\ s \notin OnWalk => Walked(s) \notin OnWalk
        /\ s \notin Early => Walked(s) \notin Early
    BY <1>2 DEF Early
  <1> QED BY <1>1, <1>2, <1>3, MoveStep

\* evaluate writes only the walk.
LEMMA ActionEvaluatedStep ==
    ASSUME IndInv, NEW c \in Cases, ActionEvaluated(c)
    PROVE  IndInv'
  BY WalkStep DEF ActionEvaluated, history, IndInv, TypeOK

\* So does a key that answers from its row.
LEMMA ExecuteAnsweredStep ==
    ASSUME IndInv, NEW k \in Keys, NEW request, ExecuteAnswered(k, request)
    PROVE  IndInv'
  <1>1. CaseOf[k] \in Cases
    BY KeysAssumption
  <1>2. keys[k].result \in Result
    BY DEF ExecuteAnswered, Replays, IndInv, TypeOK, KeyRow
  <1>3. answers' \in [Keys -> SUBSET Result]
    BY <1>2 DEF ExecuteAnswered, IndInv, TypeOK
  <1> QED BY <1>1, <1>3, WalkStep DEF ExecuteAnswered

\* An approval that has expired is closed, and the invariant kept.
LEMMA ApproveExpiredStep ==
    ASSUME IndInv, NEW k \in Keys, ApproveExpired(k)
    PROVE  IndInv'
  <1> DEFINE c == CaseOf[k]
  <1>0. c \in Cases
    BY KeysAssumption
  <1>1. /\ UNCHANGED <<clock, policy, cases, actions, keys, notifications,
                       txn, runs, history>>
        /\ Unlocked(c)
        /\ approvals[k].status = "PENDING"
        /\ approvals' = [approvals EXCEPT ![k].status = "EXPIRED"]
        /\ approvals \in [Keys -> ApprovalRow]
    BY DEF ApproveExpired, IndInv, TypeOK
  <1>2. /\ approvals' \in [Keys -> ApprovalRow]
        /\ approvals'[k].status = "EXPIRED"
        /\ \A j \in Keys \ {k} : approvals'[j] = approvals[j]
    BY <1>1 DEF ApprovalRow
  <1>3. TypeOK' /\ PolicyOK'
    BY <1>1, <1>2 DEF IndInv, TypeOK, PolicyOK, settings, history
  <1>4. Elsewhere(c) /\ Leaves(c)
    BY <1>1, <1>2 DEF Elsewhere, Leaves, Unlocked, history
  <1>5. ASSUME NEW j \in Keys
        PROVE  (KeyOK(j) /\ RowOK(j) /\ EffectOK(j))'
    <2>1. KeyOK(j)' /\ EffectOK(j)'
      BY <1>1 DEF IndInv, KeysOK, KeyOK, EffectOK, history
    <2>2. RowOK(j)'
      BY <1>1, <1>2 DEF IndInv, KeysOK, RowOK
    <2> QED BY <2>1, <2>2
  <1>6. c \in DOMAIN PlannedKey => PlanOK(c)'
    BY <1>1 DEF IndInv, PlansOK, PlanOK
  <1>7. Waits(c)'
    BY <1>2 DEF Waits, Cause
  <1> QED BY <1>0, <1>3, <1>4, <1>5, <1>6, <1>7, StepOn

\* So it is by an approval that starts no run.
LEMMA ApproveAnsweredStep ==
    ASSUME IndInv, NEW k \in Keys, ApproveAnswered(k)
    PROVE  IndInv'
  <1> DEFINE c == CaseOf[k]
  <1>0. c \in Cases
    BY KeysAssumption
  <1>1. /\ UNCHANGED <<clock, policy, cases, keys, notifications, txn, runs,
                       effects, last, calls, lost, reused, overlapped>>
        /\ Decidable(k)
        /\ approvals' = [approvals EXCEPT ![k].status = "APPROVED"]
        /\ actions' = [actions EXCEPT ![k].status = "APPROVED"]
        /\ approvals \in [Keys -> ApprovalRow]
        /\ actions \in [Keys -> ActionRow]
    BY DEF ApproveAnswered, IndInv, TypeOK
  <1>2. /\ approvals' \in [Keys -> ApprovalRow]
        /\ approvals'[k].status = "APPROVED"
        /\ \A j \in Keys \ {k} : approvals'[j] = approvals[j]
    BY <1>1 DEF ApprovalRow
  <1>3. /\ actions' \in [Keys -> ActionRow]
        /\ actions'[k].status = "APPROVED"
        /\ \A j \in Keys \ {k} : actions'[j] = actions[j]
    BY <1>1 DEF ActionRow
  <1>4. answers' \in [Keys -> SUBSET Result]
    BY DEF ApproveAnswered, IndInv, TypeOK
  <1>5. TypeOK' /\ PolicyOK'
    BY <1>1, <1>2, <1>3, <1>4 DEF IndInv, TypeOK, PolicyOK, settings
  <1>6. Elsewhere(c) /\ Leaves(c)
    BY <1>1, <1>2, <1>3 DEF Elsewhere, Leaves, Unlocked, Decidable
  <1>7. ASSUME NEW j \in Keys
        PROVE  (KeyOK(j) /\ RowOK(j) /\ EffectOK(j))'
    <2>1. KeyOK(j)' /\ EffectOK(j)'
      BY <1>1 DEF IndInv, KeysOK, KeyOK, EffectOK
    <2>2. RowOK(j)'
      BY <1>1, <1>2, <1>3 DEF IndInv, KeysOK, RowOK
    <2> QED BY <2>1, <2>2
  <1>8. c \in DOMAIN PlannedKey => PlanOK(c)'
    <2>1. actions[k].status # "ABSENT"
      BY <1>1 DEF Decidable, Approvable
    <2> QED BY <1>1, <1>3, <2>1, KeysAssumption
            DEF IndInv, PlansOK, PlanOK
  <1>9. Waits(c)'
    <2> SUFFICES ASSUME cases[c].status = "AWAITING_APPROVAL"
                 PROVE  Cause(k)'
      BY <1>1 DEF Waits
    <2>1. EffectOK(k) /\ effects[k] \in Nat
      BY DEF IndInv, KeysOK, TypeOK
    <2>2. effects[k] = 0 \/ TookEffect(k, "RETRY_LATER")
      BY <2>1 DEF EffectOK, TookEffect, Early
    <2> QED BY <1>1, <1>2, <2>2 DEF Cause, TookEffect
  <1> QED BY <1>0, <1>5, <1>6, <1>7, <1>8, <1>9, StepOn

\* So it is by a rejection.
LEMMA RejectStep ==
    ASSUME IndInv, NEW k \in Keys, Reject(k)
    PROVE  IndInv'
  <1> DEFINE c == CaseOf[k]
             s == cases[c].status
  <1>0. c \in Cases
    BY KeysAssumption
  <1>1. /\ UNCHANGED <<clock, policy, notifications, txn, runs, history>>
        /\ Unlocked(c)
        /\ approvals[k].status # "ABSENT"
        /\ approvals' = [approvals EXCEPT ![k].status = "REJECTED"]
        /\ actions' = [actions EXCEPT ![k].status = "CANCELLED"]
        /\ keys' = IF keys[k].status = "ABSENT" THEN keys
                   ELSE [keys EXCEPT ![k].status = "FAILED"]
        /\ cases' = [cases EXCEPT ![c].status = RejectedStatus(s)]
        /\ approvals \in [Keys -> ApprovalRow]
        /\ actions \in [Keys -> ActionRow]
        /\ keys \in [Keys -> KeyRow]
        /\ cases \in [Cases -> CaseRow]
    BY DEF Reject, IndInv, TypeOK
  <1>2. /\ approvals' \in [Keys -> ApprovalRow]
        /\ approvals'[k].status = "REJECTED"
        /\ \A j \in Keys \ {k} : approvals'[j] = approvals[j]
    BY <1>1 DEF ApprovalRow
  <1>3. /\ actions' \in [Keys -> ActionRow]
        /\ actions'[k].status = "CANCELLED"
        /\ \A j \in Keys \ {k} : actions'[j] = actions[j]
    BY <1>1 DEF ActionRow
  <1>4. /\ keys' \in [Keys -> KeyRow]
        /\ keys'[k].result = keys[k].result
        /\ keys'[k].status \in {keys[k].status, "FAILED"}
        /\ \A j \in Keys \ {k} : keys'[j] = keys[j]
    BY <1>1 DEF KeyRow
  <1>5. /\ s \in CaseStatus
        /\ RejectedStatus(s) \in CaseStatus
        /\ RejectedStatus(s) # "AWAITING_APPROVAL"
        /\ s \notin OnWalk => RejectedStatus(s) \notin OnWalk
        /\ s \notin Early => RejectedStatus(s) \notin Early
    BY <1>0, <1>1, WalkIs DEF CaseRow, RejectedStatus, CaseStatus, Early
  <1>6. /\ cases' \in [Cases -> CaseRow]
        /\ cases'[c].status = RejectedStatus(s)
        /\ \A d \in Cases \ {c} : cases'[d] = cases[d]
    BY <1>0, <1>1, <1>5 DEF CaseRow
  <1>7. TypeOK' /\ PolicyOK'
    BY <1>1, <1>2, <1>3, <1>4, <1>6
    DEF IndInv, TypeOK, PolicyOK, settings, history
  <1>8. Elsewhere(c) /\ Leaves(c)
    BY <1>1, <1>2, <1>3, <1>4, <1>6
    DEF Elsewhere, Leaves, Unlocked, history
  <1>9. ASSUME NEW j \in Keys, CaseOf[j] = c
        PROVE  (KeyOK(j) /\ RowOK(j) /\ EffectOK(j))'
    <2>1. KeyOK(j)'
      BY <1>1, <1>4 DEF IndInv, KeysOK, KeyOK, history
    <2>2. RowOK(j)'
      BY <1>2, <1>3 DEF IndInv, KeysOK, RowOK, Approvable
    <2>3. EffectOK(j)'
      BY <1>1, <1>5, <1>6, <1>9 DEF IndInv, KeysOK, EffectOK, history
    <2> QED BY <2>1, <2>2, <2>3
  <1>10. c \in DOMAIN PlannedKey => PlanOK(c)'
    <2>1. actions[k].status # "ABSENT"
      BY <1>1 DEF IndInv, KeysOK, RowOK
    <2> QED BY <1>3, <1>5, <1>6, <2>1, KeysAssumption
            DEF IndInv, PlansOK, PlanOK
  <1>11. Waits(c)'
    BY <1>5, <1>6 DEF Waits
  <1> QED BY <1>0, <1>7, <1>8, <1>9, <1>10, <1>11, StepOn

-----------------------------------------------------------------------------
(* The processor and the verifier *)

\* A processed case has left the walk; it waits only if it did before or if
\* its planned row has just been given an approval.
LEMMA ProcessedStep ==
    ASSUME IndInv, NEW c \in Cases, NEW v \in Verdict, NEW r \in CaseRow,
           Unlocked(c),
           Processes(c, v),
           cases' = [cases EXCEPT ![c] = r],
           LET s == cases[c].status IN
             /\ r.status \notin OnWalk
             /\ s \notin Early => r.status \notin Early
             /\ r.status = "AWAITING_APPROVAL" =>
                  s = "AWAITING_APPROVAL" \/ (s \in OnWalk /\ v = "APPROVE"),
           UNCHANGED <<clock, policy, keys, notifications, txn, runs, history>>
    PROVE  IndInv'
  <1> DEFINE s == cases[c].status
  <1>1. /\ cases' \in [Cases -> CaseRow]
        /\ cases'[c] = r
        /\ \A d \in Cases \ {c} : cases'[d] = cases[d]
        /\ cases[c].material \in Material
    BY DEF IndInv, TypeOK, CaseRow
  <1>2. PolicyOK' /\ Leaves(c)
    BY DEF IndInv, PolicyOK, Leaves, Unlocked
  <1>3. \A k \in Keys : KeyOK(k)'
    BY DEF IndInv, KeysOK, KeyOK, history
  <1>4. \A k \in Keys : CaseOf[k] = c => EffectOK(k)'
    BY <1>1 DEF IndInv, KeysOK, EffectOK, history
  <1>5. PlanOK(c)'
    BY <1>1 DEF PlanOK
  <1>6. CASE s \notin OnWalk
    <2>1. UNCHANGED <<actions, approvals>>
      BY <1>6 DEF Processes
    <2>2. TypeOK' /\ Elsewhere(c)
      BY <1>1, <2>1 DEF IndInv, TypeOK, settings, history, Elsewhere
    <2>3. \A k \in Keys : RowOK(k)'
      BY <2>1 DEF IndInv, KeysOK, RowOK
    <2>4. Waits(c)'
      BY <1>1, <1>6, <2>1
      DEF IndInv, WaitsOK, Waits, Cause, TookEffect, history
    <2> QED BY <1>2, <1>3, <1>4, <1>5, <2>2, <2>3, <2>4, StepOn
  <1>7. CASE s \in OnWalk
    <2> DEFINE k == PlannedKey[c]
               waits == v = "APPROVE"
    <2>1. c \in DOMAIN PlannedKey /\ Plans(c, v)
      BY <1>7 DEF Processes
    <2>2. k \in Keys /\ CaseOf[k] = c
      BY <2>1, KeysAssumption
    <2>3. actions[k].status = "ABSENT" /\ approvals[k].status = "ABSENT"
      BY <1>7, <2>1, <2>2 DEF IndInv, PlansOK, PlanOK, KeysOK, RowOK
    <2>4. PlannedRequest(c) \in ProposedAction
      <3>1. PlannedAction[c] \in RecoveryActionType
        BY CasesAssumption DEF RecoveryActionType
      <3> QED BY <3>1 DEF PlannedRequest, ProposedAction
    <2> DEFINE row == [status |-> IF waits THEN "APPROVAL_REQUIRED"
                                  ELSE IF v = "ALLOW" THEN "PENDING"
                                  ELSE "BLOCKED",
                       type |-> PlannedAction[c], amount |-> AtRisk[c],
                       created |-> clock,
                       request |-> IF waits THEN PlannedRequest(c) ELSE NULL,
                       material |-> IF waits THEN cases[c].material
                                    ELSE NULL]
               asks == [status |-> "PENDING",
                        expires |-> clock + settings.approval_ttl,
                        asked |-> [request |-> PlannedRequest(c),
                                   material |-> cases[c].material]]
    <2>5. /\ actions' = [actions EXCEPT ![k] = row]
          /\ approvals' = IF waits THEN [approvals EXCEPT ![k] = asks]
                          ELSE approvals
      BY <2>1, <2>3 DEF Plans
    <2>6. row \in ActionRow
      <3>1. /\ PlannedAction[c] \in RecoveryActionType
            /\ AtRisk[c] \in Nat
            /\ clock \in Nat
        BY CasesAssumption DEF RecoveryActionType, IndInv, TypeOK
      <3> QED BY <1>1, <2>4, <3>1 DEF ActionRow
    <2>7. /\ asks \in ApprovalRow
          /\ asks.asked \in Asked
      <3>1. clock + settings.approval_ttl \in Nat
        BY DEF IndInv, TypeOK, Settings
      <3> QED BY <1>1, <2>4, <3>1 DEF ApprovalRow, Asked
    <2>8. /\ row.status # "ABSENT"
          /\ waits => /\ asks.status = "PENDING"
                      /\ row.request = asks.asked.request
                      /\ row.material = asks.asked.material
      OBVIOUS
    <2> HIDE DEF row, asks, k, s
    <2>9. /\ actions' \in [Keys -> ActionRow]
          /\ approvals' \in [Keys -> ApprovalRow]
          /\ actions'[k] = row
          /\ approvals'[k] = IF waits THEN asks ELSE approvals[k]
          /\ \A j \in Keys \ {k} : /\ actions'[j] = actions[j]
                                   /\ approvals'[j] = approvals[j]
      BY <2>2, <2>5, <2>6, <2>7 DEF IndInv, TypeOK
    <2>10. TypeOK' /\ Elsewhere(c)
      BY <1>1, <2>2, <2>9 DEF IndInv, TypeOK, settings, history, Elsewhere
    <2>11. ASSUME NEW j \in Keys
           PROVE  RowOK(j)'
      <3>1. CASE j = k
        BY <2>3, <2>7, <2>8, <2>9, <3>1 DEF RowOK
      <3>2. CASE j # k
        BY <2>9, <3>2 DEF IndInv, KeysOK, RowOK
      <3> QED BY <3>1, <3>2
    <2>12. Waits(c)'
      <3> SUFFICES ASSUME r.status = "AWAITING_APPROVAL"
                   PROVE  Cause(k)'
        BY <1>1, <2>2 DEF Waits
      <3>1. waits
        BY <1>7, WalkIs DEF s
      <3> QED BY <2>8, <2>9, <3>1 DEF Cause
    <2> QED BY <1>2, <1>3, <1>4, <1>5, <2>10, <2>11, <2>12, StepOn
  <1> QED BY <1>6, <1>7

\* The processor keeps the invariant.
LEMMA ProcessStep ==
    ASSUME IndInv, NEW c \in Cases, Process(c)
    PROVE  IndInv'
  <1> DEFINE s == cases[c].status
  <1>1. PICK v \in Verdict :
          /\ Processes(c, v)
          /\ cases' = [cases EXCEPT ![c].status = Processed(s, v)]
    BY DEF Process
  <1>2. cases[c] \in CaseRow /\ s \in CaseStatus
    BY DEF IndInv, TypeOK, CaseRow
  <1>3. /\ Processed(s, v) \in CaseStatus
        /\ Processed(s, v) \notin OnWalk
        /\ s \notin Early => Processed(s, v) \notin Early
        /\ Processed(s, v) = "AWAITING_APPROVAL" =>
             s = "AWAITING_APPROVAL" \/ (s \in OnWalk /\ v = "APPROVE")
    BY <1>2, ProcessedStatus, ProcessedStatusMoves
  <1> DEFINE r == [cases[c] EXCEPT !.status = Processed(s, v)]
  <1>4. /\ r \in CaseRow
        /\ r.status = Processed(s, v)
        /\ cases' = [cases EXCEPT ![c] = r]
    BY <1>1, <1>2, <1>3 DEF CaseRow
  <1> HIDE DEF r
  <1>5. /\ Unlocked(c)
        /\ UNCHANGED <<clock, policy, keys, notifications, txn, runs, history>>
    BY DEF Process
  <1> QED BY <1>1, <1>3, <1>4, <1>5, ProcessedStep

\* The verifier keeps it.
LEMMA VerifyStep ==
    ASSUME IndInv, NEW c \in Cases, NEW found \in Findings[c],
           Verify(c, found)
    PROVE  IndInv'
  <1> DEFINE s == cases[c].status
             After(p) ==
               LET decided == p = "ACTION_COMPLETED" IN
               [status |-> IF ~decided THEN p
                           ELSE IF found = "NONE" THEN "RECOVERED"
                           ELSE "NOT_RECOVERED",
                material |-> IF found = "NONE" /\ ~decided
                             THEN cases[c].material ELSE found,
                retried |-> cases[c].retried]
  <1>1. PICK v \in Verdict :
          /\ Processes(c, v)
          /\ cases' = [cases EXCEPT ![c] = After(Processed(s, v))]
    BY DEF Verify
  <1>2. cases[c] \in CaseRow /\ s \in CaseStatus
    BY DEF IndInv, TypeOK, CaseRow
  <1> DEFINE p == Processed(s, v)
             r == After(p)
  <1>3. /\ p \in CaseStatus
        /\ p \notin OnWalk
        /\ s \notin Early => p \notin Early
        /\ p = "AWAITING_APPROVAL" =>
             s = "AWAITING_APPROVAL" \/ (s \in OnWalk /\ v = "APPROVE")
    BY <1>2, ProcessedStatus, ProcessedStatusMoves
  <1>4. found \in Material
    BY FindingsAssumption DEF Material
  <1> HIDE DEF s
  <1>5. /\ r \in CaseRow
        /\ r.status \in {p} \cup {"RECOVERED", "NOT_RECOVERED"}
    <2> HIDE DEF p
    <2> QED BY <1>2, <1>3, <1>4 DEF CaseRow, CaseStatus
  <1> HIDE DEF p, r
  <1>6. /\ r.status \notin OnWalk
        /\ s \notin Early => r.status \notin Early
        /\ r.status = "AWAITING_APPROVAL" =>
             s = "AWAITING_APPROVAL" \/ (s \in OnWalk /\ v = "APPROVE")
    BY <1>3, <1>5, WalkIs DEF Early
  <1>7. /\ Unlocked(c)
        /\ UNCHANGED <<clock, policy, keys, notifications, txn, runs, history>>
    BY DEF Verify
  <1> QED BY <1>1, <1>5, <1>6, <1>7, ProcessedStep DEF p, r, s

-----------------------------------------------------------------------------
(* Committing a run *)

\* The row a run writes.
LEMMA UpsertedRow ==
    ASSUME TypeOK, NEW x \in Txn, x.outcome \in Result, x.request # ReadOnly
    PROVE  LET row == _upsert_action(x) IN
           /\ row \in ActionRow
           /\ row.status = x.outcome
           /\ x.outcome = "APPROVAL_REQUIRED" =>
                /\ row.request = x.request
                /\ row.material = cases[CaseOf[x.key]].material
  <1> DEFINE c == CaseOf[x.key]
             old == actions[x.row]
             base == IF old.status # "ABSENT" THEN old
                     ELSE [NoAction EXCEPT !.type = x.request.action,
                                           !.amount = AtRisk[c],
                                           !.created = clock]
  <1>1. /\ x.request \in ProposedAction
        /\ x.request.action \in RecoveryActionType
        /\ x.request.percent \in Nat
        /\ c \in Cases
        /\ AtRisk[c] \in Nat
        /\ old \in ActionRow
        /\ clock \in Nat
        /\ cases[c].material \in Material
    BY KeysAssumption, CasesAssumption
    DEF Txn, ProposedAction, TypeOK, CaseRow
  <1>2. base \in ActionRow
    BY <1>1 DEF ActionRow, NoAction
  <1> HIDE DEF base
  <1>3. AmountOf(x, base.amount) \in Nat
    BY <1>1, <1>2, DiscountIsNat DEF AmountOf, ActionRow
  <1>4. _upsert_action(x) =
          [base EXCEPT
             !.status = x.outcome,
             !.amount = AmountOf(x, base.amount),
             !.request = IF x.outcome = "BLOCKED" THEN base.request
                         ELSE x.request,
             !.material = IF x.outcome = "APPROVAL_REQUIRED"
                          THEN cases[c].material ELSE base.material]
    BY DEF _upsert_action, base
  <1> DEFINE amount == AmountOf(x, base.amount)
  <1> HIDE DEF amount, c
  <1> QED BY <1>1, <1>2, <1>3, <1>4 DEF amount, c, ActionRow, Result, Final

\* An open run leaves rows of their tables' types.
LEMMA AfterIsTyped ==
    ASSUME TypeOK, NEW x \in Txn,
           x.outcome = "APPROVAL_REQUIRED" => x.request # ReadOnly
    PROVE  /\ ActionAfter(x) \in ActionRow
           /\ KeyAfter(x) \in KeyRow
           /\ ApprovalAfter(x) \in ApprovalRow
  <1>1. /\ x.key \in Keys
        /\ x.row \in Keys
        /\ CaseOf[x.key] \in Cases
    BY KeysAssumption DEF Txn
  <1>2. ActionAfter(x) \in ActionRow
    <2>1. CASE x.outcome \in Result /\ x.request # ReadOnly
      BY <2>1, UpsertedRow DEF ActionAfter
    <2>2. CASE ~(x.outcome \in Result /\ x.request # ReadOnly)
      <3>1. ActionAfter(x) \in
              {actions[x.row],
               [actions[x.row] EXCEPT !.status = "APPROVED"]}
        BY <2>2 DEF ActionAfter
      <3>2. actions[x.row] \in ActionRow
        BY <1>1 DEF TypeOK
      <3> QED BY <3>1, <3>2 DEF ActionRow
    <2> QED BY <2>1, <2>2
  <1>3. KeyAfter(x) \in KeyRow
    <2>1. keys[x.key] \in KeyRow
      BY <1>1 DEF TypeOK
    <2>2. x.request \in ProposedAction \cup {ReadOnly}
      BY DEF Txn
    <2> QED BY <2>1, <2>2 DEF KeyAfter, KeyRow
  <1>4. ApprovalAfter(x) \in ApprovalRow
    <2>1. CASE x.outcome = "APPROVAL_REQUIRED"
      <3>1. /\ x.request \in ProposedAction
            /\ cases[CaseOf[x.key]].material \in Material
            /\ clock + x.settings.approval_ttl \in Nat
        BY <1>1, <2>1 DEF Txn, TypeOK, CaseRow, Settings
      <3> QED BY <2>1, <3>1 DEF ApprovalAfter, ApprovalRow, Asked
    <2>2. CASE x.outcome # "APPROVAL_REQUIRED"
      <3>1. ApprovalAfter(x) \in
              {approvals[x.row],
               [approvals[x.row] EXCEPT !.status = "APPROVED"]}
        BY <2>2 DEF ApprovalAfter
      <3>2. approvals[x.row] \in ApprovalRow
        BY <1>1 DEF TypeOK
      <3> QED BY <3>1, <3>2 DEF ApprovalRow
    <2> QED BY <2>1, <2>2
  <1> QED BY <1>2, <1>3, <1>4

\* What a run leaves of its key is undecided only if it did nothing.
LEMMA KeyAfterOK ==
    ASSUME TypeOK, NEW x \in Txn, KeyOK(x.key), Locked(x)
    PROVE  LET k == x.key
               row == KeyAfter(x)
           IN  /\ row.status # "ABSENT"
               /\ row.status = "IN_PROGRESS" =>
                    row.result = "APPROVAL_REQUIRED"
               /\ row.result \notin Final =>
                    ~TakesEffect(x) /\ ~CallsProvider(x)
               /\ effects[k] = 0
               /\ calls[k] = lost[k]
  BY DEF KeyOK, Locked, KeyAfter, TakesEffect, CallsProvider, Result, Final

\* A row that a run leaves waiting holds what its approval asks.
LEMMA RowAfterOK ==
    ASSUME TypeOK, NEW x \in Txn, RowOK(x.row), Locked(x)
    PROVE  LET a == ActionAfter(x)
               p == ApprovalAfter(x)
           IN  /\ a.status = "ABSENT" =>
                    actions[x.row].status = "ABSENT" /\ p.status = "ABSENT"
               /\ p.status = "PENDING" /\ a.status \in Approvable =>
                    /\ p.asked \in Asked
                    /\ a.request = p.asked.request
                    /\ a.material = p.asked.material
  <1>1. /\ x.row \in Keys
        /\ cases[CaseOf[x.key]].material \in Material
        /\ actions[x.row] \in ActionRow
        /\ approvals[x.row] \in ApprovalRow
    BY KeysAssumption DEF Txn, TypeOK, CaseRow
  <1>2. CASE x.outcome = "APPROVAL_REQUIRED"
    <2>1. x.request \in ProposedAction /\ x.request # ReadOnly
      BY <1>2 DEF Locked, Txn
    <2>2. /\ ActionAfter(x).status = "APPROVAL_REQUIRED"
          /\ ActionAfter(x).request = x.request
          /\ ActionAfter(x).material = cases[CaseOf[x.key]].material
      BY <1>2, <2>1, UpsertedRow DEF ActionAfter, Result
    <2>3. ApprovalAfter(x).asked =
            [request |-> x.request,
             material |-> cases[CaseOf[x.key]].material]
      BY <1>2 DEF ApprovalAfter
    <2> QED BY <1>1, <2>1, <2>2, <2>3 DEF Asked
  <1>3. CASE x.outcome # "APPROVAL_REQUIRED" /\ x.approved
    <2>1. ApprovalAfter(x).status = "APPROVED"
      BY <1>1, <1>3 DEF ApprovalAfter, ApprovalRow
    <2>2. ActionAfter(x).status # "ABSENT"
      <3>1. CASE x.outcome \in Result /\ x.request # ReadOnly
        BY <3>1, UpsertedRow DEF ActionAfter, Result, Final
      <3>2. CASE ~(x.outcome \in Result /\ x.request # ReadOnly)
        BY <1>1, <1>3, <3>2 DEF ActionAfter, ActionRow
      <3> QED BY <3>1, <3>2
    <2> QED BY <2>1, <2>2
  <1>4. CASE x.outcome # "APPROVAL_REQUIRED" /\ ~x.approved
    <2>1. ApprovalAfter(x) = approvals[x.row]
      BY <1>4 DEF ApprovalAfter
    <2>2. CASE x.outcome \in Result /\ x.request # ReadOnly
      <3>1. ActionAfter(x).status = x.outcome /\ x.outcome \in Final
        BY <1>4, <2>2, UpsertedRow DEF ActionAfter, Result
      <3> QED BY <3>1 DEF Final, Approvable
    <2>3. CASE ~(x.outcome \in Result /\ x.request # ReadOnly)
      <3>1. ActionAfter(x) = actions[x.row]
        BY <1>4, <2>3 DEF ActionAfter
      <3> QED BY <2>1, <3>1 DEF RowOK
    <2> QED BY <2>2, <2>3
  <1> QED BY <1>2, <1>3, <1>4

\* The commit of a run keeps it, on the rows that the run had locked.
LEMMA CommitStep ==
    ASSUME IndInv, NEW t \in Threads, Commit(t)
    PROVE  IndInv'
  <1>0. PICK x \in Txn : x = txn[t] /\ RunOK(x)
    BY DEF Commit, IndInv, TypeOK, RunsOK
  <1> DEFINE k == x.key
             c == CaseOf[k]
             s == cases[c].status
             after == StatusAfter(x)
  <1>1. /\ k \in Keys
        /\ x.row \in Keys
        /\ c \in Cases
        /\ CaseOf[x.row] = c
    BY <1>0, KeysAssumption DEF RunOK, Locked, Txn
  <1>2. /\ Locked(x)
        /\ x.approved => Approved(x)
        /\ TakesEffect(x) => Permitted(x)
        /\ KeyOK(k)
        /\ RowOK(x.row)
    BY <1>0, <1>1 DEF RunOK, IndInv, KeysOK
  <1>3. /\ after \in CaseStatus
        /\ s \notin OnWalk => after \notin OnWalk
        /\ s \notin Early => after \notin Early
        /\ after = "AWAITING_APPROVAL" =>
             s = "AWAITING_APPROVAL" \/ x.outcome = "APPROVAL_REQUIRED"
        /\ TakesEffect(x) /\ x.request.action # "RETRY_LATER"
             => after \notin Early
    BY <1>1, <1>2, StatusAfterMoves DEF Locked, IndInv
  <1>4. /\ ActionAfter(x) \in ActionRow
        /\ KeyAfter(x) \in KeyRow
        /\ ApprovalAfter(x) \in ApprovalRow
    BY <1>1, <1>2, AfterIsTyped DEF Locked, IndInv
  <1>5. /\ KeyAfter(x).status # "ABSENT"
        /\ KeyAfter(x).status = "IN_PROGRESS" =>
             KeyAfter(x).result = "APPROVAL_REQUIRED"
        /\ KeyAfter(x).result \notin Final =>
             ~TakesEffect(x) /\ ~CallsProvider(x)
        /\ effects[k] = 0
        /\ calls[k] = lost[k]
    BY <1>1, <1>2, KeyAfterOK DEF IndInv
  <1>6. /\ ActionAfter(x).status = "ABSENT" =>
             /\ actions[x.row].status = "ABSENT"
             /\ ApprovalAfter(x).status = "ABSENT"
        /\ ApprovalAfter(x).status = "PENDING"
             /\ ActionAfter(x).status \in Approvable =>
             /\ ApprovalAfter(x).asked \in Asked
             /\ ActionAfter(x).request = ApprovalAfter(x).asked.request
             /\ ActionAfter(x).material = ApprovalAfter(x).asked.material
    BY <1>1, <1>2, RowAfterOK DEF IndInv
  <1>7. \/ ApprovalAfter(x).status = "PENDING"
        \/ x.outcome # "APPROVAL_REQUIRED" /\ x.row = k
             /\ ApprovalAfter(x).status = "APPROVED"
        \/ x.outcome # "APPROVAL_REQUIRED"
             /\ ApprovalAfter(x) = approvals[x.row]
    <2>1. approvals[x.row] \in ApprovalRow
      BY <1>1 DEF IndInv, TypeOK
    <2> QED BY <1>2, <2>1 DEF ApprovalAfter, ApprovalRow, Approved
  <1>8. x.outcome = "APPROVAL_REQUIRED" =>
          ApprovalAfter(x).status = "PENDING"
    BY DEF ApprovalAfter
  <1> DEFINE mark == [row |-> x.row, request |-> x.request, at |-> clock]
  <1>9. /\ TakesEffect(x) => /\ effects' = [effects EXCEPT ![k] = @ + 1]
                             /\ last' = [last EXCEPT ![k] = mark]
        /\ ~TakesEffect(x) => UNCHANGED <<effects, last>>
        /\ TakesEffect(x) => mark \in Effect
    <2>1. TakesEffect(x) => x.request \in ProposedAction
      BY <1>1 DEF TakesEffect, Txn
    <2>2. clock \in Nat
      BY DEF IndInv, TypeOK
    <2> QED BY <1>0, <1>1, <2>1, <2>2 DEF Commit, Effect
  <1>10. /\ cases' = [cases EXCEPT ![c] = CaseAfter(x)]
         /\ actions' = [actions EXCEPT ![x.row] = ActionAfter(x)]
         /\ keys' = [keys EXCEPT ![k] = KeyAfter(x)]
         /\ approvals' = [approvals EXCEPT ![x.row] = ApprovalAfter(x)]
         /\ txn' = [txn EXCEPT ![t] = NULL]
         /\ calls' = IF CallsProvider(x) THEN [calls EXCEPT ![k] = @ + 1]
                     ELSE calls
         /\ UNCHANGED <<clock, policy, runs, lost>>
    BY <1>0 DEF Commit
  <1>11. /\ notifications' \in [Keys -> Nat \cup {NULL}]
         /\ answers' \in [Keys -> SUBSET Result]
         /\ reused' \in SUBSET Keys
         /\ overlapped' \in SUBSET {"discount", "reminder"}
    <2>1. Overlaps(x) \subseteq {"discount", "reminder"}
      BY DEF Overlaps
    <2> QED BY <1>0, <1>1, <2>1 DEF Commit, IndInv, TypeOK
  <1>12. mark.request = x.request
    OBVIOUS
  <1> HIDE DEF k, c, s, after, mark
  <1>13. /\ cases' \in [Cases -> CaseRow]
         /\ cases'[c].status = after
         /\ \A d \in Cases \ {c} : cases'[d] = cases[d]
    <2>1. /\ cases \in [Cases -> CaseRow]
          /\ cases[c] \in CaseRow
      BY <1>1 DEF IndInv, TypeOK
    <2>2. CaseAfter(x) \in CaseRow /\ CaseAfter(x).status = after
      BY <1>3, <2>1 DEF CaseAfter, CaseRow, after, c, k
    <2> QED BY <1>1, <1>10, <2>1, <2>2
  <1>14. /\ actions' \in [Keys -> ActionRow]
         /\ actions'[x.row] = ActionAfter(x)
         /\ approvals' \in [Keys -> ApprovalRow]
         /\ approvals'[x.row] = ApprovalAfter(x)
         /\ \A j \in Keys \ {x.row} : /\ actions'[j] = actions[j]
                                      /\ approvals'[j] = approvals[j]
    BY <1>1, <1>4, <1>10 DEF IndInv, TypeOK
  <1>15. /\ keys' \in [Keys -> KeyRow]
         /\ keys'[k] = KeyAfter(x)
         /\ \A j \in Keys \ {k} : keys'[j] = keys[j]
    BY <1>1, <1>4, <1>10 DEF IndInv, TypeOK
  <1>16. /\ effects' \in [Keys -> Nat]
         /\ last' \in [Keys -> Effect \cup {NULL}]
         /\ TakesEffect(x) => effects'[k] = 1 /\ last'[k] = mark
         /\ ~TakesEffect(x) => effects'[k] = 0 /\ last'[k] = last[k]
         /\ \A j \in Keys \ {k} : /\ effects'[j] = effects[j]
                                  /\ last'[j] = last[j]
    BY <1>1, <1>5, <1>9 DEF IndInv, TypeOK
  <1>17. /\ calls' \in [Keys -> Nat]
         /\ CallsProvider(x) => calls'[k] = calls[k] + 1
         /\ ~CallsProvider(x) => calls'[k] = calls[k]
         /\ \A j \in Keys \ {k} : calls'[j] = calls[j]
    BY <1>1, <1>10 DEF IndInv, TypeOK
  <1>18. txn' \in [Threads -> Txn \cup {NULL}]
    BY <1>10 DEF IndInv, TypeOK
  <1>19. TypeOK' /\ PolicyOK'
    <2>1. TypeOK'
      BY <1>10, <1>11, <1>13, <1>14, <1>15, <1>16, <1>17, <1>18
      DEF IndInv, TypeOK, settings
    <2> QED BY <1>10, <2>1 DEF IndInv, PolicyOK
  <1>20. Elsewhere(c)
    BY <1>1, <1>10, <1>13, <1>14, <1>15, <1>16, <1>17 DEF Elsewhere, c
  <1>21. Leaves(c)
    <2>1. txn[t] # NULL
      BY DEF Commit
    <2> QED BY <1>0, <1>10, <2>1 DEF Leaves, IndInv, OneRun, TypeOK, k, c
  <1>22. ASSUME NEW j \in Keys, CaseOf[j] = c
         PROVE  (KeyOK(j) /\ RowOK(j) /\ EffectOK(j))'
    <2>1. KeyOK(j)'
      <3>1. CASE j = k
        <4>1. /\ calls[k] \in Nat
              /\ lost'[k] = lost[k]
          BY <1>1, <1>10 DEF IndInv, TypeOK
        <4>2. calls'[k] <= 1 + lost'[k]
          BY <1>5, <1>17, <4>1
        <4>3. keys'[k].result \notin Final =>
                effects'[k] = 0 /\ calls'[k] = lost'[k]
          BY <1>5, <1>15, <1>16, <1>17, <4>1
        <4> QED BY <1>5, <1>15, <3>1, <4>2, <4>3 DEF KeyOK
      <3>2. CASE j # k
        BY <1>10, <1>15, <1>16, <1>17, <3>2 DEF IndInv, KeysOK, KeyOK
      <3> QED BY <3>1, <3>2
    <2>2. RowOK(j)'
      <3>1. CASE j = x.row
        BY <1>6, <1>14, <3>1 DEF RowOK
      <3>2. CASE j # x.row
        BY <1>14, <3>2 DEF IndInv, KeysOK, RowOK
      <3> QED BY <3>1, <3>2
    <2>3. EffectOK(j)'
      <3>1. CASE j = k /\ TakesEffect(x)
        BY <1>3, <1>12, <1>13, <1>16, <1>22, <3>1 DEF EffectOK
      <3>2. CASE j = k /\ ~TakesEffect(x)
        BY <1>16, <3>2 DEF EffectOK
      <3>3. CASE j # k
        BY <1>3, <1>13, <1>16, <1>22, <3>3
        DEF IndInv, KeysOK, EffectOK, s
      <3> QED BY <3>1, <3>2, <3>3
    <2> QED BY <2>1, <2>2, <2>3
  <1>23. ASSUME c \in DOMAIN PlannedKey
         PROVE  PlanOK(c)'
    <2>1. PlannedKey[c] \in Keys /\ PlannedKey[c] \in Planned
      BY <1>23, KeysAssumption DEF Planned
    <2>2. PlanOK(c)
      BY <1>23 DEF IndInv, PlansOK
    <2>3. CASE x.row = PlannedKey[c]
      <3>1. s \notin OnWalk
        BY <1>2, <2>1, <2>2, <2>3 DEF Locked, PlanOK, s
      <3> QED BY <1>3, <1>13, <3>1 DEF PlanOK
    <2>4. CASE x.row # PlannedKey[c]
      BY <1>3, <1>13, <1>14, <2>1, <2>2, <2>4 DEF PlanOK, s
    <2> QED BY <2>3, <2>4
  <1>24. Waits(c)'
    <2> SUFFICES ASSUME after = "AWAITING_APPROVAL"
                 PROVE  \E j \in Keys : CaseOf[j] = c /\ Cause(j)'
      BY <1>13 DEF Waits
    <2>1. CASE x.outcome = "APPROVAL_REQUIRED"
      BY <1>1, <1>8, <1>14, <2>1 DEF Cause
    <2>2. CASE x.outcome # "APPROVAL_REQUIRED"
      <3>1. s = "AWAITING_APPROVAL"
        BY <1>3, <2>2
      <3>2. PICK j \in Keys : CaseOf[j] = c /\ Cause(j)
        BY <1>1, <3>1 DEF IndInv, WaitsOK, Waits, s
      <3>3. TakesEffect(x) => x.request.action = "RETRY_LATER"
        BY <1>3 DEF Early
      <3>4. effects'[k] = 0 \/ TookEffect(k, "RETRY_LATER")'
        BY <1>12, <1>16, <3>3 DEF TookEffect
      <3>5. CASE j # x.row
        BY <1>14, <1>16, <3>2, <3>4, <3>5 DEF Cause, TookEffect
      <3>6. CASE j = x.row
        BY <1>7, <1>14, <1>16, <3>2, <3>4, <3>6 DEF Cause, TookEffect
      <3> QED BY <3>2, <3>5, <3>6
    <2> QED BY <2>1, <2>2
  <1> QED BY <1>1, <1>19, <1>20, <1>21, <1>22, <1>23, <1>24, StepOn

\* A run that rolls back leaves the rows as they were.
LEMMA AbortStep ==
    ASSUME IndInv, NEW t \in Threads, Abort(t)
    PROVE  IndInv'
  <1>0. PICK k \in Keys : k = txn[t].key
    BY DEF Abort, IndInv, TypeOK, Txn
  <1> DEFINE c == CaseOf[k]
  <1>1. c \in Cases /\ txn[t] # NULL
    BY KeysAssumption DEF Abort
  <1>2. /\ UNCHANGED <<clock, policy, rows, effects, last, answers, reused,
                       overlapped>>
        /\ txn' = [txn EXCEPT ![t] = NULL]
        /\ \/ /\ calls' = [calls EXCEPT ![k] = @ + 1]
              /\ lost' = [lost EXCEPT ![k] = @ + 1]
              /\ UNCHANGED runs
           \/ runs' = runs - 1 /\ UNCHANGED <<calls, lost>>
    BY <1>0 DEF Abort
  <1>3. /\ calls' \in [Keys -> Nat]
        /\ lost' \in [Keys -> Nat]
        /\ runs' \in Int
        /\ \A j \in Keys : \/ calls'[j] = calls[j] /\ lost'[j] = lost[j]
                           \/ /\ j = k
                              /\ calls'[j] = calls[j] + 1
                              /\ lost'[j] = lost[j] + 1
    BY <1>1, <1>2 DEF IndInv, TypeOK
  <1>4. txn' \in [Threads -> Txn \cup {NULL}]
    BY <1>2 DEF IndInv, TypeOK
  <1>5. TypeOK' /\ PolicyOK'
    BY <1>2, <1>3, <1>4 DEF IndInv, TypeOK, PolicyOK, settings, rows
  <1>6. Elsewhere(c)
    BY <1>2, <1>3 DEF Elsewhere, rows
  <1>7. Leaves(c)
    BY <1>0, <1>1, <1>2 DEF Leaves, IndInv, OneRun, TypeOK
  <1>8. ASSUME NEW j \in Keys
        PROVE  (KeyOK(j) /\ RowOK(j) /\ EffectOK(j))'
    <2>1. KeyOK(j)'
      <3>1. KeyOK(j) /\ calls[j] \in Nat /\ lost[j] \in Nat
        BY DEF IndInv, KeysOK, TypeOK
      <3> QED BY <1>2, <1>3, <3>1 DEF KeyOK, rows
    <2>2. RowOK(j)' /\ EffectOK(j)'
      BY <1>2 DEF IndInv, KeysOK, RowOK, EffectOK, rows
    <2> QED BY <2>1, <2>2
  <1>9. /\ c \in DOMAIN PlannedKey => PlanOK(c)'
        /\ Waits(c)'
    BY <1>1, <1>2
    DEF IndInv, PlansOK, PlanOK, WaitsOK, Waits, Cause, TookEffect, rows
  <1> QED BY <1>1, <1>5, <1>6, <1>7, <1>8, <1>9, StepOn

-----------------------------------------------------------------------------
(* The invariant *)

\* Time passes only when no run is open, and no part of the invariant but
\* Approved reads the clock.
LEMMA TickStep ==
    ASSUME IndInv, Tick
    PROVE  IndInv'
  <1>1. /\ clock' = clock + 1
        /\ \A t \in Threads : txn[t] = NULL
        /\ UNCHANGED <<policy, rows, txn, runs, history>>
    BY DEF Tick
  <1>2. TypeOK' /\ PolicyOK' /\ OneRun'
    BY <1>1 DEF IndInv, TypeOK, PolicyOK, OneRun, settings, rows, history
  <1>3. KeysOK' /\ PlansOK'
    BY <1>1
    DEF IndInv, KeysOK, KeyOK, RowOK, EffectOK, PlansOK, PlanOK, rows, history
  <1>4. RunsOK'
    BY <1>1 DEF RunsOK
  <1>5. WaitsOK'
    BY <1>1 DEF IndInv, WaitsOK, Waits, Cause, TookEffect, rows, history
  <1> QED BY <1>2, <1>3, <1>4, <1>5 DEF IndInv

\* A change of the policy reaches only the runs that begin after it.
LEMMA UpdatePolicyStep ==
    ASSUME IndInv, NEW p \in Policies, UpdatePolicy(p)
    PROVE  IndInv'
  <1>1. /\ policy' = p
        /\ UNCHANGED <<clock, rows, txn, runs, history>>
    BY DEF UpdatePolicy
  <1>2. PolicyOK'
    BY <1>1 DEF PolicyOK
  <1>3. settings' \in Settings
    <2>1. (PolicyOK => settings \in Settings)'
      BY SettingsAreTyped, PTL
    <2> QED BY <1>2, <2>1
  <1>4. TypeOK' /\ OneRun'
    BY <1>1, <1>3 DEF IndInv, TypeOK, OneRun, rows, history
  <1>5. KeysOK' /\ PlansOK'
    BY <1>1
    DEF IndInv, KeysOK, KeyOK, RowOK, EffectOK, PlansOK, PlanOK, rows, history
  <1>6. RunsOK'
    BY <1>1
    DEF IndInv, RunsOK, RunOK, Locked, Approved, Permitted, TakesEffect, rows
  <1>7. WaitsOK'
    BY <1>1 DEF IndInv, WaitsOK, Waits, Cause, TookEffect, rows, history
  <1> QED BY <1>2, <1>4, <1>5, <1>6, <1>7 DEF IndInv

\* The invariant holds when nothing has been done.
LEMMA Initially ==
    ASSUME Init
    PROVE  IndInv
  <1> USE DEF Init
  <1>1. PolicyOK
    BY DEF PolicyOK
  <1>2. TypeOK
    <2>1. cases \in [Cases -> CaseRow]
      BY DEF CaseRow, CaseStatus, Material
    <2>2. /\ actions \in [Keys -> ActionRow]
          /\ keys \in [Keys -> KeyRow]
          /\ approvals \in [Keys -> ApprovalRow]
      BY DEF ActionRow, NoAction, KeyRow, NoKey, ApprovalRow, NoApproval
    <2> QED BY <1>1, <2>1, <2>2, SettingsAreTyped DEF TypeOK
  <1>3. OneRun /\ RunsOK
    BY DEF OneRun, RunsOK
  <1>4. KeysOK /\ PlansOK
    BY KeysAssumption, NullAssumption
    DEF KeysOK, KeyOK, RowOK, EffectOK, PlansOK, PlanOK, NoAction, NoKey,
        NoApproval, Result
  <1>5. WaitsOK
    BY DEF WaitsOK, Waits
  <1> QED BY <1>1, <1>2, <1>3, <1>4, <1>5 DEF IndInv

\* A step that changes nothing keeps it.
LEMMA Stutters ==
    ASSUME IndInv, UNCHANGED vars
    PROVE  IndInv'
  BY DEF vars, rows, history, IndInv, TypeOK, settings, PolicyOK, OneRun,
         KeysOK, KeyOK, RowOK, EffectOK, PlansOK, PlanOK, RunsOK, RunOK,
         Locked, Approved, Permitted, TakesEffect, WaitsOK, Waits, Cause,
         TookEffect

\* Every step keeps it.
LEMMA NextStep ==
    ASSUME IndInv, Next
    PROVE  IndInv'
  <1>1. CASE Tick
    BY <1>1, TickStep
  <1>2. ASSUME NEW t \in Threads, NEW k \in Keys, NEW row \in Keys,
               NEW request \in Calls[k], Execute(t, k, row, request)
        PROVE  IndInv'
    <2>1. request \in ProposedAction \cup {ReadOnly}
      BY CallsAssumption
    <2>2. actions[row].status # "ABSENT" \/ row \notin Planned
      BY <1>2, KeysAssumption DEF Execute, Planned
    <2> QED BY <1>2, <2>1, <2>2, BeginStep DEF Execute
  <1>3. ASSUME NEW t \in Threads, NEW k \in Keys, Approve(t, k)
        PROVE  IndInv'
    <2>1. PICK request : request = actions[k].request
      OBVIOUS
    <2>2. Decidable(k) /\ Begin(t, k, k, request, TRUE)
      BY <1>3, <2>1 DEF Approve
    <2>3. request \in ProposedAction
      BY <2>1, <2>2 DEF IndInv, KeysOK, RowOK, Decidable, Asked
    <2>4. actions[k].status # "ABSENT"
      BY <2>2 DEF Decidable, Approvable
    <2> QED BY <2>1, <2>2, <2>3, <2>4, BeginStep
  <1>4. CASE Runners
    BY <1>2, <1>3, <1>4, CommitStep, AbortStep DEF Runners
  <1>5. ASSUME NEW k \in Keys, NEW request \in Calls[k],
               ExecuteAnswered(k, request)
        PROVE  IndInv'
    BY <1>5, ExecuteAnsweredStep
  <1>6. CASE Answers
    BY <1>5, <1>6, ActionEvaluatedStep, ApproveAnsweredStep,
       ApproveExpiredStep, RejectStep DEF Answers
  <1> QED BY <1>1, <1>4, <1>6, ProcessStep, VerifyStep, UpdatePolicyStep
          DEF Next

\* The invariant holds in every state that tool runs, approvals, the processor
\* and the verifier reach (execute, approve_action, reject_action,
\* process_locked_case, verify_case).
THEOREM Invariance == Spec => []IndInv
  BY Initially, NextStep, Stutters, PTL DEF Spec

\* Every row keeps the type its table and the code give it.
THEOREM TypeCorrect == Spec => []TypeOK
  <1>1. IndInv => TypeOK
    BY DEF IndInv
  <1> QED BY <1>1, Invariance, PTL

\* For every number of threads, cases and keys: the provider is called twice
\* for a key only when the run of an earlier call was rolled back
\* (handle_retry_payment, handle_create_payment_link).
THEOREM ProviderCalledOnceHolds == Spec => []ProviderCalledOnce
  <1>1. IndInv => ProviderCalledOnce
    BY DEF IndInv, KeysOK, KeyOK, ProviderCalledOnce
  <1> QED BY <1>1, Invariance, PTL

\* A case that waits for approval has a cause to wait for, whichever rows and
\* keys were used on it (apply_case_outcome, approve_action, reject_action,
\* _expire_if_needed).
THEOREM WaitingHasCauseHolds == Spec => []WaitingHasCause
  <1>1. IndInv => WaitingHasCause
    BY DEF IndInv, WaitsOK, Waits, Cause, WaitingHasCause
  <1> QED BY <1>1, Invariance, PTL

-----------------------------------------------------------------------------
(* What a step that takes effect may do *)

\* Only the commit of a run that takes effect changes what a key has done.
LEMMA EffectsChange ==
    ASSUME IndInv, [Next]_vars, NEW k \in Keys, effects'[k] # effects[k]
    PROVE  \E t \in Threads : /\ Commit(t)
                              /\ txn[t].key = k
                              /\ TakesEffect(txn[t])
  <1>1. effects \in [Keys -> Nat]
    BY DEF IndInv, TypeOK
  <1>2. PICK t \in Threads : Commit(t)
    <2>1. effects' # effects
      OBVIOUS
    <2> QED BY <2>1
            DEF Next, vars, rows, history, Tick, Runners, Execute, Approve,
                Begin, Abort, Answers, ActionEvaluated, ExecuteAnswered,
                ApproveAnswered, ApproveExpired, Reject, Process, Verify,
                UpdatePolicy
  <1>3. TakesEffect(txn[t])
    BY <1>2 DEF Commit
  <1>4. effects' = [effects EXCEPT ![txn[t].key] = @ + 1]
    BY <1>2, <1>3 DEF Commit
  <1> QED BY <1>1, <1>2, <1>3, <1>4

\* A commit that takes effect does what its run was permitted to.
LEMMA EffectPermitted ==
    ASSUME IndInv, NEW t \in Threads, Commit(t), TakesEffect(txn[t])
    PROVE  LET x == txn[t] IN
           /\ x \in Txn
           /\ Locked(x)
           /\ x.approved => Approved(x)
           /\ Permitted(x)
           /\ last'[x.key].request = x.request
           /\ approvals'[x.row] = ApprovalAfter(x)
           /\ x.request \in ProposedAction
  <1>1. PICK x \in Txn : x = txn[t] /\ RunOK(x)
    BY DEF Commit, IndInv, TypeOK, RunsOK
  <1>2. x.key \in Keys /\ x.row \in Keys /\ x.request \in ProposedAction
    BY <1>1 DEF Txn, TakesEffect
  <1>3. /\ last' = [last EXCEPT ![x.key] = [row |-> x.row,
                                            request |-> x.request,
                                            at |-> clock]]
        /\ approvals' = [approvals EXCEPT ![x.row] = ApprovalAfter(x)]
    BY <1>1 DEF Commit
  <1>4. /\ last'[x.key].request = x.request
        /\ approvals'[x.row] = ApprovalAfter(x)
    BY <1>2, <1>3 DEF IndInv, TypeOK
  <1> QED BY <1>1, <1>2, <1>4 DEF RunOK

\* The steps that EffectIsApproved and KillSwitchStops allow.
ApprovedEffects ==
    \A t \in Threads :
      LET x == txn[t]
          c == CaseOf[x.key]
      IN  /\ x # NULL
          /\ effects'[x.key] # effects[x.key]
          /\ NeedsApproval(x.settings, AtRisk[c], x.request.action)
          => /\ approvals[x.row].status = "PENDING"
             /\ approvals'[x.row].status = "APPROVED"
             /\ clock < approvals[x.row].expires
             /\ approvals[x.row].asked =
                  [request |-> x.request, material |-> cases[c].material]
AutomaticEffects ==
    \A k \in Keys :
      /\ effects'[k] # effects[k]
      /\ last'[k].request.action \in AUTOMATIC_ACTIONS
      /\ ~settings.automatic_recovery_enabled
      => \E t \in Threads : /\ txn[t] # NULL
                            /\ txn[t].key = k
                            /\ txn[t].settings.automatic_recovery_enabled

\* A run that needs approval and takes effect is the decision of an approval,
\* and holds what was asked.
LEMMA EffectsAreApproved ==
    ASSUME IndInv, [Next]_vars
    PROVE  ApprovedEffects
  <1> SUFFICES ASSUME NEW t \in Threads,
                      txn[t] # NULL,
                      effects'[txn[t].key] # effects[txn[t].key],
                      NeedsApproval(txn[t].settings,
                                    AtRisk[CaseOf[txn[t].key]],
                                    txn[t].request.action)
               PROVE  LET x == txn[t] IN
                      /\ approvals[x.row].status = "PENDING"
                      /\ approvals'[x.row].status = "APPROVED"
                      /\ clock < approvals[x.row].expires
                      /\ approvals[x.row].asked =
                           [request |-> x.request,
                            material |-> cases[CaseOf[x.key]].material]
    BY DEF ApprovedEffects
  <1>1. PICK x \in Txn : x = txn[t]
    BY DEF IndInv, TypeOK
  <1>2. x.key \in Keys /\ x.row \in Keys
    BY DEF Txn
  <1>3. PICK u \in Threads : /\ Commit(u)
                             /\ txn[u].key = x.key
                             /\ TakesEffect(txn[u])
    BY <1>1, <1>2, EffectsChange
  <1>4. txn[u] # NULL
    BY <1>3 DEF Commit
  <1>5. u = t
    BY <1>1, <1>3, <1>4 DEF IndInv, OneRun
  <1>6. /\ Locked(x)
        /\ x.approved => Approved(x)
        /\ Permitted(x)
        /\ approvals'[x.row] = ApprovalAfter(x)
        /\ TakesEffect(x)
        /\ x.request \in ProposedAction
    BY <1>1, <1>3, <1>5, EffectPermitted
  <1>7. x.approved /\ Approved(x)
    BY <1>1, <1>6 DEF Permitted
  <1>8. approvals[x.row] \in ApprovalRow /\ RowOK(x.row)
    BY <1>2 DEF IndInv, TypeOK, KeysOK
  <1>9. approvals'[x.row].status = "APPROVED"
    BY <1>6, <1>7, <1>8 DEF ApprovalAfter, TakesEffect, ApprovalRow
  <1>10. approvals[x.row].asked =
           [request |-> x.request,
            material |-> cases[CaseOf[x.key]].material]
    <2>1. /\ approvals[x.row].asked \in Asked
          /\ approvals[x.row].asked.request = x.request
      BY <1>7, <1>8 DEF Approved, RowOK
    <2>2. approvals[x.row].asked.material = cases[CaseOf[x.key]].material
      BY <1>6, <1>7 DEF Permitted
    <2> QED BY <2>1, <2>2 DEF Asked
  <1> QED BY <1>1, <1>7, <1>9, <1>10 DEF Approved

\* For every interleaving of threads: an action on a case whose value needs
\* approval takes effect only as the decision of an approval that was pending,
\* unexpired, and asked for this request on the case as it is
\* (approve_action, _assert_usable_approval).
THEOREM EffectIsApprovedHolds == Spec => EffectIsApproved
  <1>1. [][Next]_vars /\ []IndInv => [][ApprovedEffects]_vars
    BY EffectsAreApproved, PTL
  <1>2. [][ApprovedEffects]_vars => EffectIsApproved
    BY DEF ApprovedEffects, EffectIsApproved
  <1> QED BY <1>1, <1>2, Invariance, PTL DEF Spec

\* An automatic effect is that of a run which read the switch on.
LEMMA SwitchWasOn ==
    ASSUME IndInv, [Next]_vars
    PROVE  AutomaticEffects
  <1> SUFFICES ASSUME NEW k \in Keys,
                      effects'[k] # effects[k],
                      last'[k].request.action \in AUTOMATIC_ACTIONS
               PROVE  \E t \in Threads :
                        /\ txn[t] # NULL
                        /\ txn[t].key = k
                        /\ txn[t].settings.automatic_recovery_enabled
    BY DEF AutomaticEffects
  <1>1. PICK t \in Threads : /\ Commit(t)
                             /\ txn[t].key = k
                             /\ TakesEffect(txn[t])
    BY EffectsChange
  <1>2. /\ Permitted(txn[t])
        /\ last'[k].request = txn[t].request
        /\ txn[t] # NULL
    BY <1>1, EffectPermitted DEF Commit
  <1> QED BY <1>1, <1>2 DEF Permitted

\* For every policy and every interleaving: after the operator switches
\* automatic recovery off, only runs that had read the policy before take an
\* automatic effect (evaluate_action in the approved run, patch_policy).
THEOREM KillSwitchStopsHolds == Spec => KillSwitchStops
  <1>1. [][Next]_vars /\ []IndInv => [][AutomaticEffects]_vars
    BY SwitchWasOn, PTL
  <1>2. [][AutomaticEffects]_vars => KillSwitchStops
    BY DEF AutomaticEffects, KillSwitchStops
  <1> QED BY <1>1, <1>2, Invariance, PTL DEF Spec

-----------------------------------------------------------------------------
(* The refinement of OnceOnly *)

AllDecided == [k \in Keys |-> Decided(k)]

\* What is decided depends on the results of the keys alone.
LEMMA SameDecisions ==
    ASSUME \A k \in Keys : keys'[k].result = keys[k].result
    PROVE  AllDecided' = AllDecided
  BY DEF AllDecided, Decided

\* An answer from the stored result is the key's decision, or says to wait.
LEMMA ReplayIsOnce ==
    ASSUME IndInv, NEW k \in Keys, keys[k].result # NULL,
           answers' = [answers EXCEPT ![k] = @ \cup {keys[k].result}],
           UNCHANGED <<keys, effects>>
    PROVE  Once!Next
  <1>1. keys[k].result \in Result
    BY DEF IndInv, TypeOK, KeyRow
  <1>2. AllDecided' = AllDecided
    BY SameDecisions
  <1>3. CASE keys[k].result \in Final
    <2>1. AllDecided[k] = keys[k].result
      BY <1>3 DEF AllDecided, Decided
    <2> QED BY <1>2, <2>1 DEF AllDecided, Once!Next, Once!Repeat
  <1>4. CASE keys[k].result = "APPROVAL_REQUIRED"
    <2>1. AllDecided[k] = NULL
      BY <1>4 DEF AllDecided, Decided, Final
    <2> QED BY <1>2, <1>4, <2>1 DEF AllDecided, Once!Next, Once!Wait
  <1> QED BY <1>1, <1>3, <1>4 DEF Result

\* A commit decides its key, leaves it waiting, or changes no decision.
LEMMA CommitIsOnce ==
    ASSUME IndInv, NEW t \in Threads, Commit(t)
    PROVE  Once!Next \/ UNCHANGED <<AllDecided, effects, answers>>
  <1>1. PICK x \in Txn : x = txn[t] /\ RunOK(x)
    BY DEF Commit, IndInv, TypeOK, RunsOK
  <1> DEFINE k == x.key
  <1>2. /\ k \in Keys
        /\ keys[k].result \notin Final
        /\ effects[k] = 0
    BY <1>1 DEF Txn, RunOK, Locked, IndInv, KeysOK, KeyOK
  <1>3. /\ keys' = [keys EXCEPT ![k] = KeyAfter(x)]
        /\ TakesEffect(x) => effects' = [effects EXCEPT ![k] = @ + 1]
        /\ ~TakesEffect(x) => effects' = effects
        /\ answers' = [answers EXCEPT ![k] = @ \cup ({x.outcome} \cap Result)]
    BY <1>1 DEF Commit
  <1>4. /\ effects \in [Keys -> Nat]
        /\ answers \in [Keys -> SUBSET Result]
        /\ keys \in [Keys -> KeyRow]
    BY DEF IndInv, TypeOK
  <1>5. KeyAfter(x).result = IF x.outcome \in Result THEN x.outcome
                             ELSE keys[k].result
    BY DEF KeyAfter
  <1>6. AllDecided[k] = NULL
    BY <1>2 DEF AllDecided, Decided
  <1> HIDE DEF k
  <1>7. /\ keys'[k].result = IF x.outcome \in Result THEN x.outcome
                             ELSE keys[k].result
        /\ \A j \in Keys \ {k} : keys'[j] = keys[j]
    BY <1>2, <1>3, <1>4, <1>5
  <1>8. CASE x.outcome \in Final
    <2>1. AllDecided' = [AllDecided EXCEPT ![k] = x.outcome]
      BY <1>2, <1>7, <1>8 DEF AllDecided, Decided, Result
    <2>2. answers' = [answers EXCEPT ![k] = @ \cup {x.outcome}]
      BY <1>3, <1>8 DEF Result
    <2>3. \/ UNCHANGED effects
          \/ x.outcome = "SUCCEEDED" /\ effects' = [effects EXCEPT ![k] = 1]
      BY <1>2, <1>3, <1>4 DEF TakesEffect
    <2> QED BY <1>2, <1>6, <1>8, <2>1, <2>2, <2>3
            DEF AllDecided, Once!Next, Once!Decide
  <1>9. CASE x.outcome \notin Final
    <2>1. AllDecided' = AllDecided
      BY <1>2, <1>7, <1>9 DEF AllDecided, Decided, Result
    <2>2. UNCHANGED effects
      BY <1>3, <1>9 DEF TakesEffect, Final
    <2>3. CASE x.outcome = "APPROVAL_REQUIRED"
      <3>1. answers' = [answers EXCEPT ![k] = @ \cup {"APPROVAL_REQUIRED"}]
        BY <1>3, <2>3 DEF Result
      <3> QED BY <1>2, <1>6, <2>1, <2>2, <3>1
              DEF AllDecided, Once!Next, Once!Wait
    <2>4. CASE x.outcome # "APPROVAL_REQUIRED"
      <3>1. {x.outcome} \cap Result = {}
        BY <1>9, <2>4 DEF Result
      <3>2. answers' = answers
        BY <1>3, <1>4, <3>1
      <3> QED BY <2>1, <2>2, <3>2
    <2> QED BY <2>3, <2>4
  <1> QED BY <1>8, <1>9

\* Every step is a decision, an answer, or changes neither.
LEMMA StepIsOnce ==
    ASSUME IndInv, [Next]_vars
    PROVE  Once!Next \/ UNCHANGED <<AllDecided, effects, answers>>
  <1>1. ASSUME UNCHANGED <<keys, effects, answers>>
        PROVE  UNCHANGED <<AllDecided, effects, answers>>
    BY <1>1, SameDecisions
  <1>2. CASE UNCHANGED vars \/ Tick
    BY <1>1, <1>2 DEF vars, Tick, rows, history
  <1>3. ASSUME NEW t \in Threads, NEW k \in Keys, NEW row \in Keys,
               NEW request, NEW approved,
               Begin(t, k, row, request, approved)
        PROVE  UNCHANGED <<AllDecided, effects, answers>>
    BY <1>1, <1>3 DEF Begin, rows, history
  <1>4. ASSUME NEW t \in Threads, Abort(t)
        PROVE  UNCHANGED <<AllDecided, effects, answers>>
    BY <1>1, <1>4 DEF Abort, rows
  <1>5. CASE Runners
    BY <1>3, <1>4, <1>5, CommitIsOnce DEF Runners, Execute, Approve
  <1>6. ASSUME NEW k \in Keys, NEW request, ExecuteAnswered(k, request)
        PROVE  Once!Next
    BY <1>6, ReplayIsOnce DEF ExecuteAnswered, Replays
  <1>7. ASSUME NEW k \in Keys, ApproveAnswered(k)
        PROVE  Once!Next \/ UNCHANGED <<AllDecided, effects, answers>>
    <2> DEFINE again == /\ ~is_terminal(cases[CaseOf[k]].status)
                        /\ Replays(k, actions[k].request)
    <2>1. /\ UNCHANGED <<keys, effects>>
          /\ answers' = [answers EXCEPT ![k] =
                           @ \cup {r \in Result : again /\ r = keys[k].result}]
      BY <1>7 DEF ApproveAnswered
    <2>2. /\ keys[k].result \in Result \cup {NULL}
          /\ answers \in [Keys -> SUBSET Result]
      BY DEF IndInv, TypeOK, KeyRow
    <2>3. CASE again
      <3>1. keys[k].result # NULL
        BY <2>3 DEF Replays
      <3>2. {r \in Result : again /\ r = keys[k].result} = {keys[k].result}
        BY <2>2, <2>3, <3>1
      <3> QED BY <2>1, <3>1, <3>2, ReplayIsOnce
    <2>4. CASE ~again
      <3>1. {r \in Result : again /\ r = keys[k].result} = {}
        BY <2>4
      <3>2. answers' = answers
        BY <2>1, <2>2, <3>1
      <3> QED BY <1>1, <2>1, <3>2
    <2> QED BY <2>3, <2>4
  <1>8. ASSUME NEW k \in Keys, Reject(k)
        PROVE  UNCHANGED <<AllDecided, effects, answers>>
    <2>1. keys \in [Keys -> KeyRow]
      BY DEF IndInv, TypeOK
    <2>2. \A j \in Keys : keys'[j].result = keys[j].result
      BY <1>8, <2>1 DEF Reject, KeyRow
    <2> QED BY <1>8, <2>2, SameDecisions DEF Reject, history
  <1>9. CASE Answers
    <2>1. ASSUME NEW c \in Cases, ActionEvaluated(c)
          PROVE  UNCHANGED <<AllDecided, effects, answers>>
      BY <1>1, <2>1 DEF ActionEvaluated, history
    <2>2. ASSUME NEW k \in Keys, ApproveExpired(k)
          PROVE  UNCHANGED <<AllDecided, effects, answers>>
      BY <1>1, <2>2 DEF ApproveExpired, history
    <2> QED BY <1>6, <1>7, <1>8, <1>9, <2>1, <2>2 DEF Answers
  <1>10. ASSUME NEW c \in Cases,
                Process(c) \/ \E found \in Findings[c] : Verify(c, found)
         PROVE  UNCHANGED <<AllDecided, effects, answers>>
    BY <1>1, <1>10 DEF Process, Verify, history
  <1>11. ASSUME NEW p \in Policies, UpdatePolicy(p)
         PROVE  UNCHANGED <<AllDecided, effects, answers>>
    BY <1>1, <1>11 DEF UpdatePolicy, rows, history
  <1> QED BY <1>2, <1>5, <1>9, <1>10, <1>11 DEF Next

\* Before any step, no key is decided.
LEMMA OnceInitially ==
    ASSUME Init
    PROVE  Once!Init
  <1>1. \A k \in Keys : Decided(k) = NULL
    BY NullAssumption DEF Init, NoKey, Decided, Result
  <1> QED BY <1>1 DEF Init, Once!Init

\* For every number of threads, cases and keys the tools implement OnceOnly:
\* a key is decided once, its effect happens once, and every later answer is
\* its decision (execute, begin_idempotent_operation, approve_action,
\* reject_action).
THEOREM KeyDecidesOnceHolds == Spec => KeyDecidesOnce
  <1>1. ASSUME IndInv, [Next]_vars
        PROVE  [Once!Next]_(Once!vars)
    BY <1>1, StepIsOnce DEF Once!vars, AllDecided
  <1> QED BY <1>1, OnceInitially, Invariance, PTL
          DEF Spec, KeyDecidesOnce, Once!Spec

-----------------------------------------------------------------------------
(* Retries *)

\* Every retry that took effect has left its payments row.
RetriedOK ==
    \A k \in Keys : TookEffect(k, "RETRY_NOW") => cases[CaseOf[k]].retried

\* A step that adds no effect and no payments row.
NoRetry == /\ UNCHANGED <<effects, last>>
           /\ \A c \in Cases : cases'[c].retried = cases[c].retried

\* Only a commit is anything else.
LEMMA OnlyCommitRetries ==
    ASSUME IndInv, [Next]_vars, \A t \in Threads : ~Commit(t)
    PROVE  NoRetry
  <1> cases \in [Cases -> CaseRow]
    BY DEF IndInv, TypeOK
  <1>1. CASE UNCHANGED vars
    BY <1>1 DEF vars, rows, history, NoRetry
  <1>2. CASE Tick \/ \E p \in Policies : UpdatePolicy(p)
    BY <1>2 DEF Tick, UpdatePolicy, rows, history, NoRetry
  <1>3. CASE Runners
    BY <1>3 DEF Runners, Execute, Approve, Begin, Abort, rows, history,
                NoRetry
  <1>4. CASE Answers
    <2>1. ASSUME NEW c \in Cases,
                 cases' = [cases EXCEPT ![c].status = Walked(@)]
          PROVE  \A d \in Cases : cases'[d].retried = cases[d].retried
      BY <2>1 DEF CaseRow
    <2>2. CASE \E c \in Cases : ActionEvaluated(c)
      BY <2>1, <2>2 DEF ActionEvaluated, WalkTo, history, NoRetry
    <2>3. CASE \E k \in Keys : \E request \in Calls[k] :
                  ExecuteAnswered(k, request)
      BY <2>1, <2>3, KeysAssumption DEF ExecuteAnswered, WalkTo, NoRetry
    <2>4. CASE \E k \in Keys : ApproveAnswered(k) \/ ApproveExpired(k)
      BY <2>4 DEF ApproveAnswered, ApproveExpired, history, NoRetry
    <2>5. ASSUME NEW k \in Keys, Reject(k)
          PROVE  NoRetry
      BY <2>5, KeysAssumption DEF Reject, history, NoRetry, CaseRow
    <2> QED BY <1>4, <2>2, <2>3, <2>4, <2>5 DEF Answers
  <1>5. ASSUME NEW c \in Cases, Process(c)
        PROVE  NoRetry
    BY <1>5 DEF Process, history, NoRetry, CaseRow
  <1>6. ASSUME NEW c \in Cases, NEW found \in Findings[c], Verify(c, found)
        PROVE  NoRetry
    <2>1. PICK s, m : cases' = [cases EXCEPT ![c] =
                         [status |-> s, material |-> m,
                          retried |-> cases[c].retried]]
      BY <1>6 DEF Verify
    <2> QED BY <1>6, <2>1 DEF Verify, history, NoRetry
  <1> QED BY <1>1, <1>2, <1>3, <1>4, <1>5, <1>6 DEF Next

\* A commit that retries finds no payments row, so no other key of the case
\* has retried.
LEMMA CommitRetries ==
    ASSUME IndInv, RetriedOK, OneRetryPayment, NEW t \in Threads, Commit(t)
    PROVE  RetriedOK' /\ OneRetryPayment'
  <1>1. PICK x \in Txn : x = txn[t] /\ x.key \in Keys
    BY DEF Commit, IndInv, TypeOK, Txn
  <1> DEFINE k == x.key
             c == CaseOf[k]
             mark == [row |-> x.row, request |-> x.request, at |-> clock]
  <1>2. /\ c \in Cases
        /\ cases \in [Cases -> CaseRow]
        /\ effects \in [Keys -> Nat]
        /\ last \in [Keys -> Effect \cup {NULL}]
    BY <1>1, KeysAssumption DEF IndInv, TypeOK
  <1>3. /\ ~Collides(x)
        /\ cases' = [cases EXCEPT ![c] = CaseAfter(x)]
        /\ TakesEffect(x) => /\ effects' = [effects EXCEPT ![k] = @ + 1]
                             /\ last' = [last EXCEPT ![k] = mark]
        /\ ~TakesEffect(x) => UNCHANGED <<effects, last>>
    BY <1>1 DEF Commit
  <1>4. /\ cases[c].retried => cases'[c].retried
        /\ Retries(x) => cases'[c].retried
        /\ \A d \in Cases \ {c} : cases'[d].retried = cases[d].retried
    BY <1>2, <1>3 DEF CaseAfter
  <1>5. \A j \in Keys \ {k} : /\ effects'[j] = effects[j]
                              /\ last'[j] = last[j]
    BY <1>2, <1>3
  <1>6. TookEffect(k, "RETRY_NOW")' =>
          \/ Retries(x)
          \/ ~TakesEffect(x) /\ TookEffect(k, "RETRY_NOW")
    <2>1. CASE TakesEffect(x)
      BY <1>1, <1>2, <1>3, <2>1 DEF TookEffect, Retries
    <2>2. CASE ~TakesEffect(x)
      BY <1>3, <2>2 DEF TookEffect
    <2> QED BY <2>1, <2>2
  <1>7. Retries(x) => ~cases[c].retried
    BY <1>3 DEF Collides
  <1> HIDE DEF k, c, mark
  <1>8. \A j \in Keys \ {k} : TookEffect(j, "RETRY_NOW")' <=>
                              TookEffect(j, "RETRY_NOW")
    BY <1>5 DEF TookEffect
  <1>9. RetriedOK'
    <2> SUFFICES ASSUME NEW j \in Keys, TookEffect(j, "RETRY_NOW")'
                 PROVE  cases'[CaseOf[j]].retried
      BY DEF RetriedOK
    <2>1. CaseOf[j] \in Cases
      BY KeysAssumption
    <2>2. \/ TookEffect(j, "RETRY_NOW")
          \/ j = k /\ Retries(x)
      BY <1>6, <1>8
    <2>3. CASE TookEffect(j, "RETRY_NOW")
      BY <1>4, <2>1, <2>3 DEF RetriedOK
    <2>4. CASE j = k /\ Retries(x)
      BY <1>4, <2>4 DEF c, k
    <2> QED BY <2>2, <2>3, <2>4
  <1>10. OneRetryPayment'
    <2> SUFFICES ASSUME NEW i \in Keys, NEW j \in Keys,
                        CaseOf[i] = CaseOf[j],
                        TookEffect(i, "RETRY_NOW")',
                        TookEffect(j, "RETRY_NOW")'
                 PROVE  i = j
      BY DEF OneRetryPayment
    <2>1. ASSUME NEW l \in Keys \ {k}, TookEffect(l, "RETRY_NOW"),
                 CaseOf[l] = c
          PROVE  ~Retries(x)
      BY <1>7, <2>1 DEF RetriedOK
    <2>2. CASE i # k /\ j # k
      BY <1>8, <2>2 DEF OneRetryPayment
    <2>3. CASE Retries(x)
      BY <1>8, <2>1, <2>2, <2>3 DEF c, k
    <2>4. CASE ~Retries(x)
      BY <1>6, <1>8, <2>4 DEF OneRetryPayment
    <2> QED BY <2>3, <2>4
  <1> QED BY <1>9, <1>10

\* A step that retries nothing keeps the retried payments.
LEMMA NoRetryKeeps ==
    ASSUME RetriedOK, OneRetryPayment, NoRetry
    PROVE  RetriedOK' /\ OneRetryPayment'
  <1>1. \A k \in Keys : /\ CaseOf[k] \in Cases
                        /\ TookEffect(k, "RETRY_NOW")' <=>
                           TookEffect(k, "RETRY_NOW")
    BY KeysAssumption DEF NoRetry, TookEffect
  <1> QED BY <1>1 DEF NoRetry, RetriedOK, OneRetryPayment

\* Every step keeps them one per case.
LEMMA NextRetries ==
    ASSUME IndInv, RetriedOK, OneRetryPayment, [Next]_vars
    PROVE  RetriedOK' /\ OneRetryPayment'
  <1>1. CASE \E t \in Threads : Commit(t)
    BY <1>1, CommitRetries
  <1>2. CASE \A t \in Threads : ~Commit(t)
    BY <1>2, OnlyCommitRetries, NoRetryKeeps
  <1> QED BY <1>1, <1>2

\* For every number of threads, cases and keys, and every limit, a case gets
\* at most one retried payment (handle_retry_payment).
THEOREM OneRetryPaymentHolds == Spec => []OneRetryPayment
  <1>1. ASSUME Init
        PROVE  RetriedOK /\ OneRetryPayment
    BY <1>1 DEF Init, RetriedOK, OneRetryPayment, TookEffect
  <1> QED BY <1>1, NextRetries, Invariance, PTL DEF Spec
==============================================================================
