---------------------------- MODULE ToolExecution ----------------------------
(***************************************************************************)
(* The side-effecting tools of one merchant and one customer: policy,      *)
(* idempotency keys, approvals, handlers and the action rows they share    *)
(* (tools/execution.py, tools/approvals.py, tools/idempotency.py,          *)
(* tools/handlers.py), with the processor and the verifier as far as they  *)
(* write those rows or the case.                                           *)
(*                                                                         *)
(* A tool run is one database transaction.  It locks its case, and with it *)
(* the rows of its key: the callers in the repository build keys from the  *)
(* case (or from a run on it), so a key belongs to one case.  What it does *)
(* not lock is the rest of the merchant's rows, which the policy counts:   *)
(* the run is split there, into Begin (the reads and the decision) and     *)
(* Commit (the writes).  Between the two it may roll back, which does not  *)
(* undo a call already made to the provider.                               *)
(*                                                                         *)
(* An action row is named by its idempotency key, which is unique.         *)
(***************************************************************************)
EXTENDS RecoveryStateMachine, PolicyEngine, Money, FiniteSets, Functions

CONSTANTS
    Threads,         \* API threads that run tools
    Cases,           \* recovery cases
    Keys,            \* idempotency keys
    CaseOf,          \* the case of each key
    PlannedKey,      \* the key of the processor's row, for the cases whose
                     \* process job is run
    PlannedAction,   \* what _select_action returns for the case's payment
    AtRisk,          \* amount_at_risk of each case
    Calls,           \* the tools each key is used for, with their input
    Defaults,        \* RecoverySettings
    MerchantPolicy,  \* the settings the merchant overrides at first
    Policies,        \* the policies an operator may set
    Customer,        \* [opted_out, suspicious, discount_eligible]
    Day,             \* ticks in a day
    MaxTime,         \* bound on the clock
    Findings,        \* what verification may find of each case
    MaxRuns,         \* bound on tool runs
    MaxLost,         \* bound on the calls of a key whose run rolled back
    NULL

\* A call of one of the eight tools that only read.
ReadOnly == [action |-> "READ_ONLY", percent |-> 0]

ASSUME KeysAssumption ==
    /\ CaseOf \in [Keys -> Cases]
    /\ DOMAIN PlannedKey \subseteq Cases
    /\ \A c \in DOMAIN PlannedKey : /\ PlannedKey[c] \in Keys
                                    /\ CaseOf[PlannedKey[c]] = c
                                    /\ Calls[PlannedKey[c]] = {}
ASSUME CasesAssumption ==
    /\ AtRisk \in [Cases -> Nat]
    /\ PlannedAction \in [Cases -> {"RETRY_LATER", "SEND_PAYMENT_LINK"}]
ASSUME CallsAssumption ==
    Calls \in [Keys -> SUBSET (ProposedAction \cup {ReadOnly})]
ASSUME SettingsAssumption ==
    /\ Defaults \in Settings
    /\ merge_merchant(Defaults, MerchantPolicy) \in Settings
    /\ Policies \subseteq Settings
ASSUME CustomerAssumption ==
    Customer \in [opted_out: BOOLEAN, suspicious: BOOLEAN,
                  discount_eligible: BOOLEAN]
ASSUME BoundsAssumption == /\ Day \in Nat \ {0}
                           /\ MaxTime \in Nat
                           /\ MaxRuns \in Nat
                           /\ MaxLost \in Nat
ASSUME FindingsAssumption ==
    Findings \in [Cases -> SUBSET {"NONE", "SOURCE", "OTHER"}]
ASSUME FiniteAssumption == IsFiniteSet(Keys)

VARIABLES
    clock,          \* now
    policy,         \* the policy section of merchants.settings
    cases,          \* recovery_cases: status, and what a fingerprint keeps
    actions,        \* recovery_actions
    keys,           \* idempotency_keys
    approvals,      \* the latest approvals row of each action
    notifications,  \* created_at of the notifications row of a key
    txn,            \* the tool run each thread has open
    runs,           \* runs begun so far, but for those rolled back at once
    \* History, read by no action:
    effects,        \* how often a run of the key took effect
    last,           \* what the key's last effect was
    answers,        \* results returned for the key
    calls,          \* provider calls made for the key
    lost,           \* the calls among them whose run was rolled back
    reused,         \* action rows written by a run of another key
    overlapped      \* limits whose counted rows changed before the run that
                    \* counted them committed

rows == <<cases, actions, keys, approvals, notifications>>
history == <<effects, last, answers, calls, lost, reused, overlapped>>
vars == <<clock, policy, rows, txn, runs, history>>

-----------------------------------------------------------------------------
(* Rows *)

\* last_mismatch_reason and amount_recovered, as far as they matter here:
\* nothing recorded, a mismatch that makes the source suspicious, and any
\* other mismatch or partial credit.
Material == {"NONE", "SOURCE", "OTHER"}

\* retried is not a column: the payments row of a retry of the case exists.
CaseRow == [status: CaseStatus, material: Material, retried: BOOLEAN]

\* RecoveryAction.  request is metadata's tool_name and payload, material its
\* case_fingerprint.  PLANNED and COMPLETED are never written, EXECUTING never
\* committed.
ActionRow ==
    [status: {"ABSENT", "PENDING", "APPROVAL_REQUIRED", "APPROVED",
              "SUCCEEDED", "FAILED", "BLOCKED", "CANCELLED"},
     type: RecoveryActionType \cup {NULL}, amount: Nat, created: Nat,
     request: ProposedAction \cup {NULL}, material: Material \cup {NULL}]

NoAction == [status |-> "ABSENT", type |-> NULL, amount |-> 0, created |-> 0,
             request |-> NULL, material |-> NULL]

\* What execute returns, and stores in the key's metadata.
Final == {"SUCCEEDED", "FAILED", "BLOCKED"}
Result == Final \cup {"APPROVAL_REQUIRED"}

\* IdempotencyKey.  request stands for request_hash.
KeyRow == [status: {"ABSENT", "IN_PROGRESS", "COMPLETED", "FAILED"},
           request: ProposedAction \cup {ReadOnly, NULL},
           result: Result \cup {NULL}]

NoKey == [status |-> "ABSENT", request |-> NULL, result |-> NULL]

\* Approval.  asked is history: the request and the case it was asked for.
Asked == [request: ProposedAction, material: Material]
ApprovalRow ==
    [status: {"ABSENT", "PENDING", "APPROVED", "REJECTED", "EXPIRED"},
     expires: Nat, asked: Asked \cup {NULL}]

NoApproval == [status |-> "ABSENT", expires |-> 0, asked |-> NULL]

\* An open run: its arguments, what it decided, and what it read to decide.
Outcome == Result \cup {"INVALID_CASE_STATE", "STALE_APPROVAL"}
Txn == [key: Keys, row: Keys, request: ProposedAction \cup {ReadOnly},
        approved: BOOLEAN, outcome: Outcome, settings: Settings,
        offers: [Keys -> Nat], notified: SUBSET Keys]

Effect == [row: Keys, request: ProposedAction, at: Nat]

ASSUME NullAssumption ==
    NULL \notin Nat \cup Keys \cup Result \cup Material \cup Asked \cup Txn
              \cup Effect \cup ProposedAction \cup RecoveryActionType

Init ==
    /\ clock = 0
    /\ policy = MerchantPolicy
    /\ cases = [c \in Cases |-> [status |-> "DETECTED", material |-> "NONE",
                                 retried |-> FALSE]]
    /\ actions = [k \in Keys |-> NoAction]
    /\ keys = [k \in Keys |-> NoKey]
    /\ approvals = [k \in Keys |-> NoApproval]
    /\ notifications = [k \in Keys |-> NULL]
    /\ txn = [t \in Threads |-> NULL]
    /\ runs = 0
    /\ effects = [k \in Keys |-> 0]
    /\ last = [k \in Keys |-> NULL]
    /\ answers = [k \in Keys |-> {}]
    /\ calls = [k \in Keys |-> 0]
    /\ lost = [k \in Keys |-> 0]
    /\ reused = {}
    /\ overlapped = {}

\* lock_recovery_case would not wait.
Unlocked(c) == \A t \in Threads : txn[t] # NULL => CaseOf[txn[t].key] # c

-----------------------------------------------------------------------------
(* What the policy reads *)

settings == merge_merchant(Defaults, policy)

\* The statuses a retry is counted in; a discount is counted in the same ones.
Counted == {"PENDING", "APPROVAL_REQUIRED", "APPROVED", "SUCCEEDED"}

_retry_count(c) ==
    Cardinality({k \in Keys : /\ CaseOf[k] = c
                              /\ actions[k].type \in RETRY_ACTIONS
                              /\ actions[k].status \in Counted})

\* The notifications of the last 24 hours.
Notified == {k \in Keys : /\ notifications[k] # NULL
                          /\ notifications[k] + Day >= clock}

_communications_last_24h == Cardinality(Notified)

\* What each discount created today counts for: amount_at_risk until it is
\* offered.
Offers ==
    [k \in Keys |->
       IF /\ actions[k].type = "OFFER_DISCOUNT"
          /\ actions[k].status \in Counted
          /\ actions[k].created \div Day = clock \div Day
       THEN actions[k].amount ELSE 0]

_discount_spent_today == SumFunctionOnSet(Offers, Keys)

build_policy_context(c) ==
    [amount_at_risk |-> AtRisk[c],
     hour |-> clock % Day,
     retry_count |-> _retry_count(c),
     communications_last_24h |-> _communications_last_24h,
     discount_spent_today |-> _discount_spent_today,
     customer_opted_out |-> Customer.opted_out,
     suspicious |-> Customer.suspicious \/ cases[c].material = "SOURCE",
     discount_eligible |-> Customer.discount_eligible]

Evaluated(c, request) ==
    evaluate_action(settings, build_policy_context(c), request)

-----------------------------------------------------------------------------
(* ToolExecutionService.execute *)

\* Mutant: a failed key is free to be used again.
RunsIfFailed(k, request, approved) ==
    \/ keys[k].status \in {"ABSENT", "FAILED"}
    \/ /\ keys[k].request = request
       /\ keys[k].status = "IN_PROGRESS"
       /\ approved

\* Mutant: only a different request is told from a new key.
RunsSameRequest(k, request, approved) ==
    keys[k].status = "ABSENT" \/ keys[k].request = request

\* begin_idempotent_operation lets the run go on: the key is new, or waits for
\* the approval this run has, or failed before it had a result.  Any other
\* run is answered with the stored result, or refused when the request is not
\* the one the key was first used for.
Runs(k, request, approved) ==
    \/ keys[k].status = "ABSENT"
    \/ /\ keys[k].request = request
       /\ \/ keys[k].status = "IN_PROGRESS" /\ approved
          \/ keys[k].status = "FAILED" /\ keys[k].result = NULL

Replays(k, request) == keys[k].request = request /\ keys[k].result # NULL

\* Mutant: an approval is good for whatever the case has become.
ApprovalStaleNever(c, row) == FALSE

\* The fingerprint test of _assert_usable_approval.  Its other tests repeat
\* what approve_action has just checked in the same transaction.
ApprovalStale(c, row) ==
    actions[row].material # NULL /\ actions[row].material # cases[c].material

\* The handlers that may fail: a provider error, or a read tool that finds
\* nothing.
MayFail == {"RETRY_NOW", "SEND_PAYMENT_LINK", "READ_ONLY"}

\* Mutant: what was approved is not evaluated again.
OutcomesApproved(c, s, row, request, approved) ==
    LET verdict == IF request = ReadOnly \/ approved THEN "ALLOW"
                   ELSE Evaluated(c, request)
    IN  IF request # ReadOnly /\ s \notin SIDE_EFFECT_EXECUTE_STATES
        THEN {"INVALID_CASE_STATE"}
        ELSE IF verdict \in {"DENY", "DENY_SOURCE"} THEN {"BLOCKED"}
        ELSE IF verdict = "APPROVE" /\ ~approved THEN {"APPROVAL_REQUIRED"}
        ELSE IF approved /\ ApprovalStale(c, row) THEN {"STALE_APPROVAL"}
        ELSE {"SUCCEEDED"}
               \cup {o \in {"FAILED"} : request.action \in MayFail}

\* _run_after_idempotency up to the handler, in status s.
Outcomes(c, s, row, request, approved) ==
    LET verdict == IF request = ReadOnly THEN "ALLOW"
                   ELSE Evaluated(c, request)
    IN  IF request # ReadOnly /\ s \notin SIDE_EFFECT_EXECUTE_STATES
        THEN {"INVALID_CASE_STATE"}
        ELSE IF verdict \in {"DENY", "DENY_SOURCE"} THEN {"BLOCKED"}
        ELSE IF verdict = "APPROVE" /\ ~approved THEN {"APPROVAL_REQUIRED"}
        ELSE IF approved /\ ApprovalStale(c, row) THEN {"STALE_APPROVAL"}
        ELSE {"SUCCEEDED"}
               \cup {o \in {"FAILED"} : request.action \in MayFail}

Begin(t, k, row, request, approved) ==
    LET c == CaseOf[k]
        s == IF approved THEN cases[c].status ELSE Walked(cases[c].status)
    IN  /\ txn[t] = NULL
        /\ Unlocked(c)
        /\ ~is_terminal(cases[c].status)
        /\ Runs(k, request, approved)
        /\ \E o \in Outcomes(c, s, row, request, approved) :
             txn' = [txn EXCEPT ![t] =
                       [key |-> k, row |-> row, request |-> request,
                        approved |-> approved, outcome |-> o,
                        settings |-> settings, offers |-> Offers,
                        notified |-> Notified]]
        /\ runs < MaxRuns
        /\ runs' = runs + 1
        /\ UNCHANGED <<clock, policy, rows, history>>

\* execute_action: the case is walked to POLICY_CHECK, and the caller may name
\* an action row (existing_action_id), which is not compared with the request.
\* That the row is one of the case is assumed of the caller: it is not checked.
Execute(t, k, row, request) ==
    /\ CaseOf[row] = CaseOf[k]
    /\ row = k \/ actions[row].status # "ABSENT"
    /\ Begin(t, k, row, request, FALSE)
    /\ CanWalk(cases[CaseOf[k]].status)

\* The walk alone: evaluate_action, or execute_action when the key answers.
\* An error after the walk does not undo it.
WalkTo(c) ==
    /\ Unlocked(c)
    /\ CanWalk(cases[c].status)
    /\ cases' = [cases EXCEPT ![c].status = Walked(@)]
ActionEvaluated(c) ==
    /\ WalkTo(c)
    /\ UNCHANGED <<clock, policy, actions, keys, approvals, notifications, txn,
                   runs, history>>
ExecuteAnswered(k, request) ==
    /\ ~Runs(k, request, FALSE)
    /\ Replays(k, request)
    /\ WalkTo(CaseOf[k])
    /\ answers' = [answers EXCEPT ![k] = @ \cup {keys[k].result}]
    /\ UNCHANGED <<clock, policy, actions, keys, approvals, notifications, txn,
                   runs, effects, last, calls, lost, reused, overlapped>>

-----------------------------------------------------------------------------
(* The writes of a run *)

\* case_status of the handler's result.
CaseOutcome(action) ==
    [RETRY_NOW |-> "ACTION_COMPLETED", RETRY_LATER |-> "RETRY_SCHEDULED",
     SEND_PAYMENT_LINK |-> "ACTION_COMPLETED",
     SEND_REMINDER |-> "ACTION_COMPLETED",
     OFFER_DISCOUNT |-> "ACTION_COMPLETED", ESCALATE |-> "ESCALATED",
     DO_NOTHING |-> "STOPPED"][action]

\* amount of the discount handler's result.
Discount(c, percent) == as_money(AtRisk[c] * percent)

\* amount of the handler's result, over what the row has.
AmountOf(x, amount) ==
    LET c == CaseOf[x.key] IN
    IF x.outcome # "SUCCEEDED" THEN amount
    ELSE IF x.request.action \in {"RETRY_NOW", "SEND_PAYMENT_LINK"}
    THEN AtRisk[c]
    ELSE IF x.request.action = "OFFER_DISCOUNT"
    THEN Discount(c, x.request.percent)
    ELSE amount

\* _upsert_action: an existing row keeps its case, type, amount and creation.
_upsert_action(x) ==
    LET old == actions[x.row]
        base == IF old.status # "ABSENT" THEN old
                ELSE [NoAction EXCEPT !.type = x.request.action,
                                      !.amount = AtRisk[CaseOf[x.key]],
                                      !.created = clock]
    IN  [base EXCEPT !.status = x.outcome,
                     !.amount = AmountOf(x, @),
                     !.request = IF x.outcome = "BLOCKED" THEN @
                                 ELSE x.request,
                     !.material = IF x.outcome = "APPROVAL_REQUIRED"
                                  THEN cases[CaseOf[x.key]].material ELSE @]

\* A run that raises, or only reads, writes no action row; an approved one has
\* been marked by approve_action.
ActionAfter(x) ==
    IF x.outcome \in Result /\ x.request # ReadOnly THEN _upsert_action(x)
    ELSE IF x.approved THEN [actions[x.row] EXCEPT !.status = "APPROVED"]
    ELSE actions[x.row]

\* Mutant: the error of a run that raised is stored like a result.
KeyAfterError(x) ==
    LET old == keys[x.key] IN
    [status |-> IF x.outcome \in Final THEN "COMPLETED"
                ELSE IF x.outcome \notin Result THEN "FAILED"
                ELSE IF old.status = "ABSENT" THEN "IN_PROGRESS"
                ELSE old.status,
     request |-> x.request,
     result |-> x.outcome]

\* complete_idempotent_operation, fail_idempotent_operation, or the result
\* alone while approval is awaited.
KeyAfter(x) ==
    LET old == keys[x.key] IN
    [status |-> IF x.outcome \in Final THEN "COMPLETED"
                ELSE IF x.outcome \notin Result THEN "FAILED"
                ELSE IF old.status = "ABSENT" THEN "IN_PROGRESS"
                ELSE old.status,
     request |-> x.request,
     result |-> IF x.outcome \in Result THEN x.outcome ELSE old.result]

\* _create_approval, or the decision of approve_action.
ApprovalAfter(x) ==
    IF x.outcome = "APPROVAL_REQUIRED"
    THEN [status |-> "PENDING", expires |-> clock + x.settings.approval_ttl,
          asked |-> [request |-> x.request,
                     material |-> cases[CaseOf[x.key]].material]]
    ELSE IF x.approved THEN [approvals[x.row] EXCEPT !.status = "APPROVED"]
    ELSE approvals[x.row]

StatusAfter(x) ==
    LET s == cases[CaseOf[x.key]].status
        t == IF x.approved THEN s ELSE Walked(s)
    IN  IF x.request = ReadOnly \/ x.outcome \notin Result THEN t
        ELSE ToolStatus(t, IF x.outcome = "SUCCEEDED"
                           THEN CaseOutcome(x.request.action) ELSE x.outcome)

TakesEffect(x) == x.outcome = "SUCCEEDED" /\ x.request # ReadOnly

\* The handlers of these two call the payment provider.
CallsProvider(x) == /\ x.outcome \in {"SUCCEEDED", "FAILED"}
                    /\ x.request.action \in {"RETRY_NOW", "SEND_PAYMENT_LINK"}

\* The run adds the payments row of its retry.
Retries(x) == TakesEffect(x) /\ x.request.action = "RETRY_NOW"

\* Every request makes its own simulator, which numbers payments from 1, and
\* the id is a digest of the case and the number: all retries of a case have
\* the same id, and the second violates payments' unique key.
Collides(x) == Retries(x) /\ cases[CaseOf[x.key]].retried

CaseAfter(x) ==
    LET old == cases[CaseOf[x.key]] IN
    [status |-> StatusAfter(x), material |-> old.material,
     retried |-> old.retried \/ Retries(x)]

\* A limit whose rows are not what the run counted.
Overlaps(x) ==
    {l \in {"discount"} : /\ x.request.action = "OFFER_DISCOUNT"
                          /\ TakesEffect(x)
                          /\ x.offers # Offers}
      \cup {l \in {"reminder"} : /\ x.request.action = "SEND_REMINDER"
                                 /\ TakesEffect(x)
                                 /\ x.notified # Notified}

Commit(t) ==
    LET x == txn[t]
        k == x.key
    IN  /\ x # NULL
        /\ ~Collides(x)
        /\ cases' = [cases EXCEPT ![CaseOf[k]] = CaseAfter(x)]
        /\ actions' = [actions EXCEPT ![x.row] = ActionAfter(x)]
        /\ keys' = [keys EXCEPT ![k] = KeyAfter(x)]
        /\ approvals' = [approvals EXCEPT ![x.row] = ApprovalAfter(x)]
        /\ notifications' =
             IF TakesEffect(x) /\ x.request.action = "SEND_REMINDER"
             THEN [notifications EXCEPT ![k] = clock] ELSE notifications
        /\ txn' = [txn EXCEPT ![t] = NULL]
        /\ IF TakesEffect(x)
           THEN /\ effects' = [effects EXCEPT ![k] = @ + 1]
                /\ last' = [last EXCEPT ![k] = [row |-> x.row,
                                                request |-> x.request,
                                                at |-> clock]]
           ELSE UNCHANGED <<effects, last>>
        /\ answers' = [answers EXCEPT ![k] =
                         @ \cup ({x.outcome} \cap Result)]
        /\ calls' = IF CallsProvider(x) THEN [calls EXCEPT ![k] = @ + 1]
                    ELSE calls
        /\ reused' = IF x.row = k THEN reused ELSE reused \cup {x.row}
        /\ overlapped' = overlapped \cup Overlaps(x)
        /\ UNCHANGED <<clock, policy, runs, lost>>

\* The process dies, the database fails or a handler raises anything but a
\* DomainError (a retry that collides always does): the rows are as before, a
\* call to the provider is not undone.
Abort(t) ==
    LET k == txn[t].key IN
    /\ txn[t] # NULL
    /\ txn' = [txn EXCEPT ![t] = NULL]
    /\ \/ /\ CallsProvider(txn[t])
          /\ lost[k] < MaxLost
          /\ calls' = [calls EXCEPT ![k] = @ + 1]
          /\ lost' = [lost EXCEPT ![k] = @ + 1]
          /\ UNCHANGED runs
       \/ runs' = runs - 1 /\ UNCHANGED <<calls, lost>>
    /\ UNCHANGED <<clock, policy, rows, effects, last, answers, reused,
                   overlapped>>

-----------------------------------------------------------------------------
(* ApprovalService *)

Approvable == {"APPROVAL_REQUIRED", "APPROVED", "PENDING"}

\* approve_action found a pending approval for the row.
Decidable(k) ==
    /\ Unlocked(CaseOf[k])
    /\ approvals[k].status = "PENDING"
    /\ clock < approvals[k].expires
    /\ actions[k].status \in Approvable

\* The approval re-enters execute with the row's own key and request.
Approve(t, k) ==
    /\ Decidable(k)
    /\ Begin(t, k, k, actions[k].request, TRUE)

\* It re-enters, and the case is terminal or the key answers or refuses: the
\* decision is committed all the same.
ApproveAnswered(k) ==
    LET request == actions[k].request
        refused == is_terminal(cases[CaseOf[k]].status)
    IN  /\ Decidable(k)
        /\ refused \/ ~Runs(k, request, TRUE)
        /\ approvals' = [approvals EXCEPT ![k].status = "APPROVED"]
        /\ actions' = [actions EXCEPT ![k].status = "APPROVED"]
        /\ answers' = [answers EXCEPT ![k] =
                         @ \cup {r \in Result : /\ ~refused
                                                /\ Replays(k, request)
                                                /\ r = keys[k].result}]
        /\ UNCHANGED <<clock, policy, cases, keys, notifications, txn, runs,
                       effects, last, calls, lost, reused, overlapped>>

\* _expire_if_needed, on an approval that approve_action then refuses.
ApproveExpired(k) ==
    /\ Unlocked(CaseOf[k])
    /\ approvals[k].status = "PENDING"
    /\ approvals[k].expires <= clock
    /\ approvals' = [approvals EXCEPT ![k].status = "EXPIRED"]
    /\ UNCHANGED <<clock, policy, cases, actions, keys, notifications, txn,
                   runs, history>>

\* Mutant: the case goes on waiting when its approval is rejected.
RejectedStatusWaits(s) == s

\* The status reject_action leaves.
RejectedStatus(s) == IF s = "AWAITING_APPROVAL" THEN "ESCALATED" ELSE s

\* reject_action and cancel_action, whatever has become of the approval and
\* of the action.
Reject(k) ==
    LET c == CaseOf[k] IN
    /\ Unlocked(c)
    /\ approvals[k].status # "ABSENT"
    /\ approvals' = [approvals EXCEPT ![k].status = "REJECTED"]
    /\ actions' = [actions EXCEPT ![k].status = "CANCELLED"]
    /\ keys' = IF keys[k].status = "ABSENT" THEN keys
               ELSE [keys EXCEPT ![k].status = "FAILED"]
    /\ cases' = [cases EXCEPT ![c].status = RejectedStatus(@)]
    /\ UNCHANGED <<clock, policy, notifications, txn, runs, history>>

-----------------------------------------------------------------------------
(* The processor and the verifier *)

PlannedRequest(c) == [action |-> PlannedAction[c], percent |-> 0]

\* The planned row and its approval, when process_locked_case gets as far as
\* POLICY_CHECK with verdict v.  A row that exists is left as it is.
Plans(c, v) ==
    LET k == PlannedKey[c]
        new == actions[k].status = "ABSENT"
        waits == v = "APPROVE"
    IN  /\ actions' =
             IF new
             THEN [actions EXCEPT ![k] =
                     [status |-> IF waits THEN "APPROVAL_REQUIRED"
                                 ELSE IF v = "ALLOW" THEN "PENDING"
                                 ELSE "BLOCKED",
                      type |-> PlannedAction[c], amount |-> AtRisk[c],
                      created |-> clock,
                      request |-> IF waits THEN PlannedRequest(c) ELSE NULL,
                      material |-> IF waits THEN cases[c].material ELSE NULL]]
             ELSE [actions EXCEPT ![k].material =
                     IF waits THEN cases[c].material ELSE @]
        /\ approvals' =
             IF waits
             THEN [approvals EXCEPT ![k] =
                     [status |-> "PENDING",
                      expires |-> clock + settings.approval_ttl,
                      asked |-> [request |-> PlannedRequest(c),
                                 material |-> cases[c].material]]]
             ELSE approvals

\* process_locked_case, or nothing when the case is not on the walk.
Processes(c, v) ==
    IF cases[c].status \in OnWalk
    THEN /\ c \in DOMAIN PlannedKey
         /\ v = Evaluated(c, PlannedRequest(c))
         /\ Plans(c, v)
    ELSE v = "ALLOW" /\ UNCHANGED <<actions, approvals>>

Process(c) ==
    /\ Unlocked(c)
    /\ cases[c].status \in OnWalk
    /\ \E v \in Verdict :
         /\ Processes(c, v)
         /\ cases' = [cases EXCEPT ![c].status = Processed(@, v)]
    /\ UNCHANGED <<clock, policy, keys, notifications, txn, runs, history>>

\* verify_case processes the case first.  A case in ACTION_COMPLETED is then
\* decided; any other keeps its status and records the mismatch or credit.
Verify(c, found) ==
    /\ Unlocked(c)
    /\ ~is_terminal(cases[c].status)
    /\ \E v \in Verdict :
         LET s == Processed(cases[c].status, v)
             decided == s = "ACTION_COMPLETED"
         IN  /\ Processes(c, v)
             /\ cases' = [cases EXCEPT ![c] =
                  [status |-> IF ~decided THEN s
                              ELSE IF found = "NONE" THEN "RECOVERED"
                              ELSE "NOT_RECOVERED",
                   material |-> IF found = "NONE" /\ ~decided
                                THEN cases[c].material ELSE found,
                   retried |-> cases[c].retried]]
    /\ UNCHANGED <<clock, policy, keys, notifications, txn, runs, history>>

-----------------------------------------------------------------------------

(* The operator and time *)

\* The bodies that update_policy accepts.
ValidPolicy(p) ==
    p.medium_value_approval_threshold <= p.high_value_approval_threshold

\* patch_policy replaces every setting, and waits for no run that has read
\* the old ones.
UpdatePolicy(p) ==
    /\ ValidPolicy(p)
    /\ policy' = p
    /\ UNCHANGED <<clock, rows, txn, runs, history>>

\* Hours pass between transactions, not during one.
Tick ==
    /\ clock < MaxTime
    /\ \A t \in Threads : txn[t] = NULL
    /\ clock' = clock + 1
    /\ UNCHANGED <<policy, rows, txn, runs, history>>

Runners ==
    \/ \E t \in Threads, k \in Keys, row \in Keys : \E request \in Calls[k] :
          Execute(t, k, row, request)
    \/ \E t \in Threads, k \in Keys : Approve(t, k)
    \/ \E t \in Threads : Commit(t)
    \/ \E t \in Threads : Abort(t)

Answers ==
    \/ \E c \in Cases : ActionEvaluated(c)
    \/ \E k \in Keys : \E request \in Calls[k] : ExecuteAnswered(k, request)
    \/ \E k \in Keys : ApproveAnswered(k)
    \/ \E k \in Keys : ApproveExpired(k)
    \/ \E k \in Keys : Reject(k)

Next ==
    \/ Tick
    \/ Runners
    \/ Answers
    \/ \E c \in Cases : Process(c)
    \/ \E c \in Cases : \E found \in Findings[c] : Verify(c, found)
    \/ \E p \in Policies : UpdatePolicy(p)

Spec == Init /\ [][Next]_vars

-----------------------------------------------------------------------------
(* Properties *)

\* Every row has the shape its table and the code give it.
TypeOK ==
    /\ clock \in Nat
    /\ settings \in Settings
    /\ cases \in [Cases -> CaseRow]
    /\ actions \in [Keys -> ActionRow]
    /\ keys \in [Keys -> KeyRow]
    /\ approvals \in [Keys -> ApprovalRow]
    /\ notifications \in [Keys -> Nat \cup {NULL}]
    /\ txn \in [Threads -> Txn \cup {NULL}]
    /\ runs \in Int
    /\ effects \in [Keys -> Nat]
    /\ last \in [Keys -> Effect \cup {NULL}]
    /\ answers \in [Keys -> SUBSET Result]
    /\ calls \in [Keys -> Nat]
    /\ lost \in [Keys -> Nat]
    /\ reused \subseteq Keys
    /\ overlapped \subseteq {"discount", "reminder"}

\* The decision a key holds: the stored result, once it is final.
Decided(k) == IF keys[k].result \in Final THEN keys[k].result ELSE NULL

Once == INSTANCE OnceOnly WITH
            Decisions <- Final, Success <- "SUCCEEDED",
            Waiting <- "APPROVAL_REQUIRED",
            decided <- [k \in Keys |-> Decided(k)]

\* Through approvals that are granted, rejected, expired or stale, refused
\* and failed runs, and keys that are failed after they completed, a key is
\* decided once, has its effect once, and repeats its decision to every later
\* caller (execute and begin_idempotent_operation).
KeyDecidesOnce == Once!Spec

\* The provider is called a second time for a key only when the run of an
\* earlier call was rolled back after it (handle_retry_payment,
\* handle_create_payment_link): "no second provider call" holds up to that.
ProviderCalledOnce == \A k \in Keys : calls[k] <= 1 + lost[k]

\* An action on a case whose value needs approval takes effect only in the
\* step that decides an approval which was pending, had not expired, and was
\* asked for this very request in the state the case is still in
\* (approve_action and _assert_usable_approval), whichever key or row the runs
\* in between used.
EffectIsApproved ==
    [][\A t \in Threads :
         LET x == txn[t]
             c == CaseOf[x.key]
         IN  /\ x # NULL
             /\ effects'[x.key] # effects[x.key]
             /\ NeedsApproval(x.settings, AtRisk[c], x.request.action)
             => /\ approvals[x.row].status = "PENDING"
                /\ approvals'[x.row].status = "APPROVED"
                /\ clock < approvals[x.row].expires
                /\ approvals[x.row].asked =
                     [request |-> x.request,
                      material |-> cases[c].material]]_vars

\* Once the operator has switched automatic recovery off, nothing automatic
\* takes effect but through a run that had read the policy before, not even
\* an action that waited for its approval and gets it (evaluate_action is
\* called again by the approved run; merchants is not locked).
KillSwitchStops ==
    [][\A k \in Keys :
         /\ effects'[k] # effects[k]
         /\ last'[k].request.action \in AUTOMATIC_ACTIONS
         /\ ~settings.automatic_recovery_enabled
         => \E t \in Threads : /\ txn[t] # NULL
                               /\ txn[t].key = k
                               /\ txn[t].settings.automatic_recovery_enabled
      ]_vars

TookEffect(k, action) == effects[k] > 0 /\ last[k].request.action = action

\* The settings that may have been in force.
Configured == {merge_merchant(Defaults, MerchantPolicy)}
                \cup {p \in Policies : ValidPolicy(p)}

\* The retries a case has had, but for rows that a run of another key has
\* written and rows cancelled after they took effect: both are forgotten.
Retried(c) ==
    {k \in Keys \ reused : /\ CaseOf[k] = c
                           /\ \E a \in RETRY_ACTIONS : TookEffect(k, a)
                           /\ actions[k].status = "SUCCEEDED"}

\* A case has at most max_retry_attempts retries, and one fewer when they
\* need approval, because an approved retry counts itself when its policy is
\* evaluated again (_retry_count).
RetriesWithinLimit ==
    \A c \in Cases :
      \E s \in Configured :
        Cardinality(Retried(c)) <=
          IF /\ \E a \in RETRY_ACTIONS : NeedsApproval(s, AtRisk[c], a)
             /\ s.max_retry_attempts > 0
          THEN s.max_retry_attempts - 1
          ELSE s.max_retry_attempts

\* What the docs say of a retry: it "creates a new simulated payment"
\* (policy-and-tools.md:133), so what the provider has made for a run that
\* policy permits is not yet a row of payments (handle_retry_payment).
RetryMakesNewPayment ==
    \A t \in Threads : /\ txn[t] # NULL
                       /\ Retries(txn[t])
                       => ~cases[CaseOf[txn[t].key]].retried

\* What is left when retries collide: a case gets at most one retried payment,
\* whichever keys, agents and approvals ask for more and however many
\* max_retry_attempts allows (handle_retry_payment, deterministic_payment_id).
OneRetryPayment ==
    \A k, l \in Keys : /\ CaseOf[k] = CaseOf[l]
                       /\ TookEffect(k, "RETRY_NOW")
                       /\ TookEffect(l, "RETRY_NOW")
                       => k = l

\* The discounts that took effect on day d and whose row was created then.
OfferedOn(d) ==
    {k \in Keys \ reused : /\ TookEffect(k, "OFFER_DISCOUNT")
                           /\ last[k].at \div Day = d
                           /\ actions[k].created \div Day = d
                           /\ actions[k].status = "SUCCEEDED"}

\* The amount of each action row.
Amounts == [k \in Keys |-> actions[k].amount]

\* The discounts of a day go over the budget only if two runs on two cases
\* counted it at the same time, or through rows that were written by another
\* key, cancelled after the offer, or created on an earlier day
\* (_discount_spent_today).
DiscountsWithinBudget ==
    "discount" \notin overlapped =>
      \A d \in 0..(MaxTime \div Day) :
        \E s \in Configured :
          SumFunctionOnSet(Amounts, OfferedOn(d))
            <= s.max_daily_discount_budget

\* A customer gets more reminders in 24 hours than the limit only if two runs
\* on two cases counted them at the same time (_communications_last_24h).
RemindersWithinLimit ==
    "reminder" \notin overlapped =>
      \E s \in Configured :
        _communications_last_24h <= s.max_communications_per_day

\* The policy would let a request go on, were its own row not among the
\* discounts of the day.
PermittedBesideItself(c, row, request) ==
    LET ctx == [build_policy_context(c) EXCEPT
                  !.discount_spent_today =
                      SumFunctionOnSet(Offers, Keys \ {row})]
    IN  evaluate_action(settings, ctx, request) \notin {"DENY", "DENY_SOURCE"}

\* What the docs say of an approved discount: the budget blocks it "when the
\* day's discounts would exceed the budget" (policy-and-tools.md:44), and else
\* the approved run "executes the tool" (policy-and-tools.md:113).  So it is
\* not blocked when every other rule permits it and it fits in the budget
\* beside the other discounts of the day (approve_action, build_policy_context,
\* evaluate_action).
ApprovedDiscountIsGiven ==
    [][\A t \in Threads :
         LET x == txn'[t] IN
         /\ txn[t] = NULL
         /\ x # NULL
         /\ x.approved
         /\ x.request.action = "OFFER_DISCOUNT"
         /\ PermittedBesideItself(CaseOf[x.key], x.row, x.request)
         => x.outcome # "BLOCKED"]_vars

\* What is left when an approved discount counts itself: with a budget above
\* neither approval threshold, as in the defaults, a discount that needs
\* approval can only be given on the day after it was asked for, since until
\* then its own row counts for the whole amount at risk
\* (_upsert_action, _discount_spent_today).
ApprovedDiscountWaitsForMidnight ==
    (\A s \in Configured :
        /\ s.max_daily_discount_budget <= s.medium_value_approval_threshold
        /\ s.max_daily_discount_budget <= s.high_value_approval_threshold) =>
      \A k \in Keys \ reused :
        /\ TookEffect(k, "OFFER_DISCOUNT")
        /\ \A s \in Configured :
              NeedsApproval(s, AtRisk[CaseOf[k]], "OFFER_DISCOUNT")
        => actions[k].created \div Day < last[k].at \div Day

\* A case waits for approval only while one is pending, has expired, or was
\* granted to a run that moved nothing: it was denied, stale or refused, or it
\* scheduled a retry, which leaves the status (apply_case_outcome).  Rejection
\* always releases the case.
WaitingHasCause ==
    \A c \in Cases : cases[c].status = "AWAITING_APPROVAL" =>
      \E k \in Keys :
        /\ CaseOf[k] = c
        /\ \/ approvals[k].status \in {"PENDING", "EXPIRED"}
           \/ /\ approvals[k].status = "APPROVED"
              /\ effects[k] = 0 \/ TookEffect(k, "RETRY_LATER")
=============================================================================
