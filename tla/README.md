# TLA+ models of ReviveX (RecoverAI)

ReviveX receives payment events from a provider, opens a recovery case for every
failed payment, decides on and runs recovery actions, and credits recovered
revenue when a captured payment is verified against a case. This directory models
the path of an event, the part that moves money between "at risk" and "recovered",
and the part that decides which recovery action is run, once, and with whose
permission.

| File | What it is |
| --- | --- |
| `RecoveryStateMachine.tla` | the status graph and the status paths of each writer (pure operators) |
| `CaseRecovery.tla` | payments, cases, webhook processing, processor, tools, verification |
| `RecoveryLedger.tla` | what the case rows promise about recovered revenue (abstract) |
| `EventDelivery.tla` | ingestion, queue, worker, retries, dead letters, follow-ups |
| `Money.tla` | rounding of a percentage to the quantum |
| `PolicyEngine.tla` | the policy rules (pure operators) |
| `ToolExecution.tla` | idempotency keys, actions, approvals, policy counters, tool runs |
| `OnceOnly.tla` | what an idempotency key promises its callers (abstract) |
| `Optimizer.tla` | expected values, ranking and selection (pure operators) |
| `AgentOrchestration.tla` | agent runs, composed with `ToolExecution` and `Optimizer` |
| `BatchEvaluation.tla` | the offline comparison with doing nothing (pure operators) |
| `CaseRecoveryProofs.tla`, `EventDeliveryProofs.tla`, `ToolExecutionProofs.tla`, `ToolLimitsProofs.tla`, `AgentOrchestrationProofs.tla`, `BatchEvaluationProofs.tla` | theorems and proofs, one module per component |
| `LifecycleProofs.tla`, `SumTheorems.tla` | lemmas about status paths and about sums, which the others cite |
| `MCCaseRecovery.tla`, `MCToolExecution.tla`, `MCAgentOrchestration.tla`, `*.cfg` | instances for TLC (`EventDelivery` is run directly) |
| `PROJECT.json` | components, runs, mutants, map to the source, findings, hazards, theorems |

Run one: `tlc -workers 2 -config Tools.cfg MCToolExecution`. Check the proofs:
`tlapm ToolExecutionProofs.tla`.

## Inventory

Paths are relative to `src/packages/domain/recoverai_domain` unless they start with
`apps` or `packages`.

| Component | State | Operations | What makes it hard | What makes it correct |
| --- | --- | --- | --- | --- |
| Ingestion (`ingestion.py`, `apps/api/.../deps.py`) | `webhook_events` row, RQ queue | insert or find, enqueue, commit | the job is enqueued before the row is committed; Redis errors are swallowed | an event that keeps coming is settled; it is applied once |
| Worker (`apps/worker/.../jobs.py`) | job, retries left | process, retry, dead letter, follow-ups | crashes between commit and hand-over; retries that need a scheduler; unlocked dead letter | follow-ups are handed over; PROCESSED stays |
| Webhook processing (`processing.py`) | `payments`, `recovery_cases` | upsert the payment, open or attach a case, queue verification | unlocked read of the payment; events in any order | one open case per payment; a capture is not undone; a capture reaches the case |
| Case lifecycle (`state_machine.py`, `transitions.py`) | status, `closed_at` | locked transition | seventeen statuses, five writers | settled cases are final |
| Processor (`processor.py`) | case status, planned action | walk to POLICY_CHECK, verdict | called by job, API, tools and verifier | only legal edges |
| Verification (`verification.py`) | `amount_recovered`, `verified_*` | match, credit in part or in full | unlocked read of other cases; repeated jobs; overpayments and partial captures | `recovered <= at_risk`, exactly; one case per payment; evidence |
| Tools (`tools/`) | actions, tool calls, idempotency keys, approvals | validate, check policy, execute, approve, reject, cancel | repeated and concurrent requests, approval after a change, partial failure | an effect happens once per key; only approved or allowed effects happen |
| Policy (`policy_engine.py`, `policy_context.py`) | limits and counters read from rows | evaluate | counters read without a lock; boundary values | limits are kept |
| Optimizer (`optimizer/`) | candidates | expected value, ranking | ties, gating, decimals | the chosen action is allowed and maximal |
| Agents (`agents/`) | run, budgets | stages with fallbacks | limits reached in the middle, policy read twice, any answer of the language model | a run that stops early has done nothing; one that acts does the best permitted action |
| Operator policy (`apps/api/.../operator`) | the merchant's policy settings | replace, switch recovery off | open runs and pending approvals that were decided before | nothing automatic runs after the switch |
| Simulator (`packages/providers`) | payments of one request | retry, events | payment ids that repeat | – |
| Batch evaluation (`packages/eval`) | none | compare two strategies on generated cases | probabilities that differ from predictions | never worse than doing nothing |
| Dashboard, health, audit, web, model training | read models, probes | – | – | not modelled, see below |

API threads and workers share nothing but PostgreSQL (READ COMMITTED, row locks by
`SELECT ... FOR UPDATE`) and Redis. The API ingests events and enqueues
`process_provider_event`; that job writes payments and cases and, after its commit,
enqueues `process_recovery_case` and `verify_recovery_case`. The API can also
process, verify, run tools and agents, approve and reject on any case at any time.

`CaseRecovery` and `ToolExecution` are two views of the case row. The first has the
payments, events and credits, and takes the verdict of policy and the result of a
tool as any of the possible ones. The second has policy, keys, actions and
approvals, and takes what verification finds as any of the possible findings. Both
take the status paths from `RecoveryStateMachine`, so a status one of them can
write is a status the other allows.

## The modules

### RecoveryStateMachine

`LEGAL_TRANSITIONS` and the terminal statuses are those of the code. A transaction
often takes several edges (the walk goes from DETECTED to POLICY_CHECK in six) of
which only the last is visible to others. The operators therefore give, for each
writer, the set of edges taken and the status left behind. Actions require
`AllLegal(edges)`: an illegal edge raises and rolls the transaction back.

### CaseRecovery

State: the rows of `webhook_events`, `payments` and `recovery_cases`; `links`, the
payments named by a case's successful tool actions; the verify jobs; and, for
each worker, the open transaction with what it has read. `counted` is a history
variable that only a property reads.

| Action | Code |
| --- | --- |
| `Receive` | a new event is committed by ingestion |
| `BeginEvent`, `CommitEvent`, `AbortEvent` | `process_webhook_event` split at its unlocked read of the payment |
| `Process` | `process_recovery_case` |
| `ExecuteTool`, `RetryPayment` | `ToolExecutionService.execute` with the walk the API runs first, or as an approved run |
| `RejectApproval` | `reject_action`, `cancel_action` |
| `AgentRun` | `run_case`, for the status it commits |
| `BeginVerify`, `CommitVerify`, `AbortVerify` | `verify_case` split after its lock and reads |
| `Tick` | the clock |

Choices worth knowing:

- A transaction that locks everything it depends on is one action. The two that do
  not are split at the read.
- A SQLAlchemy session writes the columns whose values changed, so a stale session
  merges with what was committed since (`Flushed`).
- The customer's open cases that an event's transaction read at its start (`seen`)
  may have closed when it writes: a failure may then attach to a closed case, and a
  capture queue a verification of one. Whether a case must be opened is decided in the
  step of the write, because two events of one payment that overlap longer collide on the unique key of `payment_attempts` (payment, attempt number),
  and the later one rolls back. For the same reason the branch that handles an
  IntegrityError on the open-case index is not a separate alternative. It ends like
  the attach branch.
- The policy verdict is any of four, independently each time; the rules of the
  engine are in `PolicyEngine` and used by `ToolExecution`.
- A retried payment is a new row, captured, failed or cancelled
  (`RetryOutcomes`). A case can have one at most: see `ToolExecution`.
- Verify jobs are never removed: a job may be delivered once, again or never. No
  property assumes that one runs, since one that was rolled back is parked like any
  other retry (`retry_never_runs`). Jobs are put in the queue
  together with the commit of the event; `EventDelivery` models what happens
  between the two.
- `retry_payment` in the simulator may also ingest an event for the new payment in
  the same transaction. In the model that event arrives by `Receive`, at any time.
- Dropped here: `version`, `last_mismatch_reason`, audit rows, attempts, failure reasons.
- A provider payment's customer, order and currency are constants of the payment.

### RecoveryLedger

The abstract specification: a case opens with an amount at risk, is credited with
less than that any number of times while open, each credit replacing the last,
and is settled once, recovered exactly or stopped. `CaseRecovery!CaseLedger` maps
the columns `status`, `amount_at_risk` and `amount_recovered` to it.

### EventDelivery

State: the committed status of each webhook row, the transaction of each API
thread, the RQ queue, the set of retries parked in RQ's scheduled registry, each
worker's job with its retries left, and how far the follow-ups of an event are.
`effects` and `interrupted` are history variables. `retries` is
`WORKER_MAX_RETRIES`, chosen at the start between 0 and `MaxRetries`, because the
settings allow 0. What RQ does with a job is taken from how the code uses it: a
retry with an interval goes to the scheduled registry, and the worker, started
with `with_scheduler=False`, never moves it back. The statuses PROCESSING and FAILED are not in the
model: every transaction that writes them overwrites them or rolls back.

A permanent `DomainError` commits the dead letter in the processing transaction
(`DeadLetterNow`); the code raises those errors before its first write.

### PolicyEngine and Money

`evaluate_action` over the merged settings and a context of counts. Rules that
differ only in what they report (the two value thresholds, the reasons) are one
rule. Money is in its quantum of 0.01; `as_money` is the rounding (half to even) of a
percentage of it. The optimizer proposes a discount with its rounded amount and
the executor without, so the budget rule takes the offer in hundredths of the
quantum.

### ToolExecution

State: `cases` (status, and `material`, what a fingerprint of the case keeps),
`actions`, `keys`, `approvals`, `notifications`, the merchant's `policy`, the clock,
and the tool run that each API thread has open with what it read and decided.
`effects`, `last`, `answers`, `calls`, `lost`, `reused` and `overlapped` are history
variables that only properties read.

| Action | Code |
| --- | --- |
| `Execute`, `Approve` | `execute` up to the handler, called by the API or again by `approve_action` (`Begin` is what both share) |
| `Commit`, `Abort` | the writes of the run and the commit, or a rollback that does not undo a call to the provider |
| `ExecuteAnswered`, `ActionEvaluated` | a key that answers from its row, and `evaluate`: only the walk is written |
| `ApproveAnswered`, `ApproveExpired`, `Reject` | the decisions on an approval that start no run |
| `Process`, `Verify` | the processor with its planned action, and the verifier as far as it writes the case |
| `UpdatePolicy` | the operator's PATCH |
| `Tick` | the clock |

- A run holds the lock on its case, so everything it reads of its case stays; what
  it counts of the merchant and the customer is not locked. The run is split there.
- An action row is named by its idempotency key. A caller may name another row of
  the case (`existing_action_id`), which is then written over. That it is a row of
  the case is assumed of the caller: `_upsert_action` compares neither case nor
  merchant. No caller in the repository names a row of another case, and an approval
  given to such a row would be refused by the request hash of the key or by the
  fingerprint of the case.
- Assumed: a key belongs to one case, as all callers in the repository build them,
  and no client uses a key of the processor (`phase5:`); both are `KeysAssumption`.
  There is one merchant and one customer, and time passes between transactions, not
  during one. A client's `attempt_number` is left out.
- Every request makes its own simulator (`tools/execution.py:117`) and the id of a
  payment is a digest of the case and a number that starts at 1, so a second
  `retry_payment` of a case violates the unique key of `payments` and is rolled
  back, although `max_retry_attempts` is 3 by default. `Collides` is this, the
  run `retry_collides` shows it against the docs, and `OneRetryPayment` is what
  remains true. A real provider, which the code does not have yet, would give other
  ids.
- A discount that waits for approval has a row with the whole amount at risk, which
  the day's budget counts; its approved run counts it too. The run
  `approved_discount` shows this against the docs, and
  `ApprovedDiscountWaitsForMidnight` is what follows with the default settings.

### OnceOnly

The abstract specification of a key: undecided until one run decides it; an effect
only with the decision to succeed; afterwards every answer is the decision. The
refinement maps `decided` to the stored result of the key row once it is final.

### Optimizer and AgentOrchestration

`Optimizer` has the expected value of a candidate, its policy gate, and
`select_action` with ties broken by friction, cost and risk. Its candidates are a
set, because the code's sorts end in keys no two candidates share.

`AgentOrchestration` adds the rows of agent runs and, for each thread, a run
between its ranking and its tool call. The five stages before are one step:
nothing they read can change under the lock but what policy counts, which is read
last. The language model answers anything in `LlmAnswers`, also nonsense, and the
prediction cache is any of `Caches`: rows may have been written by the optimize
endpoint at any time before. `StepLimit`, `ToolLimit` and `LeftRunning` are the
budgets and the errors that end a run in the middle.

The composition leaves out the processor, repeated answers, `existing_action_id`
and rollbacks of clients' runs: these are in the `tools` run, and agents use keys of
their own that none of them shares.

### BatchEvaluation

The two strategies, the paired draw and the sums of `evaluate_batch`. The
probabilities of the simulator are any numbers; those the strategy believes are the
same in heuristic mode and any others in ml mode. The strategy evaluated is not the
one deployed: it compares every action with the value of doing nothing, while
`select_action` takes any permitted intervention whose value is not negative.

## Runs

Passing:

| Run | Instance | Checks |
| --- | --- | --- |
| `lifecycle` | 2 workers, 1 payment, 2 cases, 3 failures, captures, refunds or unknown events, amounts 1 and 2, clock from 1 to 2, captures from 0 on, grace 1, window 0 | `TypeOK`, `OneOpenCasePerPayment`, `CreditHasCaptures`, `StrandedStaysPut`, `CaptureReachesCase` |
| `partial` | 2 workers, 2 payments of one order and 1 without an order, 1 case, 3 failures or captures, amounts 1 and 2, 1 rollback | `CreditExact`, `CreditFromContext`, `SettledIsFinal`, `ImplementsLedger` |
| `delivery` | fair; 1 event, 2 API threads, 2 workers, 0 or 1 retries, queue of 3, 3 faults | `TypeOK`, `EffectsOnce`, `RedeliverySettles`, `FollowupsHandedOver` |
| `tools` | 2 threads, a case below and a case above the approval threshold, 2 keys for a discount on the first and 1 for a discount, a retry or a read on the second, 1 planned key, a clock of three half-days, 3 runs, 1 lost call per key, kill switch | `TypeOK`, `RetriesWithinLimit`, `DiscountsWithinBudget`, `WaitingHasCause`, `KeyDecidesOnce`, `EffectIsApproved`, `KillSwitchStops` |
| `agents` | 2 threads, 3 agent runs and a client's payment link on 2 cases, 4 answers of the language model, 2 caches, 3 budgets, 1 tick, kill switch | `AgentTypeOK`, `OnlyCompletedRunsAct`, `ExecutorAgrees`, `RemindersWithinLimit`, `ProviderCalledOnce`, `AgentEffectIsBest` |

The `agents` run also evaluates `BatchEvaluation` on small cases and batches, as
assumptions of its module: `SmallCases` and `SmallBatches` check that heuristic mode
is never worse, and `PredictionsMayLose` is a case where ml mode is.

Runs in which a statement of the docs fails:

| Run | Statement | What happens |
| --- | --- | --- |
| `counted_twice` | a payment counts on one case (`recovery-state-machine.md:77`) | two workers verify two cases of one order; neither sees the other's credit. Without that overlap the statement holds (`CountedOnce`) |
| `capture_downgraded` | a late failure does not downgrade a capture (`recovery-state-machine.md:113`) | the check is made on a row read before the capture was committed |
| `recount` | counting a payment again adds nothing (`ADR-0003:21`) | a later partial credit overwrites `verified_payment_id`, so the case forgets the first payment |
| `dead_letter_race` | a second run is a no-op (`provider-and-events.md:109`) | without retries, a stale `mark_dead_letter` overwrites PROCESSED |
| `retry_never_runs` | bounded retries, then DEAD_LETTER (`provider-and-events.md:123`) | a retry is parked where no scheduler looks |
| `retry_collides` | a retry creates a new payment (`policy-and-tools.md:133`) | the second retry of a case gets the payment id of the first and is rolled back, whatever policy permits |
| `approved_discount` | the budget blocks when the day's discounts would exceed it (`policy-and-tools.md:44`), else the approved run executes (`:113`) | the approved run counts its own waiting row at the whole amount at risk and is denied |

Why the bounds are enough: every race modelled is between two transactions, so two
workers; a credit can be wrong with one partial and one later capture, so two
amounts and two payments; a case can be reopened or doubled with two cases; three
events are a failure, a capture and one more of either. In `lifecycle` a capture can
be earlier than the grace before its case, at either edge of the time in which it counts,
and after it; a refund stands for every event that only sets a status, and an unknown
event is audited and nothing else. The third payment of `partial` has no order, so
that it is related to the case by a tool action or not at all. In `delivery` one event is
enough, because events share only the queue, and the order of jobs of different
events decides nothing. In `tools`, three runs are a request, its approved run and a
third that competes with either; the two cases are needed because runs on one case
exclude each other, and one needs approval and the other does not; the clock reaches
past midnight and past the expiry of an approval. In `agents`, two runs on one case
and one on another are what it takes to reach a limit from both sides and to retry a
case twice, and the first five stages differ only in what they answer. The amounts
are scaled down, in the order of the default settings. Two discounts on two cases
that together exceed the budget need two cases below the threshold, which this
instance has not: `DiscountsWithinBudget` excepts overlapping runs. The invariants
that are also proved do not depend on the bounds at all. `MaxTime`, `MaxRuns`,
`MaxLost`, `MaxFaults`, `MaxQueue`, `Cases` and `Events` are the bounds on what
could grow. `CHECK_DEADLOCK FALSE` is given for CaseRecovery, ToolExecution and
AgentOrchestration because their finite sets of events, requests and runs may all
have been handled; EventDelivery is checked for deadlock. Symmetry is used only
where no liveness is checked.

Fairness. `EventDelivery`: requests that were accepted go on, and each worker goes on
and takes the next job, since RQ workers poll without end. The other specifications
state none, and their properties are all safety: a client may never call again, an
approver may never decide, and a verify job that was rolled back waits in the scheduled
registry for ever. That a captured case is verified in the end is therefore not claimed;
`CaptureReachesCase` says that its verification is queued.
Nothing is assumed of the provider, of users, or of tools: `RedeliverySettles`
has "the provider keeps delivering" as its antecedent.

Every property of a passing run has a mutant of a mapped definition that breaks it
(`PROJECT.json`); the mutants stand beside their originals in the modules.

## Proofs

All theorems hold for every set of workers, threads, payments, cases, events, keys,
amounts and policies, under the assumptions named in the modules: amounts and bounds
are naturals, event types are known ones, keys are finitely many and belong to one
case, and `NULL` is not an identifier.

### CaseRecoveryProofs

`TypeCorrect`, `CreditIsExact`, `OneOpenCase`, `CreditContext`, `Settled`,
`StrandedStays`, `CaptureQueued` and `Refinement`. `TypeOK` alone is not inductive: that a case can be
opened with a natural amount needs the payment to exist, and that its customer is
defined needs the case to have a payment. The inductive invariant is
`TypeOK /\ References`: events that were received name a payment, absent payments are
blank, a case that exists has a payment with an amount and an absent one is blank, and
an open transaction names rows that exist. The lemmas classify steps into those that
leave cases alone, open one (`Opens`), move one (`Moves`) or verify one, so that each
invariant is proved per class of step. The refinement maps an opening to `Open`, a
partial credit to `Credit`, a full one to `Recover`, a move to STOPPED to `Stop`, and
everything else to a stutter.

`OneOpenCase` needs beside it that a blank case counts as closed (`BlankClosed`), and
that a status changes only within the open or into a terminal one with `closed_at`.
`CaptureQueued` follows from three facts about a step: only events open cases
(`OnlyEventsOpen`), a case that was there and is open after the step was open before,
with the same payment (`OpenCaseKept`), and an event other than a capture leaves a
captured row only where the row was captured already, either as its session read it or
by a commit since that read (`WrittenCaptured`). The last is the one exception the
property makes.

The evidence of a credit needs to know what open transactions have read. `Evidence`
says: an event being processed is RECEIVED and has one worker; what its session read
is the row, or was the row before other sessions wrote it (`Fresh`, `Stale`); and a
captured row, what a verification has read of one, and a credited case each have
processed captures for their amount and for their time. It has two strengths:

- *apart*, the amount may be of one capture and the time of another. This is
  inductive for any number of workers and gives `CreditCaptured`.
- *exact*, both are of the same capture. This is inductive while no two events of a
  payment are processed at once (`OneEventPerPayment`), and gives `CreditEvidence`.

The distinction is real: with two workers and four events TLC finds a session that
flushes the amount of one capture over a row that has the time of another, because
an UPDATE sets only the columns that differ from what was read. The exact property is
false then, and `CreditCaptured` is what remains.

The same hypotheses localise two of the violations. `CaptureStands`:
`CapturedNotDowngraded` holds while no two events of a payment are processed at once,
since then `_is_status_downgrade` looks at the row that is written. `CountedOnce`:
`CountedOnOneCase` holds while no two verifications of a payment are open at once,
since then what `list_that_counted_payment` found is still so at the commit
(`StillUncounted`). A lock on the payment row in either place would establish the
hypothesis. `OneWorker` draws the consequence for a deployment with a single worker
and no concurrent API calls: all three hold.

### EventDeliveryProofs

`AppliedOnce` and `DeliveryTypes`. `EffectsOnce` needs to know who may still write a
row: `InsertsAlone` (at most one request inserts an event, and only while its row is
absent) and `HoldsAlone` (at most one worker is processing an event, and its row is
RECEIVED then). Without the first, a late commit could set a processed row back to
RECEIVED; without the second, two workers could apply it.

`FollowupsHaveOwner` is the safety half of `FollowupsHandedOver`: follow-ups that are
due belong to a worker that is handing them over, or a process died at that point.

`ProcessedStaysWithRetries` and `ProcessedStaysWithOneWorker` say how narrow
`dead_letter_race` is. A job that fails is parked for a retry that nothing runs, so every
job in the queue has all of its retries (`AllLeft`); with any retry configured no job
comes to `mark_dead_letter` at all. The race needs `WORKER_MAX_RETRIES` = 0 and two
workers.

### ToolExecutionProofs

`TypeCorrect`, `KeyDecidesOnceHolds`, `EffectIsApprovedHolds`, `KillSwitchStopsHolds`,
`ProviderCalledOnceHolds`, `WaitingHasCauseHolds` and `OneRetryPaymentHolds`. The
inductive invariant `IndInv` adds to `TypeOK`:

- `KeyOK`: a key without a final result has had no effect, and its provider calls
  are all lost ones. This is what a FAILED key without a result may be run again on.
- `RowOK`: a pending approval on an action that may still be approved was asked for
  the request and the case state that the row holds. Without it the fingerprint
  test of an approved run would say nothing about what was approved.
- `RunOK`: what an open run knows about the rows it locked (its key is undecided;
  if approved, its approval is pending, unexpired and of its request; if it takes
  effect, the settings it read permit it). Effects happen at the commit, so the
  action properties need this carried from `Begin` to `Commit`.
- `OneRun`: a case has one open run at most, which is what the row lock gives.
- `EffectOK` and `PlanOK`: an effect other than a scheduled retry has moved the case
  on, and the processor plans for a case once; `WaitsOK` needs both, because
  otherwise a run of another key could bring the case back to waiting.

Every action touches rows of one case. `Elsewhere` and `Leaves` say so, `StepOn`
reduces the invariant to the rows of that case, and one lemma per action proves it
there. `OneRetryPaymentHolds` uses `RetriedOK` beside it: every retry that took effect
has left its payment. The refinement `KeyDecidesOnceHolds` maps a commit with a final
outcome to `Decide`, one that asks for approval to `Wait`, an answered request to
`Wait` or `Repeat`, and the rest to a stutter.

### ToolLimitsProofs

`RetriesWithinLimitHolds`, `RemindersWithinLimitHolds`, `DiscountsWithinBudgetHolds`
and `ApprovedDiscountWaitsForMidnightHolds`, from `LimitsHold`. The last, like
`OneRetryPaymentHolds`, says what a finding costs and not what the docs promise. Policy counts rows when
a run begins, and the row is written when it commits. The inductive invariant
`LimitInv` therefore carries two things beside `IndInv` and the limits. `OpenOK`: what
an open run counted left room for its effect, under a policy that was in force. If no
other run has counted and committed in between (`overlapped`), the commit adds one row
to a count that was below the limit, or one amount to a sum that had room for it.
`HistoriesOK`: what the row of a key tells of the effect of that key, while no other
key has written it (`reused`); without it the counted rows and the effects that took
place would be unrelated. A step that takes no effect is `Quiet`, and one lemma shows
that these keep every limit.

The antecedent of `ApprovedDiscountWaitsForMidnight` names both approval thresholds
because a policy may have the medium one above the high one: a budget below only the
medium one leaves room for a discount that needs approval.

### AgentOrchestrationProofs

Every property of the `agents` run, and those of `ToolExecution` again for the
composition (`AgentKeyDecidesOnce`, `AgentEffectIsApproved`, `AgentKillSwitchStops`,
`AgentLimitsHold`): the steps of agents are not steps of `ToolExecution`, but each one
moves a case onward along the walk (`MovesCase`), begins a run that `Begin` allows or
ends one. The inductive invariant `AgentInv` adds to `LimitInv`:

- `RankingOK`: the selection of a ranked run is a permitted candidate that none beats
  by more than the tie epsilon (`Chosen`); until its tool call, the counts it read
  still permit it (`Fits`), which is what makes the executor agree; after it, the open
  tool run is the one that was ranked (`OfRun`).
- `Alone`: no other run is open on its case, which is what the lock gives.
- `OwnRows` and `UnusedOK`: the key of a run is used by that run alone, and not before
  it is complete, so a run that ends early has done nothing.
- `RetryOK`, the invariant behind `OneRetryPayment`.

That `select_action` has a result for every set of candidates is the argument that a
finite set has a least tie key; no two actions have the same friction, so it is
unique. `ExecutorAgrees` and `AgentEffectIsBest` state two exceptions that no run of
TLC met and the proof needs: the policy may be updated between the ranking and the
tool call, and a default discount of 0 percent is requested as 5 percent
(`_payload_for_action`).

### BatchEvaluationProofs and SumTheorems

`HeuristicNeverWorse`: an action is chosen over doing nothing only if its value is not
lower, its costs are not negative, hence its probability is not lower, and the draw is
the same. `BestExists` shows that the strategy's choice is defined.
`HeuristicRevenueNeverNegative` sums this over a batch of any size.

Sums are the library's `SumFunctionOnSet`, a recursive function that takes the members
of a set in an order nobody knows. `SumTheorems` proves that the order does not matter
(`SumTakeOut`) and that a sum grows with its set and its terms (`SumMonotone`), by
induction on the size of the set. The induction theorems of the library take the claim
as an operator, which the provers cannot instantiate; `Induction` states it for a set
of numbers instead, from the fact that such a set has a least member (`WFMin`).

### Only model-checked

- Liveness, which is out of the prover's reach: `RedeliverySettles`,
  `FollowupsHandedOver`.
- The violations: a theorem says when the statement holds (above), TLC that it does not
  hold always. `RecountAddsNothing`, `RetryMakesNewPayment`, `ApprovedDiscountIsGiven`
  and `RetrySettles` have no such theorem: the first three are false with one worker or
  thread, the last is liveness.

## Not modelled

- Read models and pages of the operator API, the demo, health probes and the web
  application: they decide nothing about cases, payments or actions. The demo and the
  simulation API call the services modelled here.
- Audit rows, tool calls, policy evaluations and recovery decisions: rows written in
  the same transaction as what they describe, and read by no decision.
- Training, calibration and generation of cases for the probability model:
  floating-point code. The models take its results as any numbers.
- What a language model answers: any answer is tried, none is judged.
- Validation of requests by their schemas: `Receive` delivers valid events, `Calls`
  are valid calls, and an event that processing refuses is dead-lettered.
- Carts, subscriptions and several merchants or customers: no rule relates the rows
  of two merchants.
- Loss of follow-ups when a worker dies between commit and hand-over is in
  `EventDelivery` (`interrupted`); the code has no recovery for it, so no property is
  stated over the cases it leaves.
