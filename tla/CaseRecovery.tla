---------------------------- MODULE CaseRecovery ----------------------------
(***************************************************************************)
(* Payments, recovery cases and the credit of recovered revenue.           *)
(*                                                                         *)
(* Every database transaction that writes the payments or recovery_cases   *)
(* tables is an action here: webhook processing (processing.py), the       *)
(* deterministic processor (processor.py), verification (verification.py)  *)
(* and the status changes of tools, approvals and agents.  PostgreSQL runs *)
(* them at READ COMMITTED.  A transaction that locks all it reads is one   *)
(* action; the two that read rows they do not lock are split at the read:  *)
(*                                                                         *)
(*   webhook processing  reads the payment row, then writes it later;      *)
(*   verification        locks its case, reads the payment and the other   *)
(*                       cases that counted it, then writes its case.      *)
(*                                                                         *)
(* One merchant.  A provider payment's customer, order and currency are    *)
(* the same in all of its events, so they are functions of the payment.    *)
(***************************************************************************)
EXTENDS RecoveryStateMachine, FiniteSets

CONSTANTS
    Workers,       \* RQ workers and API threads: who runs transactions
    Payments,      \* provider payment ids
    Cases,         \* ids for recovery cases (bounds how many are opened)
    Events,        \* webhook event ids (bounds how many are received)
    EventTypes,    \* the event types the provider sends
    Amounts,       \* amounts carried by events
    CustomerOf,    \* customer of each payment
    OrderOf,       \* provider_order_id of each payment, or NULL
    CurrencyOf,    \* currency of each payment
    Grace, Window, \* recovery_ordering_grace and recovery_window, in ticks
    Start,         \* the clock at first: events may have occurred before
    MaxTime,       \* bound on the clock
    MaxFaults,     \* bound on transactions that roll back
    NULL

ASSUME AmountsAssumption == Amounts \subseteq Nat
ASSUME TimeAssumption == /\ Grace \in Nat /\ Window \in Nat
                         /\ MaxTime \in Nat /\ Start \in 0..MaxTime
ASSUME FaultsAssumption == MaxFaults \in Nat
ASSUME NullAssumption == /\ NULL \notin Nat \cup Payments \cup Cases
                         /\ NULL \notin Events
\* DomainEventType, and any other type, which is stored without side effects.
ASSUME EventTypesAssumption ==
    EventTypes \subseteq {"CREATED", "AUTHORIZED", "FAILED", "CAPTURED",
                          "REFUNDED", "CANCELLED", "UNKNOWN"}

VARIABLES
    clock,     \* now
    events,    \* webhook_events rows
    payments,  \* payments rows
    cases,     \* recovery_cases rows
    links,     \* <<case, payment>>: a tool action of the case names the payment
    jobs,      \* verify_recovery_case jobs that were queued
    txn,       \* the open split transaction of each worker
    faults,    \* rollbacks so far
    counted    \* history: <<case, payment>> credited at some time

vars == <<clock, events, payments, cases, links, jobs, txn, faults, counted>>

-----------------------------------------------------------------------------
(* Rows *)

PaymentStatus == {"CREATED", "AUTHORIZED", "FAILED", "CAPTURED", "REFUNDED",
                  "CANCELLED"}

PaymentRow == [status: PaymentStatus \cup {"ABSENT"}, amount: Nat,
               captured_at: Nat \cup {NULL}]

NoPayment == [status |-> "ABSENT", amount |-> 0, captured_at |-> NULL]

\* verified_by and verified_event are verified_payment_id and
\* verified_webhook_event_id.  A case is open while closed_at is NULL.
CaseRow == [status: CaseStatus \cup {"ABSENT"}, closed_at: Nat \cup {NULL},
            payment: Payments \cup {NULL}, at_risk: Nat, recovered: Nat,
            verified_by: Payments \cup {NULL},
            verified_event: Events \cup {NULL}, opened_at: Nat]

NoCase == [status |-> "ABSENT", closed_at |-> 0, payment |-> NULL,
           at_risk |-> 0, recovered |-> 0, verified_by |-> NULL,
           verified_event |-> NULL, opened_at |-> 0]

\* PROCESSING and FAILED are only ever written by transactions that roll back
\* or that overwrite them before they commit, so no row is seen with them.
EventRow == [status: {"ABSENT", "RECEIVED", "PROCESSED", "DEAD_LETTER"},
             type: EventTypes \cup {NULL}, payment: Payments \cup {NULL},
             amount: Nat, at: Nat]

NoEvent == [status |-> "ABSENT", type |-> NULL, payment |-> NULL,
            amount |-> 0, at |-> 0]

Job == [case: Cases, payment: Payments, event: Events \cup {NULL}]

\* An open transaction: the job it runs and what it has read.
Txn == [kind: {"idle", "event", "verify"}, event: Events \cup {NULL},
        case: Cases \cup {NULL}, payment: Payments \cup {NULL},
        read: PaymentRow, seen: SUBSET Cases]

Idle == [kind |-> "idle", event |-> NULL, case |-> NULL, payment |-> NULL,
         read |-> NoPayment, seen |-> {}]

Init ==
    /\ clock = Start
    /\ events = [e \in Events |-> NoEvent]
    /\ payments = [p \in Payments |-> NoPayment]
    /\ cases = [c \in Cases |-> NoCase]
    /\ links = {}
    /\ jobs = {}
    /\ txn = [w \in Workers |-> Idle]
    /\ faults = 0
    /\ counted = {}

\* SELECT ... FOR UPDATE on the case row would not wait.
Unlocked(c) == \A w \in Workers : ~(txn[w].kind = "verify" /\ txn[w].case = c)

\* Mutant: only cases that have not been worked on are found.
OpenForPaymentDetected(p) ==
    {c \in Cases : cases[c].status = "DETECTED" /\ cases[c].payment = p}

\* list_open_for_payment and list_open_for_customer.
OpenForPayment(p) ==
    {c \in Cases : cases[c].closed_at = NULL /\ cases[c].payment = p}
OpenForCustomer(p) ==
    {c \in Cases : cases[c].closed_at = NULL
                   /\ CustomerOf[cases[c].payment] = CustomerOf[p]}

\* transition_case, as the last status of a legal path.
Moved(row, status) ==
    [row EXCEPT !.status = status,
                !.closed_at = IF is_terminal(status) THEN clock ELSE NULL]

-----------------------------------------------------------------------------
(* Webhook processing *)

\* EventIngestionService.ingest has committed the row of a new event.
Receive(e, type, p, amount, at) ==
    /\ events[e].status = "ABSENT"
    /\ events' = [events EXCEPT ![e] =
                    [status |-> "RECEIVED", type |-> type, payment |-> p,
                     amount |-> amount, at |-> at]]
    /\ UNCHANGED <<clock, payments, cases, links, jobs, txn, faults, counted>>

\* process_webhook_event locks the webhook row and reads the payment.  The
\* open cases are looked for later, before the commit.
BeginEvent(w, e) ==
    /\ txn[w] = Idle
    /\ events[e].status = "RECEIVED"
    /\ \A v \in Workers : ~(txn[v].kind = "event" /\ txn[v].event = e)
    /\ txn' = [txn EXCEPT ![w] =
                 [Idle EXCEPT !.kind = "event", !.event = e,
                              !.payment = events[e].payment,
                              !.read = payments[events[e].payment],
                              !.seen = OpenForCustomer(events[e].payment)]]
    /\ UNCHANGED <<clock, events, payments, cases, links, jobs, faults,
                   counted>>

_is_status_downgrade(current, incoming) ==
    \/ /\ current = "CAPTURED"
       /\ incoming \in {"CREATED", "AUTHORIZED", "FAILED", "CANCELLED"}
    \/ current = "REFUNDED" /\ incoming # "REFUNDED"

\* _find_or_create_payment: the row as the session holds it, from the row read
\* and the event.  A capture overwrites status, time and amount whatever the
\* row was.
SessionPayment(read, ev) ==
    [status |-> IF read.status = "ABSENT" \/ ev.type = "CAPTURED"
                     \/ ~_is_status_downgrade(read.status, ev.type)
                THEN ev.type ELSE read.status,
     amount |-> IF read.status = "ABSENT" \/ ev.type = "CAPTURED"
                THEN ev.amount ELSE read.amount,
     captured_at |-> IF ev.type = "CAPTURED" THEN ev.at
                     ELSE read.captured_at]

\* The UPDATE the session flushes sets the columns that differ from what was
\* read, over whatever has been committed since.
Flushed(row, read, new) ==
    [status |-> IF new.status = read.status THEN row.status ELSE new.status,
     amount |-> IF new.amount = read.amount THEN row.amount ELSE new.amount,
     captured_at |-> IF new.captured_at = read.captured_at
                     THEN row.captured_at ELSE new.captured_at]

\* A row that was absent is inserted: that fails on the payment's unique key
\* when another transaction has inserted it, and the worker rolls back.
InsertConflict(read, p) ==
    read.status = "ABSENT" /\ payments[p].status # "ABSENT"

\* Mutant: a new or attached case is not verified against its own payment.
VerifyIfCapturedNever(status) == FALSE

\* The failure came after the capture: the case is verified at once.
VerifyIfCaptured(status) == status = "CAPTURED"

\* _queue_verify, for each of the candidate cases.
VerifyJobs(candidates, p, e) ==
    {[case |-> c, payment |-> p, event |-> e] : c \in candidates}

\* The row of a new case, for all that the payment carries.
NewCase(p, amount) ==
    [NoCase EXCEPT !.status = "DETECTED", !.closed_at = NULL, !.payment = p,
                   !.at_risk = amount, !.opened_at = clock]

\* _create_or_attach_recovery_case.  A case that was open at the look may have
\* been closed since: the failure is attached to it all the same.
OpenOrAttach(e, p, new, seen) ==
    \/ /\ \E c \in OpenForPayment(p) \cup {d \in seen : cases[d].payment = p} :
            jobs' = IF VerifyIfCaptured(new.status)
                    THEN jobs \cup VerifyJobs({c}, p, e) ELSE jobs
       /\ UNCHANGED cases
    \/ /\ OpenForPayment(p) = {}
       /\ \E c \in Cases :
            /\ cases[c].status = "ABSENT"
            /\ cases' = [cases EXCEPT ![c] = NewCase(p, new.amount)]
            /\ jobs' = IF VerifyIfCaptured(new.status)
                       THEN jobs \cup VerifyJobs({c}, p, e) ELSE jobs

\* Every open case of the customer is a candidate for the capture.  Cases of
\* other payments may be opened or closed between the look and the commit.
_handle_payment_captured(e, p, seen) ==
    /\ \E others \in {seen, OpenForCustomer(p)} :
         jobs' = jobs \cup VerifyJobs(OpenForPayment(p) \cup others, p, e)
    /\ UNCHANGED cases

\* Mutant: an unknown event is handled like a status event.
UnknownDomainEventNever(ev) == FALSE

\* normalize_provider_event does not know the type: the event is only audited.
UnknownDomainEvent(ev) == ev.type = "UNKNOWN"

\* Any other event writes the payment and nothing else.
_handle_payment_status == UNCHANGED <<cases, jobs>>

\* _dispatch, and the commit of the worker.  The attempt is flushed before the
\* look for open cases, and its unique (payment_id, attempt_number) key keeps
\* other events of the payment out until the commit: no case of this payment
\* is opened in between.
CommitEvent(w) ==
    LET e   == txn[w].event
        p   == txn[w].payment
        ev  == events[e]
        new == SessionPayment(txn[w].read, ev)
    IN  /\ txn[w].kind = "event"
        /\ UnknownDomainEvent(ev) \/ ~InsertConflict(txn[w].read, p)
        /\ payments' = IF UnknownDomainEvent(ev) THEN payments
                       ELSE [payments EXCEPT ![p] =
                               Flushed(@, txn[w].read, new)]
        /\ \/ /\ ev.type = "FAILED"
              /\ OpenOrAttach(e, p, new, txn[w].seen)
           \/ /\ ev.type = "CAPTURED"
              /\ _handle_payment_captured(e, p, txn[w].seen)
           \/ /\ ev.type \notin {"FAILED", "CAPTURED"}
              /\ _handle_payment_status
        /\ events' = [events EXCEPT ![e].status = "PROCESSED"]
        /\ txn' = [txn EXCEPT ![w] = Idle]
        /\ UNCHANGED <<clock, links, faults, counted>>

\* The transaction fails, by the unique key of the payment it inserts or for
\* any other reason, or the worker dies: nothing of it is kept.  The event is
\* retried, or is dead-lettered when it may not be.
AbortEvent(w) ==
    /\ txn[w].kind = "event"
    /\ \/ /\ ~UnknownDomainEvent(events[txn[w].event])
          /\ InsertConflict(txn[w].read, txn[w].payment)
          /\ UNCHANGED faults
       \/ /\ faults < MaxFaults
          /\ faults' = faults + 1
    /\ \E status \in {"RECEIVED", "DEAD_LETTER"} :
         events' = [events EXCEPT ![txn[w].event].status = status]
    /\ txn' = [txn EXCEPT ![w] = Idle]
    /\ UNCHANGED <<clock, payments, cases, links, jobs, counted>>

-----------------------------------------------------------------------------
(* The processor, tools, approvals and agents: they lock the case first *)

SetStatus(c, status) == cases' = [cases EXCEPT ![c] = Moved(@, status)]

\* process_recovery_case, as a job or through the API.  The policy verdict is
\* any: the engine's own inputs are not part of this module.
Process(c, v) ==
    /\ Unlocked(c)
    /\ cases[c].status \in OnWalk
    /\ ProcessLegal(cases[c].status, v)
    /\ SetStatus(c, Processed(cases[c].status, v))
    /\ UNCHANGED <<clock, events, payments, links, jobs, txn, faults, counted>>

\* A tool run on a case.  Through the API the case is first walked to
\* POLICY_CHECK; an approved run re-enters without the walk, and approval is
\* never asked for ESCALATE and DO_NOTHING.
ToolRuns(c, approved, o) ==
    LET s == cases[c].status
        t == IF approved THEN s ELSE Walked(s)
    IN  /\ Unlocked(c)
        /\ IF approved
           THEN /\ s \in SIDE_EFFECT_EXECUTE_STATES \ {"POLICY_CHECK"}
                /\ o \in {"BLOCKED", "FAILED", "ACTION_COMPLETED",
                          "RETRY_SCHEDULED"}
           ELSE CanWalk(s)
        /\ t \in SIDE_EFFECT_EXECUTE_STATES
        /\ AllLegal(ToolEdges(t, o))
        /\ SetStatus(c, ToolStatus(t, o))

ExecuteTool(c, approved, o) ==
    /\ ToolRuns(c, approved, o)
    /\ UNCHANGED <<clock, events, payments, links, jobs, txn, faults, counted>>

\* roll_attempt_outcome, which the strict input of the tool leaves without an
\* intended status.
RetryOutcomes == {"CAPTURED", "FAILED", "CANCELLED"}

\* retry_payment succeeds: the provider creates a payment for the same order,
\* customer and amount, and the action row names it.  The simulator is made
\* anew for each request and gives every retry of a case the same id, so a
\* second one violates payments' unique key and is rolled back.
RetryPayment(c, approved, q, status) ==
    LET original == cases[c].payment IN
    /\ ToolRuns(c, approved, "ACTION_COMPLETED")
    /\ \A p \in Payments : <<c, p>> \notin links
    /\ payments[q].status = "ABSENT"
    /\ CustomerOf[q] = CustomerOf[original]
    /\ OrderOf[q] = OrderOf[original]
    /\ CurrencyOf[q] = CurrencyOf[original]
    /\ payments' = [payments EXCEPT ![q] =
                      [status |-> status,
                       amount |-> payments[original].amount,
                       captured_at |-> IF status = "CAPTURED" THEN clock
                                       ELSE NULL]]
    /\ links' = links \cup {<<c, q>>}
    /\ UNCHANGED <<clock, events, jobs, txn, faults, counted>>

\* reject_action and cancel_action on a case that waits.
RejectApproval(c) ==
    /\ Unlocked(c)
    /\ cases[c].status = "AWAITING_APPROVAL"
    /\ AllLegal({<<"AWAITING_APPROVAL", "ESCALATED">>})
    /\ SetStatus(c, "ESCALATED")
    /\ UNCHANGED <<clock, events, payments, links, jobs, txn, faults, counted>>

\* run_case commits the walk as far as the stage at which it stopped: after
\* triage, after the diagnosis, at the policy check; a limit exceeded there
\* escalates the case.
AgentRun(c, stop) ==
    LET s == cases[c].status IN
    /\ Unlocked(c)
    /\ s \in OnWalk
    /\ \/ /\ stop = "ESCALATED"
          /\ AllLegal(WalkEdges(s, "POLICY_CHECK")
                        \cup {<<"POLICY_CHECK", "ESCALATED">>})
       \/ /\ stop \in {"TRIAGED", "DIAGNOSED", "POLICY_CHECK"}
          /\ WalkEdges(s, stop) # {}
          /\ AllLegal(WalkEdges(s, stop))
    /\ SetStatus(c, stop)
    /\ UNCHANGED <<clock, events, payments, links, jobs, txn, faults, counted>>

-----------------------------------------------------------------------------
(* Verification *)

\* list_that_counted_payment, without the case itself.
CountedElsewhere(c, p) ==
    {d \in Cases \ {c} : cases[d].verified_by = p /\ cases[d].recovered > 0}

\* verify_case locks the case, then reads the payment and who counted it.
\* Jobs are never removed: one that has run, or was rolled back, may or may not
\* be delivered again.  The API verifies a case against its own payment, with
\* no event, at any time.
BeginVerify(w, c, p, e) ==
    /\ txn[w] = Idle
    /\ cases[c].status # "ABSENT"
    /\ \/ [case |-> c, payment |-> p, event |-> e] \in jobs
       \/ p = cases[c].payment /\ e = NULL
    /\ Unlocked(c)
    /\ txn' = [txn EXCEPT ![w] =
                 [kind |-> "verify", event |-> e, case |-> c, payment |-> p,
                  read |-> payments[p],
                  seen |-> CountedElsewhere(c, p)]]
    /\ UNCHANGED <<clock, events, payments, cases, links, jobs, faults,
                   counted>>

_duplicate_or_already_counted(row, t) ==
    \/ t.event # NULL /\ row.verified_event = t.event
    \/ row.verified_by = t.payment
    \/ t.seen # {}

OrderMismatch(p, q) ==
    OrderOf[p] # NULL /\ OrderOf[q] # NULL /\ OrderOf[p] # OrderOf[q]

\* Mutant: payments share an order unless both name one and they differ.
SharedOrderUnknown(p, q) == ~OrderMismatch(p, q)

SharedOrder(p, q) == OrderOf[p] # NULL /\ OrderOf[p] = OrderOf[q]

\* The payment belongs to the case's recovery context: rules on customer,
\* order, payment and currency.
ContextMatches(c, p) ==
    LET own == cases[c].payment IN
    /\ CustomerOf[p] = CustomerOf[own]
    /\ ~OrderMismatch(own, p)
    /\ p = own \/ SharedOrder(own, p) \/ <<c, p>> \in links
    /\ CurrencyOf[p] = CurrencyOf[own]

\* Mutant: the grace extends the window at both ends.
InsideWindowGraceTwice(row, at) ==
    row.opened_at <= at + Grace /\ at <= row.opened_at + Window + Grace

_inside_window(row, at) ==
    row.opened_at <= at + Grace /\ at <= row.opened_at + Window

\* _evaluate finds no mismatch.
Credits(c, t) ==
    /\ ContextMatches(c, t.payment)
    /\ t.read.status = "CAPTURED"
    /\ t.read.captured_at # NULL
    /\ _inside_window(cases[c], t.read.captured_at)
    /\ t.read.amount > 0

\* Mutant: a capture of exactly the exposure is partial.
MatchedIfMore(c, t) == Credits(c, t) /\ t.read.amount > cases[c].at_risk

\* It covers the whole exposure.
Matched(c, t) == Credits(c, t) /\ t.read.amount >= cases[c].at_risk

\* _ensure_verifying, and the edges it takes when policy answers v.
Verifying(s, v) == Processed(s, v) = "ACTION_COMPLETED" \/ s = "VERIFYING"
EnsureLegal(s, v) ==
    /\ ProcessLegal(s, v)
    /\ Processed(s, v) = "ACTION_COMPLETED" =>
         AllLegal({<<"ACTION_COMPLETED", "VERIFYING">>,
                   <<"VERIFYING", "RECOVERED">>,
                   <<"VERIFYING", "NOT_RECOVERED">>})

\* A row moved to a status and credited, over what was credited before.
Credited(row, status, amount, t) ==
    [Moved(row, status) EXCEPT !.recovered = amount,
                               !.verified_by = t.payment,
                               !.verified_event = t.event]

\* Mutant: the captured amount is credited without the cap at amount_at_risk.
ApplySuccessUncapped(row, t, v) ==
    IF Verifying(row.status, v)
    THEN Credited(row, "RECOVERED", t.read.amount, t)
    ELSE Moved(row, Processed(row.status, v))

\* _apply_success: nothing is written unless the case is being verified.
_apply_success(row, t, v) ==
    IF Verifying(row.status, v)
    THEN Credited(row, "RECOVERED", row.at_risk, t)
    ELSE Moved(row, Processed(row.status, v))

\* The status of a case that verification does not recover.
FailureStatus(s, v) ==
    IF Verifying(s, v) THEN "NOT_RECOVERED" ELSE Processed(s, v)

\* _persist_failure: a partial capture is credited whatever the status.
_persist_failure(row, t, v, partial) ==
    LET to == FailureStatus(row.status, v)
    IN  IF partial THEN Credited(row, to, t.read.amount, t) ELSE Moved(row, to)

\* Mutant: a case that is settled is verified again.
VerifiedAgain(c, t, v) ==
    LET row == cases[c] IN
    IF _duplicate_or_already_counted(row, t) THEN row
    ELSE IF Matched(c, t) THEN _apply_success(row, t, v)
    ELSE _persist_failure(row, t, v, Credits(c, t))

\* The case row verify_case leaves.
Verified(c, t, v) ==
    LET row == cases[c] IN
    IF \/ row.status \in {"STOPPED", "RECOVERED"}
       \/ _duplicate_or_already_counted(row, t)
    THEN row
    ELSE IF Matched(c, t) THEN _apply_success(row, t, v)
    ELSE _persist_failure(row, t, v, Credits(c, t))

CommitVerify(w, v) ==
    LET t == txn[w]
        c == t.case
        new == Verified(c, t, v)
    IN  /\ t.kind = "verify"
        /\ cases[c].status \notin TERMINAL_RECOVERY_STATUSES
             => EnsureLegal(cases[c].status, v)
        /\ cases' = [cases EXCEPT ![c] = new]
        /\ counted' = IF new.verified_by # cases[c].verified_by
                      THEN counted \cup {<<c, t.payment>>} ELSE counted
        /\ txn' = [txn EXCEPT ![w] = Idle]
        /\ UNCHANGED <<clock, events, payments, links, jobs, faults>>

AbortVerify(w) ==
    /\ txn[w].kind = "verify"
    /\ faults < MaxFaults
    /\ faults' = faults + 1
    /\ txn' = [txn EXCEPT ![w] = Idle]
    /\ UNCHANGED <<clock, events, payments, cases, links, jobs, counted>>

-----------------------------------------------------------------------------

Tick ==
    /\ clock < MaxTime
    /\ clock' = clock + 1
    /\ UNCHANGED <<events, payments, cases, links, jobs, txn, faults, counted>>

\* occurred_at is kept in the payment row for captures only.
Webhooks ==
    \/ \E e \in Events, type \in EventTypes, p \in Payments,
          amount \in Amounts :
          \E at \in IF type = "CAPTURED" THEN 0..clock ELSE {0} :
             Receive(e, type, p, amount, at)
    \/ \E w \in Workers, e \in Events : BeginEvent(w, e)
    \/ \E w \in Workers : CommitEvent(w)
    \/ \E w \in Workers : AbortEvent(w)

Verifications ==
    \/ \E w \in Workers, c \in Cases, p \in Payments, e \in Events \cup {NULL} :
          BeginVerify(w, c, p, e)
    \/ \E w \in Workers, v \in Verdict : CommitVerify(w, v)
    \/ \E w \in Workers : AbortVerify(w)

Actions ==
    \/ \E c \in Cases, approved \in BOOLEAN, o \in ToolOutcome :
          ExecuteTool(c, approved, o)
    \/ \E c \in Cases, approved \in BOOLEAN, q \in Payments,
          status \in RetryOutcomes :
          RetryPayment(c, approved, q, status)
    \/ \E c \in Cases : RejectApproval(c)
    \/ \E c \in Cases, stop \in CaseStatus : AgentRun(c, stop)

Next ==
    \/ Tick
    \/ Webhooks
    \/ \E c \in Cases, v \in Verdict : Process(c, v)
    \/ Verifications
    \/ Actions

Spec == Init /\ [][Next]_vars

-----------------------------------------------------------------------------
(* Properties *)

\* The rows have the types of their tables and the links and jobs name rows
\* that exist.
TypeOK ==
    /\ clock \in 0..MaxTime
    /\ events \in [Events -> EventRow]
    /\ payments \in [Payments -> PaymentRow]
    /\ cases \in [Cases -> CaseRow]
    /\ links \subseteq Cases \X Payments
    /\ jobs \subseteq Job
    /\ txn \in [Workers -> Txn]
    /\ faults \in 0..MaxFaults
    /\ counted \subseteq Cases \X Payments

\* The accounting rule 0 <= amount_recovered <= amount_at_risk, exactly: a case
\* is RECOVERED only with its whole exposure credited by some payment, and any
\* other case keeps some exposure (verify_case, whatever capture, overpayment
\* or partial capture it is given and whatever it read before it wrote).
CreditExact ==
    \A c \in Cases :
      /\ cases[c].recovered <= cases[c].at_risk
      /\ cases[c].status = "RECOVERED" =>
           /\ cases[c].recovered = cases[c].at_risk
           /\ cases[c].verified_by # NULL
      /\ cases[c].recovered > 0 /\ cases[c].status # "RECOVERED" =>
           cases[c].recovered < cases[c].at_risk

\* Revenue is credited only from the case's own recovery context: the payment
\* that credits a case is of the same customer and currency, and is the case's
\* payment, of its order, or made by one of its tool actions (_evaluate).
CreditFromContext ==
    \A c \in Cases :
      LET own == cases[c].payment
          by  == cases[c].verified_by
      IN  by # NULL =>
            /\ CustomerOf[by] = CustomerOf[own]
            /\ CurrencyOf[by] = CurrencyOf[own]
            /\ \/ by = own
               \/ OrderOf[by] # NULL /\ OrderOf[by] = OrderOf[own]
               \/ <<c, by>> \in links

\* A capture of the payment that was processed, and a payment a tool made.
Capture(p, e) ==
    /\ events[e].status = "PROCESSED"
    /\ events[e].type = "CAPTURED"
    /\ events[e].payment = p
Made(p) == \E d \in Cases : <<d, p>> \in links

\* Credited revenue is backed by captures of the provider that were processed:
\* one of at least the credited amount, and one inside the case's window, or a
\* tool made the payment.  Two sessions that flush two captures over each other
\* may mix the amount of one with the time of the other, but invent neither
\* (_find_or_create_payment, then verify_case, with failures and refunds of the
\* payment processed before, between and after).
CreditHasCaptures ==
    \A c \in Cases :
      LET by == cases[c].verified_by IN
      cases[c].recovered > 0 =>
        \/ Made(by)
        \/ /\ \E e \in Events : /\ Capture(by, e)
                               /\ events[e].amount >= cases[c].recovered
           /\ \E f \in Events :
                /\ Capture(by, f)
                /\ cases[c].opened_at - Grace <= events[f].at
                /\ events[f].at <= cases[c].opened_at + Window

\* A payment has one open case at most, whatever events of it are processed
\* together: the partial unique index uq_recovery_cases_open_payment refuses
\* nothing, because no closed case opens again (transition_case sets closed_at
\* with the status, _create_or_attach_recovery_case looks at closed_at).
OneOpenCasePerPayment ==
    /\ \A c, d \in Cases :
         cases[c].closed_at = NULL /\ cases[d].closed_at = NULL
           /\ cases[c].payment = cases[d].payment => c = d
    /\ \A c \in Cases :
         cases[c].status # "ABSENT" =>
           (cases[c].closed_at # NULL <=> is_terminal(cases[c].status))

\* A case that is RECOVERED or STOPPED is settled: no late job, tool, approval,
\* agent or second capture changes its status, its credit or what verified it.
SettledIsFinal ==
    [][\A c \in Cases : is_terminal(cases[c].status) => cases'[c] = cases[c]]_vars

\* NOT_RECOVERED, FAILED, RETRY_SCHEDULED and ESCALATED stay open but nothing in
\* the code moves a case out of them: the walk to POLICY_CHECK refuses them, so
\* the edges the graph gives them are never taken.
Stranded == {"NOT_RECOVERED", "FAILED", "RETRY_SCHEDULED", "ESCALATED"}
StrandedStaysPut ==
    [][\A c \in Cases : cases[c].status \in Stranded =>
          cases'[c].status = cases[c].status]_vars

\* The case rows implement the ledger: a case opens once with its exposure, is
\* credited less than that while it is open, and is settled once, whatever
\* transactions interleave (RecoveryLedger, through the columns status,
\* amount_at_risk and amount_recovered).
LedgerEntry(row) ==
    [state |-> IF row.status = "ABSENT" THEN "none"
               ELSE IF row.status = "RECOVERED" THEN "recovered"
               ELSE IF row.status = "STOPPED" THEN "stopped"
               ELSE "open",
     at_risk |-> row.at_risk, recovered |-> row.recovered]
CaseLedger == [c \in Cases |-> LedgerEntry(cases[c])]
Ledger == INSTANCE RecoveryLedger WITH ledger <- CaseLedger
ImplementsLedger == Ledger!LedgerSpec

\* Rule 7 of the verification rules: a payment counts towards one case at most
\* (_duplicate_or_already_counted, which reads the other cases unlocked).
CountedOnOneCase ==
    \A c, d \in Cases :
      /\ c # d
      /\ cases[c].verified_by # NULL
      /\ cases[c].verified_by = cases[d].verified_by
      => cases[c].recovered = 0 \/ cases[d].recovered = 0

\* A payment that was captured is not set back by a late event: it stays
\* CAPTURED until it is refunded (_is_status_downgrade, on a row read earlier).
CapturedNotDowngraded ==
    [][\A p \in Payments : payments[p].status = "CAPTURED" =>
          payments'[p].status \in {"CAPTURED", "REFUNDED"}]_vars

\* Verifying again a payment that a case has counted does not increase the
\* case's recovered revenue.
RecountAddsNothing ==
    [][\A w \in Workers :
          /\ txn[w].kind = "verify" /\ txn'[w] = Idle
          /\ <<txn[w].case, txn[w].payment>> \in counted
          => cases'[txn[w].case].recovered <= cases[txn[w].case].recovered]_vars


\* The case is open and its own payment is captured; a verification of it
\* against that payment has been queued.
CapturedCase(c) ==
    cases[c].closed_at = NULL /\ payments[cases[c].payment].status = "CAPTURED"
Queued(c) == \E job \in jobs : job.case = c /\ job.payment = cases[c].payment

\* In whichever order the failure and the capture of a payment are processed,
\* its open case gets a verification: the capture queues it for a case it
\* finds, the failure for a case of a payment it finds captured.  It is missed
\* only by a failure whose session read the payment before the capture was
\* committed (_create_or_attach_recovery_case, _handle_payment_captured).
CaptureReachesCase ==
    [][\A c \in Cases :
         ~CapturedCase(c) /\ CapturedCase(c)' =>
           \/ Queued(c)'
           \/ \E w \in Workers :
                LET t == txn[w] IN
                /\ t.kind = "event" /\ txn'[w] = Idle
                /\ events[t.event].type = "FAILED"
                /\ t.read.status # payments[t.payment].status]_vars
=============================================================================
