------------------------- MODULE CaseRecoveryProofs -------------------------
(***************************************************************************)
(* Proofs about CaseRecovery for every number of workers, payments, cases  *)
(* and events, every amount and every bound.                               *)
(*                                                                         *)
(* The inductive invariant is TypeOK with References: the rows a row or an *)
(* open transaction names exist.  From it, CaseSteps shows that whatever   *)
(* transaction commits, the recovery_cases table changes in one of four    *)
(* ways; the safety properties follow from these four.  What a credit is   *)
(* backed by needs more, Evidence: what the open transactions have read    *)
(* was true of a processed capture.                                        *)
(***************************************************************************)
EXTENDS CaseRecovery, LifecycleProofs, TLAPS

-----------------------------------------------------------------------------
(* The inductive invariant *)

\* A row that is there names rows that are there, an open transaction holds
\* what it read of rows that were there, and a row that is not there is blank.
EventReferences ==
    \A e \in Events : events[e].status # "ABSENT" =>
      /\ events[e].payment \in Payments
      /\ events[e].type \in EventTypes
      /\ events[e].amount \in Amounts
PaymentBlank(row) == /\ row.status = "ABSENT" => row = NoPayment
                     /\ row.status # "ABSENT" => row.amount \in Amounts
PaymentReferences == \A p \in Payments : PaymentBlank(payments[p])
CaseReferences ==
    \A c \in Cases : cases[c].status # "ABSENT" =>
      /\ cases[c].payment \in Payments
      /\ payments[cases[c].payment].status # "ABSENT"
TxnReferences ==
    \A w \in Workers :
      /\ PaymentBlank(txn[w].read)
      /\ txn[w].kind = "event" =>
           /\ txn[w].event \in Events
           /\ events[txn[w].event].status # "ABSENT"
           /\ txn[w].payment = events[txn[w].event].payment
           /\ txn[w].read.status # "ABSENT" =>
                payments[txn[w].payment].status # "ABSENT"
      /\ txn[w].kind = "verify" =>
           /\ txn[w].case \in Cases
           /\ txn[w].payment \in Payments
           /\ cases[txn[w].case].status # "ABSENT"
References == /\ EventReferences /\ PaymentReferences
              /\ CaseReferences /\ TxnReferences

-----------------------------------------------------------------------------
(* Webhook processing *)

\* The payment a session holds for a known event is a row that is there, with
\* an amount that an event carried.
LEMMA SessionPaymentRow ==
    ASSUME NEW read \in PaymentRow, PaymentBlank(read),
           NEW ev \in EventRow, ev.type \in EventTypes, ev.amount \in Amounts,
           ~UnknownDomainEvent(ev)
    PROVE  LET new == SessionPayment(read, ev) IN
           /\ new \in PaymentRow
           /\ new.status # "ABSENT"
           /\ new.amount \in Amounts
  BY EventTypesAssumption, AmountsAssumption
  DEF SessionPayment, PaymentRow, PaymentStatus, EventRow, PaymentBlank,
      UnknownDomainEvent, NoPayment, _is_status_downgrade

\* So is the row that its flush leaves, over whatever was committed since.
LEMMA FlushedRow ==
    ASSUME NEW row \in PaymentRow, PaymentBlank(row),
           NEW read \in PaymentRow, PaymentBlank(read),
           NEW new \in PaymentRow, new.status # "ABSENT", new.amount \in Amounts,
           read.status = "ABSENT" <=> row.status = "ABSENT"
    PROVE  LET left == Flushed(row, read, new) IN
           /\ left \in PaymentRow
           /\ left.status # "ABSENT"
           /\ left.amount \in Amounts
  BY DEF Flushed, PaymentRow, PaymentBlank, NoPayment

-----------------------------------------------------------------------------
(* The four ways in which the recovery_cases table changes *)

Working(row) == row.status \in CaseStatus \ TERMINAL_RECOVERY_STATUSES
Unrecovered == CaseStatus \ {"RECOVERED"}
VerifyTxn == {t \in Txn : t.payment \in Payments}

\* _create_or_attach_recovery_case inserts a row.
Opens(c) ==
    \E p \in Payments, amount \in Amounts :
      /\ cases[c].status = "ABSENT"
      /\ OpenForPayment(p) = {}
      /\ payments'[p].status # "ABSENT"
      /\ cases' = [cases EXCEPT ![c] = NewCase(p, amount)]

\* transition_case, and nothing else.
Moves(c) ==
    /\ Working(cases[c])
    /\ \E s \in Unrecovered :
         cases' = [cases EXCEPT ![c] = Moved(cases[c], s)]

\* _persist_failure credits a partial capture.
CreditsPart(c) ==
    /\ Working(cases[c])
    /\ \E s \in Unrecovered, t \in VerifyTxn, amount \in Amounts :
         /\ ContextMatches(c, t.payment)
         /\ 0 < amount /\ amount < cases[c].at_risk
         /\ cases' = [cases EXCEPT ![c] = Credited(cases[c], s, amount, t)]

\* _apply_success credits the amount at risk.
CreditsAll(c) ==
    /\ Working(cases[c])
    /\ \E t \in VerifyTxn :
         /\ ContextMatches(c, t.payment)
         /\ cases' = [cases EXCEPT ![c] =
                        Credited(cases[c], "RECOVERED", cases[c].at_risk, t)]

CaseStep ==
    \/ UNCHANGED cases
    \/ \E c \in Cases : Opens(c) \/ Moves(c) \/ CreditsPart(c) \/ CreditsAll(c)

\* A tool run moves an open case.
LEMMA ToolMoves ==
    ASSUME TypeOK, NEW c \in Cases, NEW approved \in BOOLEAN,
           NEW o \in ToolOutcome, ToolRuns(c, approved, o)
    PROVE  Moves(c)
  <1> DEFINE s == cases[c].status
             t == IF approved THEN s ELSE Walked(s)
  <1>1. s \in CaseStatus \ TERMINAL_RECOVERY_STATUSES
    BY WalkIs DEF ToolRuns, CanWalk, PastWalk, SIDE_EFFECT_EXECUTE_STATES,
                  CaseStatus, TERMINAL_RECOVERY_STATUSES
  <1>2. t \in CaseStatus \ TERMINAL_RECOVERY_STATUSES
    BY <1>1, WalkIs DEF Walked, CaseStatus, TERMINAL_RECOVERY_STATUSES
  <1>3. ToolStatus(t, o) \in Unrecovered
    BY <1>2, ToolStatuses DEF Unrecovered, TERMINAL_RECOVERY_STATUSES
  <1>4. cases' = [cases EXCEPT ![c] = Moved(cases[c], ToolStatus(t, o))]
    BY DEF ToolRuns, SetStatus
  <1> QED BY <1>1, <1>3, <1>4 DEF Moves, Working

\* What verify_case leaves of the row: the row, moved, or moved and credited.
LEMMA VerifiedRow ==
    ASSUME TypeOK, References,
           NEW w \in Workers, NEW v \in Verdict, CommitVerify(w, v)
    PROVE  \/ UNCHANGED cases
           \/ Moves(txn[w].case)
           \/ CreditsPart(txn[w].case)
           \/ CreditsAll(txn[w].case)
  <1> DEFINE t == txn[w]
             c == t.case
             row == cases[c]
             s == row.status
  <1>1. /\ t \in VerifyTxn /\ c \in Cases /\ t.payment \in Payments
        /\ t.event \in Events \cup {NULL} /\ t.read \in PaymentRow
        /\ PaymentBlank(t.read) /\ row \in CaseRow /\ s \in CaseStatus
    BY DEF TypeOK, References, TxnReferences, CommitVerify, Txn, CaseRow,
           VerifyTxn
  <1>2. cases' = [cases EXCEPT ![c] = Verified(c, t, v)]
    BY DEF CommitVerify
  <1>3. CASE s \in {"STOPPED", "RECOVERED"}
             \/ _duplicate_or_already_counted(row, t)
    <2>1. Verified(c, t, v) = row
      BY <1>3 DEF Verified
    <2> QED BY <2>1, <1>1, <1>2 DEF TypeOK
  <1>4. CASE ~(s \in {"STOPPED", "RECOVERED"}
               \/ _duplicate_or_already_counted(row, t))
    <2>1. Working(row)
      BY <1>1, <1>4 DEF Working, TERMINAL_RECOVERY_STATUSES
    <2>2. Processed(s, v) \in Unrecovered
      BY <1>1, <1>4, ProcessedStatus DEF Unrecovered
    <2>3. "NOT_RECOVERED" \in Unrecovered
      BY DEF Unrecovered, CaseStatus
    <2>4. CASE Matched(c, t)
      <3>1. Verified(c, t, v) = _apply_success(row, t, v)
        BY <1>4, <2>4 DEF Verified
      <3>2. ContextMatches(c, t.payment)
        BY <2>4 DEF Matched, Credits
      <3>3. CASE Verifying(s, v)
        BY <1>1, <1>2, <2>1, <3>1, <3>2, <3>3 DEF _apply_success, CreditsAll
      <3>4. CASE ~Verifying(s, v)
        BY <1>2, <2>1, <2>2, <3>1, <3>4 DEF _apply_success, Moves
      <3> QED BY <3>3, <3>4
    <2>5. CASE ~Matched(c, t)
      <3> DEFINE to == FailureStatus(s, v)
      <3>1. Verified(c, t, v) = _persist_failure(row, t, v, Credits(c, t))
        BY <1>4, <2>5 DEF Verified
      <3>2. to \in Unrecovered
        BY <2>2, <2>3 DEF FailureStatus
      <3>3. CASE Credits(c, t)
        <4>1. /\ t.read.amount \in Amounts /\ 0 < t.read.amount
              /\ t.read.amount < row.at_risk
          BY <1>1, <2>5, <3>3, AmountsAssumption
          DEF Matched, Credits, PaymentBlank, CaseRow, PaymentRow
        <4>2. ContextMatches(c, t.payment)
          BY <3>3 DEF Credits
        <4>3. cases' = [cases EXCEPT ![c] =
                         Credited(row, to, t.read.amount, t)]
          BY <1>2, <3>1, <3>3 DEF _persist_failure
        <4> HIDE DEF to
        <4> QED BY <1>1, <2>1, <3>2, <4>1, <4>2, <4>3 DEF CreditsPart
      <3>4. CASE ~Credits(c, t)
        <4>1. cases' = [cases EXCEPT ![c] = Moved(row, to)]
          BY <1>2, <3>1, <3>4 DEF _persist_failure
        <4> HIDE DEF to
        <4> QED BY <2>1, <3>2, <4>1 DEF Moves
      <3> QED BY <3>3, <3>4
    <2> QED BY <2>4, <2>5
  <1> QED BY <1>3, <1>4

\* A committed event leaves a payment that is there and at most opens a case.
LEMMA EventCommits ==
    ASSUME TypeOK, References, NEW w \in Workers, CommitEvent(w)
    PROVE  /\ payments' \in [Payments -> PaymentRow]
           /\ \A p \in Payments :
                /\ PaymentBlank(payments'[p])
                /\ payments[p].status # "ABSENT" => payments'[p].status # "ABSENT"
           /\ UNCHANGED cases \/ \E c \in Cases : Opens(c)
           /\ jobs' \subseteq Job
  <1> DEFINE t == txn[w]
             e == t.event
             p == t.payment
             ev == events[e]
             new == SessionPayment(t.read, ev)
  <1>1. /\ t \in Txn /\ e \in Events /\ p \in Payments /\ ev \in EventRow
        /\ ev.type \in EventTypes /\ ev.amount \in Amounts
        /\ t.read \in PaymentRow /\ PaymentBlank(t.read)
        /\ payments \in [Payments -> PaymentRow]
        /\ PaymentBlank(payments[p])
        /\ t.read.status # "ABSENT" => payments[p].status # "ABSENT"
    BY DEF TypeOK, References, TxnReferences, EventReferences,
           PaymentReferences, CommitEvent, Txn
  <1>2. CASE UnknownDomainEvent(ev)
    <2>1. UNCHANGED <<payments, cases, jobs>>
      BY <1>2 DEF CommitEvent, UnknownDomainEvent, _handle_payment_status
    <2> QED BY <2>1 DEF TypeOK, References, PaymentReferences
  <1>3. CASE ~UnknownDomainEvent(ev)
    <2>1. /\ new \in PaymentRow /\ new.status # "ABSENT"
          /\ new.amount \in Amounts
      BY <1>1, <1>3, SessionPaymentRow
    <2>2. t.read.status = "ABSENT" <=> payments[p].status = "ABSENT"
      BY <1>1, <1>3 DEF CommitEvent, InsertConflict
    <2> DEFINE left == Flushed(payments[p], t.read, new)
    <2>3. /\ left \in PaymentRow /\ left.status # "ABSENT"
          /\ left.amount \in Amounts
      <3> HIDE DEF new
      <3> QED BY <1>1, <2>1, <2>2, FlushedRow
    <2>4. payments' = [payments EXCEPT ![p] = left]
      BY <1>3 DEF CommitEvent
    <2>5. \/ ev.type = "FAILED" /\ OpenOrAttach(e, p, new, t.seen)
          \/ _handle_payment_captured(e, p, t.seen)
          \/ UNCHANGED <<cases, jobs>>
      BY DEF CommitEvent, _handle_payment_status
    <2> HIDE DEF new, left
    <2>6. /\ payments' \in [Payments -> PaymentRow]
          /\ payments'[p].status # "ABSENT"
          /\ \A q \in Payments :
               /\ PaymentBlank(payments'[q])
               /\ payments[q].status # "ABSENT" => payments'[q].status # "ABSENT"
      BY <1>1, <2>3, <2>4 DEF References, PaymentReferences, PaymentBlank
    <2>7. UNCHANGED cases \/ \E c \in Cases : Opens(c)
      <3>1. ASSUME OpenOrAttach(e, p, new, t.seen), ~UNCHANGED cases
            PROVE  \E c \in Cases : Opens(c)
        <4>1. PICK c \in Cases :
                 /\ cases[c].status = "ABSENT"
                 /\ OpenForPayment(p) = {}
                 /\ cases' = [cases EXCEPT ![c] = NewCase(p, new.amount)]
          BY <3>1 DEF OpenOrAttach
        <4> QED BY <1>1, <2>1, <2>6, <4>1 DEF Opens
      <3> QED BY <2>5, <3>1 DEF _handle_payment_captured
    <2>8. jobs' \subseteq Job
      <3>1. ASSUME NEW C \in SUBSET Cases
            PROVE  VerifyJobs(C, p, e) \subseteq Job
        BY <1>1 DEF VerifyJobs, Job
      <3>2. /\ OpenForPayment(p) \in SUBSET Cases
            /\ OpenForCustomer(p) \in SUBSET Cases
            /\ t.seen \in SUBSET Cases
        BY <1>1 DEF OpenForPayment, OpenForCustomer, Txn
      <3>3. jobs \subseteq Job
        BY DEF TypeOK
      <3>4. CASE OpenOrAttach(e, p, new, t.seen)
        <4>1. PICK c \in Cases :
                jobs' = jobs \/ jobs' = jobs \cup VerifyJobs({c}, p, e)
          BY <3>2, <3>4 DEF OpenOrAttach
        <4> QED BY <3>1, <3>3, <4>1
      <3>5. CASE _handle_payment_captured(e, p, t.seen)
        <4>1. PICK C \in SUBSET Cases :
                jobs' = jobs \cup VerifyJobs(C, p, e)
          BY <3>2, <3>5 DEF _handle_payment_captured
        <4> QED BY <3>1, <3>3, <4>1
      <3> QED BY <2>5, <3>3, <3>4, <3>5
    <2> QED BY <2>6, <2>7, <2>8
  <1> QED BY <1>2, <1>3

\* A tool that retries inserts a payment of the case's order.
LEMMA RetryInserts ==
    ASSUME TypeOK, References, NEW c \in Cases, NEW approved \in BOOLEAN,
           NEW q \in Payments,
           NEW status \in RetryOutcomes,
           RetryPayment(c, approved, q, status)
    PROVE  /\ payments' \in [Payments -> PaymentRow]
           /\ \A p \in Payments :
                /\ PaymentBlank(payments'[p])
                /\ payments[p].status # "ABSENT" => payments'[p].status # "ABSENT"
           /\ Moves(c)
  <1>1. Moves(c)
    BY ToolMoves DEF RetryPayment, ToolOutcome
  <1>2. payments[cases[c].payment].amount \in Amounts
    BY <1>1 DEF References, CaseReferences, PaymentReferences, PaymentBlank,
                Moves, Working, CaseStatus
  <1>3. clock \in Nat
    BY TimeAssumption DEF TypeOK
  <1> DEFINE row == [status |-> status,
                     amount |-> payments[cases[c].payment].amount,
                     captured_at |-> IF status = "CAPTURED" THEN clock ELSE NULL]
  <1>4. payments' = [payments EXCEPT ![q] = row]
    BY DEF RetryPayment
  <1>5. row \in PaymentRow /\ row.status # "ABSENT" /\ row.amount \in Amounts
    BY <1>2, <1>3, AmountsAssumption
    DEF RetryOutcomes, PaymentRow, PaymentStatus
  <1> HIDE DEF row
  <1> QED BY <1>1, <1>4, <1>5
          DEF TypeOK, References, PaymentReferences, PaymentBlank

\* Only the commit of a verification credits: any other step opens a case,
\* moves one, or leaves them all.
PlainStep ==
    UNCHANGED cases \/ \E c \in Cases : Opens(c) \/ Moves(c)

\* No step but that one does anything else to the cases.
LEMMA PlainSteps ==
    ASSUME TypeOK, References, [Next]_vars,
           \A w \in Workers, v \in Verdict : ~CommitVerify(w, v)
    PROVE  PlainStep
  <1>1. CASE UNCHANGED vars
    BY <1>1 DEF vars, PlainStep
  <1>2. CASE Tick
    BY <1>2 DEF Tick, PlainStep
  <1>3. CASE Webhooks
    BY <1>3, EventCommits
    DEF Webhooks, Receive, BeginEvent, AbortEvent, PlainStep
  <1>4. ASSUME NEW c \in Cases, NEW v \in Verdict, Process(c, v)
        PROVE  PlainStep
    <2>1. cases[c].status \in CaseStatus \ TERMINAL_RECOVERY_STATUSES
      BY <1>4, WalkIs DEF Process, CaseStatus, TERMINAL_RECOVERY_STATUSES
    <2>2. Processed(cases[c].status, v) \in Unrecovered
      BY <2>1, ProcessedStatus DEF Unrecovered, TERMINAL_RECOVERY_STATUSES
    <2> QED BY <1>4, <2>1, <2>2
            DEF Process, SetStatus, Moves, Working, PlainStep
  <1>5. CASE Verifications
    BY <1>5 DEF Verifications, BeginVerify, AbortVerify, PlainStep
  <1>6. CASE Actions
    <2>1. ASSUME NEW c \in Cases, RejectApproval(c)
          PROVE  Moves(c)
      BY <2>1 DEF RejectApproval, SetStatus, Moves, Working, Unrecovered,
                  CaseStatus, TERMINAL_RECOVERY_STATUSES
    <2>2. ASSUME NEW c \in Cases, NEW stop \in CaseStatus, AgentRun(c, stop)
          PROVE  Moves(c)
      BY <2>2, WalkIs DEF AgentRun, SetStatus, Moves, Working, Unrecovered,
                  CaseStatus, TERMINAL_RECOVERY_STATUSES
    <2> QED BY <1>6, <2>1, <2>2, ToolMoves, RetryInserts
            DEF Actions, ExecuteTool, PlainStep
  <1> QED BY <1>1, <1>2, <1>3, <1>4, <1>5, <1>6 DEF Next

\* Every step changes the recovery_cases table in one of the four ways.
LEMMA CaseSteps ==
    ASSUME TypeOK, References, [Next]_vars
    PROVE  CaseStep
  <1>1. ASSUME NEW w \in Workers, NEW v \in Verdict, CommitVerify(w, v)
        PROVE  CaseStep
    <2>1. txn[w].case \in Cases
      BY <1>1 DEF CommitVerify, References, TxnReferences
    <2> QED BY <1>1, <2>1, VerifiedRow DEF CaseStep
  <1> QED BY <1>1, PlainSteps DEF PlainStep, CaseStep

\* The row that a credit leaves, and its fields.
LEMMA CreditedRow ==
    ASSUME clock \in Nat, NEW row \in CaseRow, NEW s \in CaseStatus,
           NEW amount \in Nat, NEW t \in VerifyTxn
    PROVE  LET new == Credited(row, s, amount, t)
           IN  /\ new \in CaseRow
               /\ new.status = s
               /\ new.payment = row.payment
               /\ new.at_risk = row.at_risk
               /\ new.recovered = amount
               /\ new.verified_by = t.payment
               /\ new.closed_at # NULL <=> is_terminal(s)
  BY NullAssumption DEF Credited, Moved, CaseRow, is_terminal, VerifyTxn, Txn

\* The row that a move leaves, and its fields.
LEMMA MovedRow ==
    ASSUME clock \in Nat, NEW row \in CaseRow, NEW s \in CaseStatus
    PROVE  LET new == Moved(row, s)
           IN  /\ new \in CaseRow
               /\ new.status = s
               /\ new.payment = row.payment
               /\ new.at_risk = row.at_risk
               /\ new.recovered = row.recovered
               /\ new.verified_by = row.verified_by
               /\ new.closed_at # NULL <=> is_terminal(s)
  BY NullAssumption DEF Moved, CaseRow, is_terminal

\* The row of a new case, and its fields.
LEMMA NewRow ==
    ASSUME clock \in Nat, NEW p \in Payments, NEW amount \in Amounts
    PROVE  LET new == NewCase(p, amount)
           IN  /\ new \in CaseRow
               /\ new.status = "DETECTED"
               /\ new.payment = p
               /\ new.at_risk = amount
               /\ new.recovered = 0
               /\ new.verified_by = NULL
               /\ new.closed_at = NULL
  BY AmountsAssumption DEF NewCase, NoCase, CaseRow, CaseStatus

\* What the four ways do to the fields of one row.  A case that is there keeps
\* its payment and exposure; only a working case changes, and it is recovered
\* only with a credit of its whole exposure.
RowStep(c) ==
    LET row == cases[c]
        new == cases'[c]
    IN  \/ new = row
        \/ /\ row.status = "ABSENT" /\ new.status = "DETECTED"
           /\ new.payment \in Payments
           /\ payments'[new.payment].status # "ABSENT"
           /\ OpenForPayment(new.payment) = {}
           /\ new.at_risk \in Amounts /\ new.recovered = 0
           /\ new.verified_by = NULL /\ new.closed_at = NULL
        \/ /\ Working(row) /\ new.status \in CaseStatus
           /\ new.payment = row.payment /\ new.at_risk = row.at_risk
           /\ new.closed_at # NULL <=> is_terminal(new.status)
           /\ \/ /\ new.status # "RECOVERED"
                 /\ new.recovered = row.recovered
                 /\ new.verified_by = row.verified_by
              \/ /\ new.verified_by \in Payments
                 /\ ContextMatches(c, new.verified_by)
                 /\ \/ /\ new.status # "RECOVERED"
                       /\ new.recovered \in Amounts
                       /\ 0 < new.recovered /\ new.recovered < row.at_risk
                    \/ /\ new.status = "RECOVERED"
                       /\ new.recovered = row.at_risk

\* One row changes at most, and that one by a RowStep.
OneRowStep ==
    /\ cases' \in [Cases -> CaseRow]
    /\ \/ UNCHANGED cases
       \/ \E c \in Cases :
            RowStep(c) /\ \A d \in Cases \ {c} : cases'[d] = cases[d]

\* A step of any transaction changes one case row at most, as a row step.
LEMMA OneRowSteps ==
    ASSUME TypeOK, CaseStep
    PROVE  OneRowStep
  <1>1. cases \in [Cases -> CaseRow] /\ clock \in Nat
    BY TimeAssumption DEF TypeOK
  <1>2. CASE UNCHANGED cases
    BY <1>1, <1>2 DEF OneRowStep
  <1>3. ASSUME NEW c \in Cases, NEW row \in CaseRow,
               cases' = [cases EXCEPT ![c] = row],
               cases'[c] = row => RowStep(c)
        PROVE  OneRowStep
    <2>1. /\ cases' \in [Cases -> CaseRow]
          /\ cases'[c] = row
          /\ \A d \in Cases \ {c} : cases'[d] = cases[d]
      BY <1>1, <1>3
    <2> QED BY <1>3, <2>1 DEF OneRowStep
  <1>4. ASSUME NEW c \in Cases, Opens(c)
        PROVE  OneRowStep
    <2>1. PICK p \in Payments, amount \in Amounts :
             /\ cases[c].status = "ABSENT"
             /\ OpenForPayment(p) = {}
             /\ payments'[p].status # "ABSENT"
             /\ cases' = [cases EXCEPT ![c] = NewCase(p, amount)]
      BY <1>4 DEF Opens
    <2> DEFINE new == NewCase(p, amount)
    <2>2. /\ new \in CaseRow /\ new.status = "DETECTED" /\ new.payment = p
          /\ new.at_risk = amount /\ new.recovered = 0
          /\ new.verified_by = NULL /\ new.closed_at = NULL
      BY <1>1, NewRow
    <2>3. cases' = [cases EXCEPT ![c] = new]
      BY <2>1
    <2> HIDE DEF new
    <2>4. cases'[c] = new => RowStep(c)
      BY <2>1, <2>2 DEF RowStep
    <2> QED BY <1>3, <2>2, <2>3, <2>4
  <1>5. ASSUME NEW c \in Cases, Moves(c)
        PROVE  OneRowStep
    <2>1. PICK s \in Unrecovered :
             cases' = [cases EXCEPT ![c] = Moved(cases[c], s)]
      BY <1>5 DEF Moves
    <2> DEFINE new == Moved(cases[c], s)
    <2>2. /\ new \in CaseRow /\ new.status = s
          /\ new.payment = cases[c].payment /\ new.at_risk = cases[c].at_risk
          /\ new.recovered = cases[c].recovered
          /\ new.verified_by = cases[c].verified_by
          /\ new.closed_at # NULL <=> is_terminal(s)
      BY <1>1, MovedRow DEF Unrecovered
    <2>3. cases' = [cases EXCEPT ![c] = new]
      BY <2>1
    <2> HIDE DEF new
    <2>4. cases'[c] = new => RowStep(c)
      BY <1>5, <2>2 DEF RowStep, Moves, Unrecovered
    <2> QED BY <1>3, <2>2, <2>3, <2>4
  <1>6. ASSUME NEW c \in Cases, CreditsPart(c)
        PROVE  OneRowStep
    <2>1. PICK s \in Unrecovered, t \in VerifyTxn, amount \in Amounts :
             /\ ContextMatches(c, t.payment)
             /\ 0 < amount /\ amount < cases[c].at_risk
             /\ cases' = [cases EXCEPT ![c] = Credited(cases[c], s, amount, t)]
      BY <1>6 DEF CreditsPart
    <2> DEFINE new == Credited(cases[c], s, amount, t)
    <2>2. /\ new \in CaseRow /\ new.status = s
          /\ new.payment = cases[c].payment /\ new.at_risk = cases[c].at_risk
          /\ new.recovered = amount /\ new.verified_by = t.payment
          /\ new.closed_at # NULL <=> is_terminal(s)
      BY <1>1, CreditedRow, AmountsAssumption DEF Unrecovered
    <2>3. cases' = [cases EXCEPT ![c] = new]
      BY <2>1
    <2> HIDE DEF new
    <2>4. cases'[c] = new => RowStep(c)
      BY <1>6, <2>1, <2>2 DEF RowStep, CreditsPart, Unrecovered, VerifyTxn
    <2> QED BY <1>3, <2>2, <2>3, <2>4
  <1>7. ASSUME NEW c \in Cases, CreditsAll(c)
        PROVE  OneRowStep
    <2>1. PICK t \in VerifyTxn :
             /\ ContextMatches(c, t.payment)
             /\ cases' = [cases EXCEPT ![c] =
                            Credited(cases[c], "RECOVERED", cases[c].at_risk, t)]
      BY <1>7 DEF CreditsAll
    <2> DEFINE new == Credited(cases[c], "RECOVERED", cases[c].at_risk, t)
    <2>2. /\ "RECOVERED" \in CaseStatus /\ cases[c].at_risk \in Nat
      BY <1>1 DEF CaseStatus, CaseRow
    <2>3. /\ new \in CaseRow /\ new.status = "RECOVERED"
          /\ new.payment = cases[c].payment /\ new.at_risk = cases[c].at_risk
          /\ new.recovered = cases[c].at_risk /\ new.verified_by = t.payment
          /\ new.closed_at # NULL <=> is_terminal("RECOVERED")
      BY <1>1, <2>2, CreditedRow
    <2>4. cases' = [cases EXCEPT ![c] = new]
      BY <2>1
    <2> HIDE DEF new
    <2>5. cases'[c] = new => RowStep(c)
      BY <1>7, <2>1, <2>2, <2>3 DEF RowStep, CreditsAll, VerifyTxn
    <2> QED BY <1>3, <2>3, <2>4, <2>5
  <1> QED BY <1>2, <1>4, <1>5, <1>6, <1>7 DEF CaseStep

-----------------------------------------------------------------------------
(* The invariant is inductive *)

\* Payments are never removed and keep their type.
LEMMA PaymentSteps ==
    ASSUME TypeOK, References, [Next]_vars
    PROVE  /\ payments' \in [Payments -> PaymentRow]
           /\ \A p \in Payments :
                /\ PaymentBlank(payments'[p])
                /\ payments[p].status # "ABSENT" => payments'[p].status # "ABSENT"
  <1>1. CASE UNCHANGED payments
    BY <1>1 DEF TypeOK, References, PaymentReferences
  <1>2. CASE Webhooks
    BY <1>1, <1>2, EventCommits DEF Webhooks, Receive, BeginEvent, AbortEvent
  <1>3. CASE Actions
    BY <1>1, <1>3, RetryInserts
    DEF Actions, ExecuteTool, RejectApproval, AgentRun
  <1> QED BY <1>1, <1>2, <1>3
          DEF Next, vars, Tick, Process, Verifications, BeginVerify,
              CommitVerify, AbortVerify

\* Events are never removed and keep what they carry.
EventsKept ==
    /\ events' \in [Events -> EventRow]
    /\ EventReferences'
    /\ \A e \in Events : events[e].status # "ABSENT" =>
         /\ events'[e].status # "ABSENT"
         /\ events'[e].payment = events[e].payment

\* Webhook rows are never removed and keep their payment.
LEMMA EventSteps ==
    ASSUME TypeOK, References, [Next]_vars
    PROVE  EventsKept
  <1> USE DEF EventsKept
  <1>1. CASE UNCHANGED events
    BY <1>1 DEF TypeOK, References, EventReferences
  <1>2. ASSUME NEW e \in Events, NEW type \in EventTypes, NEW p \in Payments,
               NEW amount \in Amounts, NEW at \in Nat,
               Receive(e, type, p, amount, at)
        PROVE  EventsKept
    BY <1>2, AmountsAssumption, TimeAssumption
    DEF Receive, TypeOK, EventRow, References, EventReferences
  <1>3. ASSUME NEW e \in Events,
               NEW status \in {"RECEIVED", "PROCESSED", "DEAD_LETTER"},
               events[e].status # "ABSENT",
               events' = [events EXCEPT ![e].status = status]
        PROVE  EventsKept
    BY <1>3 DEF TypeOK, EventRow, References, EventReferences
  <1>4. ASSUME NEW w \in Workers, txn[w].kind = "event"
        PROVE  txn[w].event \in Events /\ events[txn[w].event].status # "ABSENT"
    BY <1>4 DEF References, TxnReferences
  <1>5. CASE Webhooks
    <2>1. ASSUME NEW w \in Workers, CommitEvent(w)
          PROVE  EventsKept
      BY <1>3, <1>4, <2>1 DEF CommitEvent
    <2>2. ASSUME NEW w \in Workers, AbortEvent(w)
          PROVE  EventsKept
      BY <1>3, <1>4, <2>2 DEF AbortEvent
    <2>3. ASSUME NEW w \in Workers, NEW e \in Events, BeginEvent(w, e)
          PROVE  EventsKept
      BY <1>1, <2>3 DEF BeginEvent
    <2>4. ASSUME NEW type
          PROVE  (IF type = "CAPTURED" THEN 0..clock ELSE {0}) \subseteq Nat
      BY TimeAssumption DEF TypeOK
    <2> QED BY <1>2, <1>5, <2>1, <2>2, <2>3, <2>4 DEF Webhooks
  <1> QED BY <1>1, <1>5
          DEF Next, vars, Tick, Process, Verifications, BeginVerify,
              CommitVerify, AbortVerify, Actions, ExecuteTool, RetryPayment,
              RejectApproval, AgentRun

\* Cases are never removed, keep their payment, and have one that exists.
LEMMA CaseRowSteps ==
    ASSUME TypeOK, References, [Next]_vars
    PROVE  /\ cases' \in [Cases -> CaseRow]
           /\ CaseReferences'
           /\ \A c \in Cases : cases[c].status # "ABSENT" =>
                                cases'[c].status # "ABSENT"
  <1>1. OneRowStep
    BY CaseSteps, OneRowSteps
  <1>2. \A p \in Payments : payments[p].status # "ABSENT" =>
                              payments'[p].status # "ABSENT"
    BY PaymentSteps
  <1>3. \A c \in Cases : RowStep(c) \/ cases'[c] = cases[c]
    BY <1>1 DEF OneRowStep
  <1>4. \A c \in Cases : RowStep(c) =>
          /\ cases[c].status # "ABSENT" => /\ cases'[c].status # "ABSENT"
                                           /\ cases'[c].payment = cases[c].payment
          /\ cases[c].status = "ABSENT" /\ cases'[c].status # "ABSENT" =>
               /\ cases'[c].payment \in Payments
               /\ payments'[cases'[c].payment].status # "ABSENT"
    BY DEF RowStep, Working, CaseStatus
  <1> QED BY <1>1, <1>2, <1>3, <1>4
          DEF OneRowStep, References, CaseReferences

\* An open transaction is of its type and names rows that are there.
LEMMA TxnSteps ==
    ASSUME TypeOK, References, [Next]_vars
    PROVE  txn' \in [Workers -> Txn] /\ TxnReferences'
  <1> DEFINE Good(t) ==
        /\ t \in Txn
        /\ PaymentBlank(t.read)
        /\ t.kind = "event" =>
             /\ t.event \in Events
             /\ events'[t.event].status # "ABSENT"
             /\ t.payment = events'[t.event].payment
             /\ t.read.status # "ABSENT" =>
                  payments'[t.payment].status # "ABSENT"
        /\ t.kind = "verify" =>
             /\ t.case \in Cases
             /\ t.payment \in Payments
             /\ cases'[t.case].status # "ABSENT"
  <1>1. \A w \in Workers : Good(txn[w])
    <2>1. \A w \in Workers : txn[w].kind = "event" => txn[w].payment \in Payments
      BY DEF References, TxnReferences, EventReferences
    <2> QED BY <2>1, EventSteps, PaymentSteps, CaseRowSteps
            DEF TypeOK, References, TxnReferences, EventsKept
  <1>2. Good(Idle)
    BY NullAssumption DEF Idle, Txn, PaymentBlank, NoPayment, PaymentRow
  <1>3. ASSUME NEW w \in Workers, NEW t, Good(t), txn' = [txn EXCEPT ![w] = t]
        PROVE  txn' \in [Workers -> Txn] /\ TxnReferences'
    <2>1. txn' \in [Workers -> Txn]
      BY <1>3 DEF TypeOK
    <2>2. \A v \in Workers : Good(txn'[v])
      BY <1>1, <1>3 DEF TypeOK
    <2> QED BY <2>1, <2>2 DEF TxnReferences
  <1>4. ASSUME UNCHANGED txn
        PROVE  txn' \in [Workers -> Txn] /\ TxnReferences'
    BY <1>1, <1>4 DEF TypeOK, TxnReferences
  <1>5. ASSUME NEW w \in Workers, txn' = [txn EXCEPT ![w] = Idle]
        PROVE  txn' \in [Workers -> Txn] /\ TxnReferences'
    <2> HIDE DEF Good
    <2> QED BY <1>2, <1>3, <1>5
  <1>6. ASSUME NEW w \in Workers, NEW e \in Events, BeginEvent(w, e)
        PROVE  txn' \in [Workers -> Txn] /\ TxnReferences'
    <2> DEFINE t == [Idle EXCEPT !.kind = "event", !.event = e,
                                 !.payment = events[e].payment,
                                 !.read = payments[events[e].payment],
                                 !.seen = OpenForCustomer(events[e].payment)]
    <2>1. /\ events[e].payment \in Payments
          /\ OpenForCustomer(events[e].payment) \in SUBSET Cases
          /\ payments[events[e].payment] \in PaymentRow
          /\ PaymentBlank(payments[events[e].payment])
          /\ UNCHANGED <<events, payments>>
          /\ events[e].status # "ABSENT"
      BY <1>6 DEF BeginEvent, References, EventReferences, PaymentReferences,
                  TypeOK, OpenForCustomer
    <2>2. Good(t)
      BY <2>1, NullAssumption DEF Idle, Txn
    <2>3. txn' = [txn EXCEPT ![w] = t]
      BY <1>6 DEF BeginEvent
    <2> HIDE DEF Good, t
    <2> QED BY <1>3, <2>2, <2>3
  <1>7. ASSUME NEW w \in Workers, NEW c \in Cases, NEW p \in Payments,
               NEW e \in Events \cup {NULL}, BeginVerify(w, c, p, e)
        PROVE  txn' \in [Workers -> Txn] /\ TxnReferences'
    <2> DEFINE t == [kind |-> "verify", event |-> e, case |-> c, payment |-> p,
                     read |-> payments[p], seen |-> CountedElsewhere(c, p)]
    <2>1. /\ payments[p] \in PaymentRow /\ PaymentBlank(payments[p])
          /\ CountedElsewhere(c, p) \in SUBSET Cases
          /\ UNCHANGED cases /\ cases[c].status # "ABSENT"
      BY <1>7 DEF BeginVerify, References, PaymentReferences, TypeOK,
                  CountedElsewhere
    <2>2. Good(t)
      BY <2>1 DEF Txn
    <2>3. txn' = [txn EXCEPT ![w] = t]
      BY <1>7 DEF BeginVerify
    <2> HIDE DEF Good, t
    <2> QED BY <1>3, <2>2, <2>3
  <1> HIDE DEF Good
  <1>8. CASE Webhooks
    BY <1>4, <1>5, <1>6, <1>8
    DEF Webhooks, Receive, CommitEvent, AbortEvent
  <1>9. CASE Verifications
    BY <1>5, <1>7, <1>9 DEF Verifications, CommitVerify, AbortVerify
  <1> QED BY <1>4, <1>8, <1>9
          DEF Next, vars, Tick, Process, Actions, ExecuteTool, RetryPayment,
              RejectApproval, AgentRun

\* The clock and the count of rollbacks keep their bounds; jobs, links and the
\* history name cases and payments.
LEMMA OtherSteps ==
    ASSUME TypeOK, References, [Next]_vars
    PROVE  /\ clock' \in 0..MaxTime
           /\ faults' \in 0..MaxFaults
           /\ links' \subseteq Cases \X Payments
           /\ jobs' \subseteq Job
           /\ counted' \subseteq Cases \X Payments
  <1> USE TimeAssumption, FaultsAssumption DEF TypeOK
  <1>1. CASE UNCHANGED <<clock, faults, links, jobs, counted>>
    BY <1>1
  <1>2. CASE Tick
    BY <1>2 DEF Tick
  <1>3. CASE Webhooks
    <2>1. ASSUME NEW w \in Workers, CommitEvent(w)
          PROVE  /\ jobs' \subseteq Job
                 /\ UNCHANGED <<clock, faults, links, counted>>
      BY <2>1, EventCommits DEF CommitEvent
    <2>2. ASSUME NEW w \in Workers, AbortEvent(w)
          PROVE  /\ faults' \in 0..MaxFaults
                 /\ UNCHANGED <<clock, jobs, links, counted>>
      BY <2>2 DEF AbortEvent
    <2> QED BY <1>1, <1>3, <2>1, <2>2 DEF Webhooks, Receive, BeginEvent
  <1>4. CASE Verifications
    <2>1. ASSUME NEW w \in Workers, NEW v \in Verdict, CommitVerify(w, v)
          PROVE  /\ counted' \subseteq Cases \X Payments
                 /\ UNCHANGED <<clock, faults, links, jobs>>
      <3>1. txn[w].case \in Cases /\ txn[w].payment \in Payments
        BY <2>1 DEF CommitVerify, References, TxnReferences
      <3>2. \/ counted' = counted
            \/ counted' = counted \cup {<<txn[w].case, txn[w].payment>>}
        BY <2>1 DEF CommitVerify
      <3>3. UNCHANGED <<clock, faults, links, jobs>>
        BY <2>1 DEF CommitVerify
      <3> QED BY <3>1, <3>2, <3>3
    <2>2. ASSUME NEW w \in Workers, AbortVerify(w)
          PROVE  /\ faults' \in 0..MaxFaults
                 /\ UNCHANGED <<clock, jobs, links, counted>>
      BY <2>2 DEF AbortVerify
    <2> QED BY <1>1, <1>4, <2>1, <2>2 DEF Verifications, BeginVerify
  <1>5. CASE Actions
    <2>1. ASSUME NEW c \in Cases, NEW approved \in BOOLEAN, NEW q \in Payments,
                 NEW status, RetryPayment(c, approved, q, status)
          PROVE  /\ links' \subseteq Cases \X Payments
                 /\ UNCHANGED <<clock, faults, jobs, counted>>
      BY <2>1 DEF RetryPayment
    <2> QED BY <1>1, <1>5, <2>1 DEF Actions, ExecuteTool, RejectApproval, AgentRun
  <1> QED BY <1>1, <1>2, <1>3, <1>4, <1>5 DEF Next, vars, Process

\* The empty tables satisfy the invariant.
LEMMA InvInit == Init => TypeOK /\ References
  <1> SUFFICES ASSUME Init PROVE TypeOK /\ References
    OBVIOUS
  <1>1. TypeOK
    BY NullAssumption, TimeAssumption, FaultsAssumption
    DEF Init, TypeOK, NoEvent, NoPayment, NoCase, Idle, EventRow, PaymentRow,
        CaseRow, Txn, Job
  <1>2. References
    BY DEF Init, References, EventReferences, PaymentReferences,
           CaseReferences, TxnReferences, PaymentBlank, NoEvent, NoPayment,
           NoCase, Idle
  <1> QED BY <1>1, <1>2

\* Every transaction step keeps the types and the references between rows.
LEMMA InvNext == TypeOK /\ References /\ [Next]_vars => TypeOK' /\ References'
  <1> SUFFICES ASSUME TypeOK, References, [Next]_vars
               PROVE  TypeOK' /\ References'
    OBVIOUS
  <1>1. TypeOK'
    BY PaymentSteps, EventSteps, CaseRowSteps, TxnSteps, OtherSteps
    DEF TypeOK, EventsKept
  <1>2. References'
    BY PaymentSteps, EventSteps, CaseRowSteps, TxnSteps
    DEF References, PaymentReferences, EventsKept
  <1> QED BY <1>1, <1>2

\* The types and the references between rows hold of every reachable state.
LEMMA Invariance == Spec => [](TypeOK /\ References)
  BY InvInit, InvNext, PTL DEF Spec

-----------------------------------------------------------------------------
(* Theorems *)

\* The tables keep their types whatever transactions interleave.
THEOREM TypeCorrect == Spec => []TypeOK
  BY Invariance, PTL

\* A row step keeps the accounting rule.
LEMMA CreditStep ==
    ASSUME TypeOK, CreditExact, OneRowStep
    PROVE  CreditExact'
  <1>1. \A c \in Cases : /\ cases[c].recovered \in Nat
                         /\ cases[c].at_risk \in Nat
                         /\ cases'[c].recovered \in Nat
                         /\ cases'[c].at_risk \in Nat
    BY DEF TypeOK, OneRowStep, CaseRow
  <1>2. SUFFICES ASSUME NEW c \in Cases
                 PROVE  /\ cases'[c].recovered <= cases'[c].at_risk
                        /\ cases'[c].status = "RECOVERED" =>
                             /\ cases'[c].recovered = cases'[c].at_risk
                             /\ cases'[c].verified_by # NULL
                        /\ cases'[c].recovered > 0
                             /\ cases'[c].status # "RECOVERED" =>
                             cases'[c].recovered < cases'[c].at_risk
    BY DEF CreditExact
  <1>3. CASE cases'[c] = cases[c]
    BY <1>3 DEF CreditExact
  <1>4. CASE RowStep(c)
    <2>1. CASE cases[c].status = "ABSENT" /\ cases'[c] # cases[c]
      <3>1. cases'[c].status = "DETECTED" /\ cases'[c].recovered = 0
        BY <1>4, <2>1 DEF RowStep, Working, CaseStatus
      <3> QED BY <1>1, <3>1
    <2>2. CASE /\ Working(cases[c])
               /\ cases'[c].at_risk = cases[c].at_risk
               /\ cases'[c].status # "RECOVERED"
               /\ cases'[c].recovered = cases[c].recovered
      <3>1. cases[c].status # "RECOVERED"
        BY <2>2 DEF Working, TERMINAL_RECOVERY_STATUSES
      <3> QED BY <2>2, <3>1 DEF CreditExact
    <2>3. CASE /\ cases'[c].at_risk = cases[c].at_risk
               /\ cases'[c].verified_by \in Payments
               /\ \/ /\ cases'[c].status # "RECOVERED"
                     /\ cases'[c].recovered < cases[c].at_risk
                  \/ /\ cases'[c].status = "RECOVERED"
                     /\ cases'[c].recovered = cases[c].at_risk
      BY <1>1, <2>3, NullAssumption
    <2> QED BY <1>3, <1>4, <2>1, <2>2, <2>3 DEF RowStep
  <1> QED BY <1>3, <1>4 DEF OneRowStep

\* Recovered revenue is exact: a case is RECOVERED with the whole amount at
\* risk and a payment that verified it, and is otherwise credited with less
\* (verify_case, for any number of workers and any amounts).
THEOREM CreditIsExact == Spec => []CreditExact
  <1>1. Init => CreditExact
    BY DEF Init, CreditExact, NoCase
  <1>2. TypeOK /\ References /\ CreditExact /\ [Next]_vars => CreditExact'
    BY CaseSteps, OneRowSteps, CreditStep
  <1> QED BY <1>1, <1>2, Invariance, PTL DEF Spec

\* A row that is not there is not open.
BlankClosed == \A c \in Cases : cases[c].status = "ABSENT" =>
                                 cases[c].closed_at # NULL

\* One open case of a payment, and no open case that is not there, are
\* inductive together.
LEMMA OpenCaseInvariance == Spec => [](OneOpenCasePerPayment /\ BlankClosed)
  <1> USE DEF BlankClosed
  <1>1. Init => OneOpenCasePerPayment /\ BlankClosed
    BY NullAssumption DEF Init, OneOpenCasePerPayment, NoCase
  <1>2. ASSUME TypeOK, References, [Next]_vars, OneOpenCasePerPayment, BlankClosed
        PROVE  OneOpenCasePerPayment' /\ BlankClosed'
    <2>1. OneRowStep
      BY <1>2, CaseSteps, OneRowSteps
    <2>2. CASE UNCHANGED cases
      BY <1>2, <2>2 DEF OneOpenCasePerPayment
    <2>3. ASSUME NEW c \in Cases, RowStep(c),
                 \A d \in Cases \ {c} : cases'[d] = cases[d]
          PROVE  OneOpenCasePerPayment' /\ BlankClosed'
      <3>1. CASE cases'[c] = cases[c]
        BY <1>2, <2>3, <3>1 DEF OneOpenCasePerPayment
      <3>2. CASE cases[c].status = "ABSENT" /\ cases'[c] # cases[c]
        <4>1. /\ cases'[c].status = "DETECTED" /\ cases'[c].closed_at = NULL
              /\ OpenForPayment(cases'[c].payment) = {}
          BY <2>3, <3>2 DEF RowStep, Working, CaseStatus
        <4>2. \A d \in Cases : cases[d].closed_at = NULL =>
                                cases[d].payment # cases'[c].payment
          BY <4>1 DEF OpenForPayment
        <4> QED BY <1>2, <2>3, <4>1, <4>2
                DEF OneOpenCasePerPayment, is_terminal,
                    TERMINAL_RECOVERY_STATUSES
      <3>3. CASE cases[c].status # "ABSENT" /\ cases'[c] # cases[c]
        <4>1. /\ Working(cases[c]) /\ cases'[c].status \in CaseStatus
              /\ cases'[c].payment = cases[c].payment
              /\ cases'[c].closed_at # NULL <=> is_terminal(cases'[c].status)
          BY <2>3, <3>3 DEF RowStep
        <4>2. cases[c].closed_at = NULL
          BY <1>2, <4>1 DEF OneOpenCasePerPayment, Working, is_terminal, CaseStatus
        <4> QED BY <1>2, <2>3, <4>1, <4>2
                DEF OneOpenCasePerPayment, CaseStatus
      <3> QED BY <3>1, <3>2, <3>3
    <2> QED BY <2>1, <2>2, <2>3 DEF OneRowStep
  <1> QED BY <1>1, <1>2, Invariance, PTL DEF Spec

\* A payment never has two open cases, and a case is closed exactly when it is
\* RECOVERED or STOPPED (_create_or_attach_recovery_case, transition_case).
THEOREM OneOpenCase == Spec => []OneOpenCasePerPayment
  BY OpenCaseInvariance, PTL

\* A case is credited from its own recovery context only: _evaluate's rules on
\* customer, currency, order and tool actions hold of the payment that
\* verified it, and go on to hold.
THEOREM CreditContext == Spec => []CreditFromContext
  <1>1. Init => CreditFromContext
    BY DEF Init, CreditFromContext, NoCase
  <1>2. ASSUME TypeOK, References, [Next]_vars, CreditFromContext
        PROVE  CreditFromContext'
    <2>1. OneRowStep
      BY <1>2, CaseSteps, OneRowSteps
    <2>2. links \subseteq links'
      BY <1>2 DEF Next, vars, Tick, Webhooks, Receive, BeginEvent, CommitEvent,
                  AbortEvent, Process, Verifications, BeginVerify,
                  CommitVerify, AbortVerify, Actions, ExecuteTool,
                  RetryPayment, RejectApproval, AgentRun
    <2>3. ASSUME NEW c \in Cases, cases'[c].verified_by # NULL
          PROVE  LET own == cases'[c].payment
                     by  == cases'[c].verified_by
                 IN  /\ CustomerOf[by] = CustomerOf[own]
                     /\ CurrencyOf[by] = CurrencyOf[own]
                     /\ \/ by = own
                        \/ OrderOf[by] # NULL /\ OrderOf[by] = OrderOf[own]
                        \/ <<c, by>> \in links'
      <3>1. CASE /\ cases'[c].verified_by = cases[c].verified_by
                 /\ cases'[c].payment = cases[c].payment
        BY <1>2, <2>2, <2>3, <3>1 DEF CreditFromContext
      <3>2. CASE /\ cases'[c].payment = cases[c].payment
                 /\ ContextMatches(c, cases'[c].verified_by)
        BY <2>2, <3>2 DEF ContextMatches, SharedOrder
      <3>3. cases'[c] = cases[c] \/ RowStep(c)
        BY <2>1 DEF OneRowStep
      <3> QED BY <2>3, <3>1, <3>2, <3>3 DEF RowStep
    <2> QED BY <2>3 DEF CreditFromContext
  <1> QED BY <1>1, <1>2, Invariance, PTL DEF Spec

\* No step changes a case that is RECOVERED or STOPPED.
THEOREM Settled == Spec => SettledIsFinal
  <1>1. TypeOK /\ References /\ [Next]_vars =>
          [\A c \in Cases : is_terminal(cases[c].status) =>
                             cases'[c] = cases[c]]_vars
    <2> SUFFICES ASSUME TypeOK, References, [Next]_vars, NEW c \in Cases,
                        is_terminal(cases[c].status)
                 PROVE  cases'[c] = cases[c]
      OBVIOUS
    <2>1. OneRowStep
      BY CaseSteps, OneRowSteps
    <2> QED BY <2>1 DEF OneRowStep, RowStep, Working, is_terminal,
                        TERMINAL_RECOVERY_STATUSES
  <1> QED BY <1>1, Invariance, PTL DEF Spec, SettledIsFinal

\* A tool finds no edge out of a stranded status that an approved run offers.
LEMMA StrandedTools ==
    ASSUME NEW s \in Stranded,
           NEW o \in {"BLOCKED", "FAILED", "ACTION_COMPLETED", "RETRY_SCHEDULED"}
    PROVE  ToolStatus(s, o) = s
  <1>1. ToolEdges(s, o) = {}
    BY DEF ToolEdges, Taken, Stranded
  <1> QED BY <1>1 DEF ToolStatus

\* A case in a stranded status keeps it: no job, tool, approval, agent or
\* verification moves it, although the graph has edges for it.
THEOREM StrandedStays == Spec => StrandedStaysPut
  <1>1. ASSUME TypeOK, References, Next, NEW c \in Cases,
               cases[c].status \in Stranded
        PROVE  cases'[c].status = cases[c].status
    <2> DEFINE s == cases[c].status
    <2>1. ASSUME NEW d \in Cases, NEW to \in CaseStatus, SetStatus(d, to),
                 d = c => to = s
          PROVE  cases'[c].status = s
      BY <2>1 DEF SetStatus, Moved, TypeOK, CaseRow
    <2>2. s \notin OnWalk \cup PastWalk
      BY <1>1, WalkIs DEF Stranded, PastWalk
    <2>3. ASSUME NEW d \in Cases, NEW approved \in BOOLEAN,
                 NEW o \in ToolOutcome, ToolRuns(d, approved, o)
          PROVE  cases'[c].status = s
      <3>1. CASE c = d
        <4>1. approved
          BY <2>2, <2>3, <3>1 DEF ToolRuns, CanWalk
        <4>2. SetStatus(c, ToolStatus(s, o)) /\ ToolStatus(s, o) = s
          BY <1>1, <2>3, <3>1, <4>1, StrandedTools DEF ToolRuns
        <4>3. s \in CaseStatus
          BY <1>1 DEF Stranded, CaseStatus
        <4> QED BY <2>1, <4>2, <4>3
      <3>2. CASE c # d
        BY <2>3, <3>2 DEF ToolRuns, SetStatus, TypeOK
      <3> QED BY <3>1, <3>2
    <2>4. ASSUME NEW w \in Workers, NEW v \in Verdict, CommitVerify(w, v)
          PROVE  cases'[c].status = s
      <3>1. CASE txn[w].case # c
        BY <2>4, <3>1 DEF CommitVerify, TypeOK
      <3>2. CASE txn[w].case = c
        <4>1. Processed(s, v) = s /\ ~Verifying(s, v)
          BY <1>1, <2>2 DEF Processed, Verifying, Stranded
        <4>2. cases[c] \in CaseRow /\ s \in CaseStatus /\ clock \in Nat
              /\ txn[w] \in Txn
          BY <1>1, TimeAssumption DEF TypeOK, Stranded, CaseStatus
        <4>3. Moved(cases[c], s).status = s
          BY <4>2, MovedRow
        <4>4. \A a : Credited(cases[c], s, a, txn[w]).status = s
          BY <4>2 DEF Credited, Moved, CaseRow
        <4>5. Verified(c, txn[w], v).status = s
          BY <4>1, <4>3, <4>4
          DEF Verified, _apply_success, _persist_failure, FailureStatus
        <4>6. cases' = [cases EXCEPT ![c] = Verified(c, txn[w], v)]
          BY <2>4, <3>2 DEF CommitVerify
        <4> QED BY <1>1, <4>5, <4>6 DEF TypeOK
      <3> QED BY <3>1, <3>2
    <2>5. ASSUME NEW w \in Workers, CommitEvent(w)
          PROVE  cases'[c].status = s
      <3>1. CASE UNCHANGED cases
        BY <3>1
      <3>2. ASSUME NEW d \in Cases, Opens(d)
            PROVE  cases'[c].status = s
        BY <1>1, <3>2 DEF Opens, TypeOK, Stranded
      <3> QED BY <1>1, <2>5, <3>1, <3>2, EventCommits
    <2>6. ASSUME NEW d \in Cases, NEW v \in Verdict, Process(d, v)
          PROVE  cases'[c].status = s
      BY <2>2, <2>6 DEF Process, SetStatus, TypeOK
    <2>7. ASSUME NEW d \in Cases, RejectApproval(d)
          PROVE  cases'[c].status = s
      BY <1>1, <2>7 DEF RejectApproval, SetStatus, TypeOK, Stranded
    <2>8. ASSUME NEW d \in Cases, NEW stop \in CaseStatus, AgentRun(d, stop)
          PROVE  cases'[c].status = s
      BY <2>2, <2>8 DEF AgentRun, SetStatus, TypeOK
    <2>9. CASE UNCHANGED cases
      BY <2>9
    <2>10. CASE Webhooks
      BY <2>5, <2>9, <2>10 DEF Webhooks, Receive, BeginEvent, AbortEvent
    <2>11. CASE Verifications
      BY <2>4, <2>9, <2>11 DEF Verifications, BeginVerify, AbortVerify
    <2>12. CASE Actions
      BY <2>3, <2>7, <2>8, <2>12
      DEF Actions, ExecuteTool, RetryPayment, ToolOutcome
    <2> QED BY <1>1, <2>6, <2>9, <2>10, <2>11, <2>12 DEF Next, Tick
  <1>2. TypeOK /\ References /\ [Next]_vars =>
          [\A c \in Cases : cases[c].status \in Stranded =>
                             cases'[c].status = cases[c].status]_vars
    BY <1>1
  <1> QED BY <1>2, Invariance, PTL DEF Spec, StrandedStaysPut

-----------------------------------------------------------------------------
(* Refinement *)

\* A row step is a step of the ledger, or leaves the ledger as it is.
LEMMA LedgerStep ==
    ASSUME TypeOK, OneRowStep
    PROVE  Ledger!LedgerNext \/ UNCHANGED CaseLedger
  <1>1. CASE UNCHANGED cases
    BY <1>1 DEF CaseLedger
  <1>2. ASSUME NEW c \in Cases, RowStep(c),
               \A d \in Cases \ {c} : cases'[d] = cases[d]
        PROVE  Ledger!LedgerNext \/ UNCHANGED CaseLedger
    <2> DEFINE row == cases[c]
               new == cases'[c]
               old == CaseLedger[c]
    <2>1. /\ CaseLedger = [d \in Cases |-> LedgerEntry(cases[d])]
          /\ CaseLedger' = [CaseLedger EXCEPT ![c] = LedgerEntry(new)]
          /\ old = LedgerEntry(row)
      BY <1>2 DEF CaseLedger
    <2>2. CASE LedgerEntry(new) = LedgerEntry(row)
      BY <2>1, <2>2 DEF CaseLedger
    <2>3. CASE /\ row.status = "ABSENT" /\ new.status = "DETECTED"
               /\ new.at_risk \in Amounts /\ new.recovered = 0
      <3>1. old.state = "none" /\ LedgerEntry(new) =
              Ledger!Entry("open", new.at_risk, 0)
        BY <2>1, <2>3 DEF LedgerEntry, Ledger!Entry
      <3>2. Ledger!Open(c, new.at_risk)
        BY <2>1, <3>1 DEF Ledger!Open
      <3> QED BY <2>3, <3>2 DEF Ledger!LedgerNext
    <2>4. ASSUME Working(row), new.status \in CaseStatus,
                 new.at_risk = row.at_risk
          PROVE  /\ old.state = "open" /\ old.at_risk = row.at_risk
                 /\ old.recovered = row.recovered
                 /\ LedgerEntry(row) =
                      Ledger!Entry("open", row.at_risk, row.recovered)
                 /\ LedgerEntry(new) =
                      Ledger!Entry(IF new.status = "RECOVERED" THEN "recovered"
                                   ELSE IF new.status = "STOPPED" THEN "stopped"
                                   ELSE "open",
                                   row.at_risk, new.recovered)
      BY <2>1, <2>4 DEF LedgerEntry, Working, CaseStatus,
                        TERMINAL_RECOVERY_STATUSES, Ledger!Entry
    <2>5. CASE /\ Working(row) /\ new.status \in CaseStatus
               /\ new.at_risk = row.at_risk
               /\ new.status # "RECOVERED" /\ new.recovered = row.recovered
      <3>1. CASE new.status # "STOPPED"
        BY <2>2, <2>4, <2>5, <3>1
      <3>2. CASE new.status = "STOPPED"
        <4>1. Ledger!Stop(c)
          BY <2>1, <2>4, <2>5, <3>2 DEF Ledger!Stop
        <4> QED BY <4>1 DEF Ledger!LedgerNext
      <3> QED BY <3>1, <3>2
    <2>6. CASE /\ Working(row) /\ new.status \in CaseStatus
               /\ new.at_risk = row.at_risk
               /\ new.status # "RECOVERED" /\ new.recovered \in Amounts
               /\ 0 < new.recovered /\ new.recovered < row.at_risk
      <3> DEFINE state == IF new.status = "STOPPED" THEN "stopped" ELSE "open"
      <3>1. Ledger!Credit(c, new.recovered, state)
        BY <2>1, <2>4, <2>6 DEF Ledger!Credit
      <3> QED BY <2>6, <3>1 DEF Ledger!LedgerNext
    <2>7. CASE /\ Working(row) /\ new.status = "RECOVERED"
               /\ new.at_risk = row.at_risk /\ new.recovered = row.at_risk
      <3>1. Ledger!Recover(c)
        BY <2>1, <2>4, <2>7 DEF Ledger!Recover, CaseStatus
      <3> QED BY <3>1 DEF Ledger!LedgerNext
    <2> QED BY <1>2, <2>2, <2>3, <2>5, <2>6, <2>7 DEF RowStep
  <1> QED BY <1>1, <1>2 DEF OneRowStep

\* The case rows implement the ledger for any number of workers: what the
\* interleaved transactions of processing.py, processor.py, verification.py
\* and the tools commit is a step of RecoveryLedger or leaves it as it is.
THEOREM Refinement == Spec => ImplementsLedger
  <1>1. Init => Ledger!LedgerInit
    BY DEF Init, Ledger!LedgerInit, Ledger!Entry, CaseLedger, LedgerEntry,
           NoCase
  <1>2. TypeOK /\ References /\ [Next]_vars => [Ledger!LedgerNext]_CaseLedger
    BY CaseSteps, OneRowSteps, LedgerStep
  <1> QED BY <1>1, <1>2, Invariance, PTL
          DEF Spec, ImplementsLedger, Ledger!LedgerSpec

-----------------------------------------------------------------------------
(* The evidence of a credit *)

\* No two events of a payment are processed at the same time, and no two
\* verifications of one.  The code locks the webhook row and the case, not the
\* payment: neither is true of every behaviour.
OneEventPerPayment ==
    \A v, w \in Workers :
      /\ txn[v].kind = "event" /\ txn[w].kind = "event"
      /\ txn[v].payment = txn[w].payment
      => v = w
OneVerifyPerPayment ==
    \A v, w \in Workers :
      /\ txn[v].kind = "verify" /\ txn[w].kind = "verify"
      /\ txn[v].payment = txn[w].payment
      => v = w

\* The processed captures e and f of a payment: one and the same or, apart,
\* any two.
Captures(p, e, f, apart) == Capture(p, e) /\ Capture(p, f) /\ (apart \/ e = f)

\* A captured row has its amount from e and its time from f, unless a tool has
\* made the payment.
RowBacked(p, row, apart) ==
    row.captured_at # NULL =>
      \/ Made(p)
      \/ \E e, f \in Events : /\ Captures(p, e, f, apart)
                              /\ events[e].amount = row.amount
                              /\ events[f].at = row.captured_at

\* Of a credited case, e has enough and f was in time.
CaseBacked(c, apart) ==
    LET row == cases[c] IN
    row.recovered > 0 =>
      \/ Made(row.verified_by)
      \/ \E e, f \in Events : /\ Captures(row.verified_by, e, f, apart)
                              /\ events[e].amount >= row.recovered
                              /\ row.opened_at - Grace <= events[f].at
                              /\ events[f].at <= row.opened_at + Window

\* An open event is not yet processed, and one worker has it.
Processing(w) ==
    txn[w].kind = "event" =>
      /\ events[txn[w].event].status = "RECEIVED"
      /\ \A v \in Workers :
           txn[v].kind = "event" /\ txn[v].event = txn[w].event => v = w

\* What the session of an open event read is the row, or was: then a capture
\* is not forgotten, and the amount is that of the row up to the first one.
Fresh(w) ==
    LET row == payments[txn[w].payment]
        read == txn[w].read
    IN  read = row \/ (read.status = "ABSENT" /\ row.status # "ABSENT")
Stale(w) ==
    LET row == payments[txn[w].payment]
        read == txn[w].read
    IN  /\ read.captured_at # NULL => row.captured_at # NULL
        /\ read.status # "ABSENT" /\ row.captured_at = NULL =>
             row.amount = read.amount

EventsBacked(apart) ==
    \A w \in Workers : /\ Processing(w)
                       /\ txn[w].kind = "event" =>
                            Stale(w) /\ (apart \/ Fresh(w))
PaymentsBacked(apart) == \A p \in Payments : RowBacked(p, payments[p], apart)
ReadsBacked(apart) ==
    \A w \in Workers :
      txn[w].kind = "verify" => RowBacked(txn[w].payment, txn[w].read, apart)
CasesBacked(apart) == \A c \in Cases : CaseBacked(c, apart)

Evidence(apart) == /\ EventsBacked(apart)
                   /\ PaymentsBacked(apart)
                   /\ ReadsBacked(apart)
                   /\ CasesBacked(apart)

EvidenceApart == Evidence(TRUE)
EvidenceExact == Evidence(FALSE)

\* A verification that found a payment uncounted still finds it so, while it
\* is the only one of the payment.
StillUncounted ==
    \A w \in Workers :
      /\ txn[w].kind = "verify"
      /\ txn[w].seen = {}
      => CountedElsewhere(txn[w].case, txn[w].payment) = {}

\* What a row tells of its credit.
SameCredit(c) ==
    /\ cases'[c].recovered = cases[c].recovered
    /\ cases'[c].verified_by = cases[c].verified_by
    /\ cases'[c].opened_at = cases[c].opened_at

\* A step that is not the commit of a verification leaves every credit.
LEMMA PlainCredit ==
    ASSUME TypeOK, PlainStep, NEW c \in Cases
    PROVE  \/ SameCredit(c)
           \/ cases'[c].recovered = 0 /\ cases'[c].verified_by = NULL
  <1>1. cases \in [Cases -> CaseRow]
    BY DEF TypeOK
  <1>2. ASSUME NEW d \in Cases, NEW row,
               cases' = [cases EXCEPT ![d] = row]
        PROVE  /\ d = c => cases'[c] = row
               /\ d # c => cases'[c] = cases[c]
    BY <1>1, <1>2
  <1>3. ASSUME NEW d \in Cases, Opens(d), d = c
        PROVE  cases'[c].recovered = 0 /\ cases'[c].verified_by = NULL
    <2>1. PICK p \in Payments, amount \in Amounts :
            cases' = [cases EXCEPT ![d] = NewCase(p, amount)]
      BY <1>3 DEF Opens
    <2>2. cases'[c] = NewCase(p, amount)
      BY <1>2, <1>3, <2>1
    <2> QED BY <2>2 DEF NewCase, NoCase
  <1>4. ASSUME NEW d \in Cases, Moves(d), d = c
        PROVE  SameCredit(c)
    <2>1. PICK s : cases' = [cases EXCEPT ![d] = Moved(cases[d], s)]
      BY <1>4 DEF Moves
    <2>2. cases'[c] = Moved(cases[c], s)
      BY <1>2, <1>4, <2>1
    <2> QED BY <1>1, <2>2 DEF Moved, CaseRow, SameCredit
  <1>5. ASSUME NEW d \in Cases, Opens(d) \/ Moves(d), d # c
        PROVE  SameCredit(c)
    BY <1>2, <1>5 DEF Opens, Moves, SameCredit
  <1> QED BY <1>3, <1>4, <1>5 DEF PlainStep, SameCredit

\* verify_case counts the payment of t on the case.
Counts(c, t) ==
    /\ Credits(c, t)
    /\ t.seen = {}
    /\ cases'[c].verified_by = t.payment
    /\ cases'[c].recovered <= t.read.amount
    /\ cases'[c].opened_at = cases[c].opened_at

\* The commit of a verification keeps the credit of its case or counts
\* its payment, and no other case changes.
LEMMA VerifiedCredit ==
    ASSUME TypeOK, References,
           NEW w \in Workers, NEW v \in Verdict, CommitVerify(w, v)
    PROVE  /\ txn[w].case \in Cases
           /\ \A d \in Cases \ {txn[w].case} : cases'[d] = cases[d]
           /\ SameCredit(txn[w].case) \/ Counts(txn[w].case, txn[w])
  <1>1. PICK t \in Txn, c \in Cases :
          /\ t = txn[w] /\ c = t.case
          /\ cases' = [cases EXCEPT ![c] = Verified(c, t, v)]
    BY DEF TypeOK, References, TxnReferences, CommitVerify
  <1>2. cases \in [Cases -> CaseRow] /\ cases[c] \in CaseRow
    BY DEF TypeOK
  <1>3. /\ cases'[c] = Verified(c, t, v)
        /\ \A d \in Cases \ {c} : cases'[d] = cases[d]
    BY <1>1, <1>2
  <1>4. ASSUME NEW s
        PROVE  LET new == Moved(cases[c], s) IN
               /\ new.recovered = cases[c].recovered
               /\ new.verified_by = cases[c].verified_by
               /\ new.opened_at = cases[c].opened_at
    BY <1>2 DEF Moved, CaseRow
  <1>5. ASSUME NEW s, NEW amount
        PROVE  LET new == Credited(cases[c], s, amount, t) IN
               /\ new.recovered = amount
               /\ new.verified_by = t.payment
               /\ new.opened_at = cases[c].opened_at
    BY <1>2 DEF Credited, Moved, CaseRow
  <1>6. CASE \/ cases[c].status \in {"STOPPED", "RECOVERED"}
             \/ _duplicate_or_already_counted(cases[c], t)
    BY <1>1, <1>3, <1>6 DEF Verified, SameCredit
  <1>7. CASE ~(\/ cases[c].status \in {"STOPPED", "RECOVERED"}
               \/ _duplicate_or_already_counted(cases[c], t))
    <2>1. t.seen = {}
      BY <1>7 DEF _duplicate_or_already_counted
    <2>2. CASE Matched(c, t)
      <3>1. cases'[c] = _apply_success(cases[c], t, v)
        BY <1>3, <1>7, <2>2 DEF Verified
      <3>2. CASE Verifying(cases[c].status, v)
        <4>1. cases'[c] = Credited(cases[c], "RECOVERED", cases[c].at_risk, t)
          BY <3>1, <3>2 DEF _apply_success
        <4>2. cases[c].at_risk <= t.read.amount
          BY <1>2, <2>2 DEF Matched, CaseRow, Txn, PaymentRow
        <4> QED BY <1>1, <1>3, <1>5, <2>1, <2>2, <4>1, <4>2 DEF Matched, Counts
      <3>3. CASE ~Verifying(cases[c].status, v)
        BY <1>1, <1>3, <1>4, <3>1, <3>3 DEF _apply_success, SameCredit
      <3> QED BY <1>1, <1>3, <3>2, <3>3
    <2>3. CASE ~Matched(c, t)
      <3>1. cases'[c] = _persist_failure(cases[c], t, v, Credits(c, t))
        BY <1>3, <1>7, <2>3 DEF Verified
      <3>2. CASE Credits(c, t)
        <4>1. PICK s : cases'[c] = Credited(cases[c], s, t.read.amount, t)
          BY <3>1, <3>2 DEF _persist_failure
        <4>2. t.read.amount \in Nat
          BY DEF Txn, PaymentRow
        <4> QED BY <1>1, <1>3, <1>5, <2>1, <3>2, <4>1, <4>2 DEF Counts
      <3>3. CASE ~Credits(c, t)
        <4>1. PICK s : cases'[c] = Moved(cases[c], s)
          BY <3>1, <3>3 DEF _persist_failure
        <4> QED BY <1>1, <1>3, <1>4, <4>1 DEF SameCredit
      <3> QED BY <3>2, <3>3
    <2> QED BY <2>2, <2>3
  <1> QED BY <1>6, <1>7

\* A processed event stays as it is, and an open one is not processed.
ProcessedKept ==
    /\ \A e \in Events : events[e].status = "PROCESSED" =>
                           events'[e] = events[e]
    /\ links \subseteq links'
    /\ \A w \in Workers : Processing(w)'

\* The steps of no event.
NoEventStep ==
    /\ UNCHANGED events
    /\ links \subseteq links'
    /\ \/ UNCHANGED txn
       \/ \E w \in Workers :
            \E t : txn' = [txn EXCEPT ![w] = t] /\ t.kind # "event"

\* Verifications, tools, the processor and the clock are such steps.
LEMMA NoEventSteps ==
    ASSUME [Next]_vars, ~Webhooks
    PROVE  NoEventStep
  <1>1. Idle.kind # "event"
    BY DEF Idle
  <1>2. ASSUME NEW w \in Workers, NEW c \in Cases, NEW p \in Payments,
               NEW e \in Events \cup {NULL}, BeginVerify(w, c, p, e)
        PROVE  NoEventStep
    <2>1. PICK t : /\ t = [kind |-> "verify", event |-> e, case |-> c,
                           payment |-> p, read |-> payments[p],
                           seen |-> CountedElsewhere(c, p)]
                   /\ txn' = [txn EXCEPT ![w] = t]
      BY <1>2 DEF BeginVerify
    <2>2. t.kind # "event"
      BY <2>1
    <2> QED BY <1>2, <2>1, <2>2 DEF BeginVerify, NoEventStep
  <1>3. ASSUME NEW w \in Workers,
               AbortVerify(w) \/ \E v \in Verdict : CommitVerify(w, v)
        PROVE  NoEventStep
    <2>1. /\ txn' = [txn EXCEPT ![w] = Idle]
          /\ UNCHANGED <<events, links>>
      BY <1>3 DEF AbortVerify, CommitVerify
    <2> QED BY <1>1, <2>1 DEF NoEventStep
  <1>4. CASE Verifications
    BY <1>2, <1>3, <1>4 DEF Verifications
  <1>5. CASE Actions
    BY <1>5 DEF Actions, ExecuteTool, RetryPayment, RejectApproval, AgentRun,
                NoEventStep
  <1>6. CASE Tick
    BY <1>6 DEF Tick, NoEventStep
  <1>7. ASSUME NEW c \in Cases, NEW v \in Verdict, Process(c, v)
        PROVE  NoEventStep
    BY <1>7 DEF Process, NoEventStep
  <1>8. CASE UNCHANGED vars
    BY <1>8 DEF vars, NoEventStep
  <1> QED BY <1>4, <1>5, <1>6, <1>7, <1>8 DEF Next

\* What was processed stays, whatever step is taken.
LEMMA ProcessedStays ==
    ASSUME TypeOK, References, \A w \in Workers : Processing(w), [Next]_vars
    PROVE  ProcessedKept
  <1>1. /\ txn \in [Workers -> Txn]
        /\ events \in [Events -> EventRow]
        /\ Idle.kind # "event"
    BY DEF TypeOK, Idle
  <1>2. CASE NoEventStep
    <2>1. \A w \in Workers : txn'[w] = txn[w] \/ txn'[w].kind # "event"
      BY <1>1, <1>2 DEF NoEventStep
    <2>2. \A w \in Workers : Processing(w)'
      BY <1>2, <2>1 DEF Processing, NoEventStep
    <2> QED BY <1>2, <2>2 DEF ProcessedKept, NoEventStep
  <1>3. ASSUME NEW e \in Events, NEW type \in EventTypes, NEW p \in Payments,
               NEW amount \in Amounts, NEW at,
               Receive(e, type, p, amount, at)
        PROVE  ProcessedKept
    <2>1. /\ events[e].status = "ABSENT"
          /\ \A f \in Events \ {e} : events'[f] = events[f]
          /\ UNCHANGED <<links, txn>>
      BY <1>1, <1>3 DEF Receive
    <2>2. \A w \in Workers : txn[w].kind = "event" => txn[w].event \in Events
      BY DEF References, TxnReferences
    <2> QED BY <2>1, <2>2 DEF ProcessedKept, Processing
  <1>4. ASSUME NEW w \in Workers, NEW e \in Events, BeginEvent(w, e)
        PROVE  ProcessedKept
    <2>1. /\ UNCHANGED <<links, events>>
          /\ events[e].status = "RECEIVED"
          /\ \A v \in Workers : ~(txn[v].kind = "event" /\ txn[v].event = e)
          /\ txn'[w].event = e
          /\ \A v \in Workers \ {w} : txn'[v] = txn[v]
      BY <1>1, <1>4 DEF BeginEvent, Idle
    <2> QED BY <2>1 DEF ProcessedKept, Processing
  <1>5. ASSUME NEW w \in Workers, CommitEvent(w) \/ AbortEvent(w)
        PROVE  ProcessedKept
    <2>1. PICK e \in Events : /\ e = txn[w].event
                              /\ txn[w].kind = "event"
                              /\ events[e].status = "RECEIVED"
      BY <1>5 DEF CommitEvent, AbortEvent, Processing, References,
                  TxnReferences
    <2>2. /\ \A f \in Events \ {e} : events'[f] = events[f]
          /\ txn' = [txn EXCEPT ![w] = Idle]
          /\ UNCHANGED links
      BY <1>1, <1>5, <2>1 DEF CommitEvent, AbortEvent
    <2>3. /\ txn'[w].kind # "event"
          /\ \A v \in Workers \ {w} : txn'[v] = txn[v]
      BY <1>1, <2>2
    <2>4. \A v \in Workers \ {w} :
            txn[v].kind = "event" => txn[v].event \in Events \ {e}
      BY <2>1 DEF Processing, References, TxnReferences
    <2>5. \A v \in Workers : Processing(v)'
      BY <2>2, <2>3, <2>4 DEF Processing
    <2> QED BY <2>1, <2>2, <2>5 DEF ProcessedKept
  <1>6. CASE Webhooks
    BY <1>3, <1>4, <1>5, <1>6 DEF Webhooks
  <1> QED BY <1>2, <1>6, NoEventSteps

\* The three ways in which the payments table changes: an event writes its
\* payment over what was committed since it was read, a tool inserts one, or
\* nothing does.
Written(w) ==
    Flushed(payments[txn[w].payment], txn[w].read,
            SessionPayment(txn[w].read, events[txn[w].event]))
Writes(w) ==
    /\ CommitEvent(w)
    /\ events[txn[w].event].type # "UNKNOWN"
    /\ txn[w].payment \in Payments
    /\ txn[w].read.status = "ABSENT" <=>
         payments[txn[w].payment].status = "ABSENT"
    /\ payments' = [payments EXCEPT ![txn[w].payment] = Written(w)]
Inserts(q) ==
    /\ payments[q].status = "ABSENT"
    /\ Made(q)'
    /\ UNCHANGED <<txn, events>>
    /\ \A p \in Payments \ {q} : payments'[p] = payments[p]
    /\ payments'[q].status # "ABSENT"

\* There are no others.
LEMMA PaymentWrites ==
    ASSUME TypeOK, References, [Next]_vars
    PROVE  \/ UNCHANGED payments
           \/ \E w \in Workers : Writes(w)
           \/ \E q \in Payments : Inserts(q)
  <1>1. payments \in [Payments -> PaymentRow]
    BY DEF TypeOK
  <1>2. ASSUME NEW w \in Workers, CommitEvent(w)
        PROVE  UNCHANGED payments \/ Writes(w)
    <2>1. /\ txn[w].payment \in Payments
          /\ txn[w].read.status # "ABSENT" =>
               payments[txn[w].payment].status # "ABSENT"
      BY <1>2 DEF CommitEvent, References, TxnReferences, EventReferences
    <2>2. CASE UnknownDomainEvent(events[txn[w].event])
      BY <1>2, <2>2 DEF CommitEvent
    <2>3. CASE ~UnknownDomainEvent(events[txn[w].event])
      BY <1>2, <2>1, <2>3
      DEF CommitEvent, Writes, Written, InsertConflict, UnknownDomainEvent
    <2> QED BY <2>2, <2>3
  <1>3. ASSUME NEW c \in Cases, NEW approved \in BOOLEAN, NEW q \in Payments,
               NEW status \in RetryOutcomes,
               RetryPayment(c, approved, q, status)
        PROVE  Inserts(q)
    <2>1. /\ payments[q].status = "ABSENT"
          /\ Made(q)'
          /\ UNCHANGED <<txn, events>>
      BY <1>3 DEF RetryPayment, Made
    <2>2. PICK row :
            /\ row = [status |-> status,
                      amount |-> payments[cases[c].payment].amount,
                      captured_at |-> IF status = "CAPTURED" THEN clock
                                      ELSE NULL]
            /\ payments' = [payments EXCEPT ![q] = row]
      BY <1>3 DEF RetryPayment
    <2>3. row.status # "ABSENT"
      BY <2>2 DEF RetryOutcomes
    <2> QED BY <1>1, <2>1, <2>2, <2>3 DEF Inserts
  <1>4. CASE Webhooks
    BY <1>2, <1>4 DEF Webhooks, Receive, BeginEvent, AbortEvent
  <1>5. CASE Actions
    BY <1>3, <1>5 DEF Actions, ExecuteTool, RejectApproval, AgentRun
  <1> QED BY <1>4, <1>5
          DEF Next, vars, Tick, Process, Verifications, BeginVerify,
              CommitVerify, AbortVerify

\* What a worker may do between two states: go on, end, or begin.
LEMMA WorkerSteps ==
    ASSUME TypeOK, [Next]_vars, NEW w \in Workers
    PROVE  \/ txn'[w] = txn[w]
           \/ txn'[w] = Idle
           \/ \E e \in Events : BeginEvent(w, e)
           \/ \E c \in Cases, p \in Payments, e \in Events \cup {NULL} :
                BeginVerify(w, c, p, e)
  <1>1. txn \in [Workers -> Txn]
    BY DEF TypeOK
  <1>2. ASSUME NEW v \in Workers, txn' = [txn EXCEPT ![v] = Idle]
        PROVE  txn'[w] = txn[w] \/ txn'[w] = Idle
    BY <1>1, <1>2
  <1>3. CASE Webhooks
    <2>1. ASSUME NEW v \in Workers, NEW e \in Events, BeginEvent(v, e)
          PROVE  txn'[w] = txn[w] \/ v = w
      BY <1>1, <2>1 DEF BeginEvent
    <2> QED BY <1>2, <1>3, <2>1 DEF Webhooks, Receive, CommitEvent, AbortEvent
  <1>4. CASE Verifications
    <2>1. ASSUME NEW v \in Workers, NEW c \in Cases, NEW p \in Payments,
                 NEW e \in Events \cup {NULL}, BeginVerify(v, c, p, e)
          PROVE  txn'[w] = txn[w] \/ v = w
      BY <1>1, <2>1 DEF BeginVerify
    <2> QED BY <1>2, <1>4, <2>1 DEF Verifications, CommitVerify, AbortVerify
  <1>5. CASE Actions
    BY <1>5 DEF Actions, ExecuteTool, RetryPayment, RejectApproval, AgentRun
  <1> QED BY <1>3, <1>4, <1>5 DEF Next, vars, Tick, Process

\* What a capture and a payment made by a tool have shown, stays shown.
LEMMA BackingKept ==
    ASSUME ProcessedKept, NEW p, NEW row, NEW apart, RowBacked(p, row, apart)
    PROVE  RowBacked(p, row, apart)'
  <1>1. Made(p) => Made(p)'
    BY DEF ProcessedKept, Made
  <1>2. ASSUME NEW e \in Events, NEW f \in Events, Captures(p, e, f, apart)
        PROVE  /\ Captures(p, e, f, apart)'
               /\ events'[e] = events[e] /\ events'[f] = events[f]
    BY <1>2 DEF ProcessedKept, Captures, Capture
  <1> QED BY <1>1, <1>2 DEF RowBacked

\* The row that an event leaves.  A capture leaves its amount and its time, or
\* those of a capture that was committed since the row was read.
LEMMA WrittenRow ==
    ASSUME TypeOK, References, NEW w \in Workers, Writes(w), Stale(w)
    PROVE  LET left == Written(w)
               row == payments[txn[w].payment]
               ev == events[txn[w].event]
           IN  /\ row.captured_at # NULL => left.captured_at # NULL
               /\ ev.type = "CAPTURED" =>
                    /\ left.captured_at # NULL
                    /\ \/ left.amount = ev.amount
                       \/ left.amount = row.amount /\ row.captured_at # NULL
                    /\ \/ left.captured_at = ev.at
                       \/ /\ left.captured_at = row.captured_at
                          /\ row.captured_at # NULL
                    /\ Fresh(w) => /\ left.amount = ev.amount
                                   /\ left.captured_at = ev.at
               /\ ev.type # "CAPTURED" =>
                    /\ left.captured_at = row.captured_at
                    /\ row.status # "ABSENT" => left.amount = row.amount
  <1>1. PICK t \in Txn : t = txn[w]
    BY DEF TypeOK
  <1>2. PICK ev \in EventRow, row \in PaymentRow, read \in PaymentRow :
          /\ ev = events[t.event]
          /\ row = payments[t.payment]
          /\ read = t.read
          /\ PaymentBlank(row) /\ PaymentBlank(read)
          /\ read.status = "ABSENT" <=> row.status = "ABSENT"
    BY <1>1 DEF TypeOK, References, TxnReferences, PaymentReferences, Writes,
                CommitEvent, Txn
  <1>3. PICK new, left : /\ new = SessionPayment(read, ev)
                         /\ left = Flushed(row, read, new)
    OBVIOUS
  <1>4. left = Written(w)
    BY <1>1, <1>2, <1>3 DEF Written
  <1>5. /\ read.captured_at # NULL => row.captured_at # NULL
        /\ row.captured_at = NULL => row.amount = read.amount
    BY <1>1, <1>2 DEF Stale, PaymentBlank, NoPayment
  <1>6. /\ left.amount = IF new.amount = read.amount THEN row.amount
                         ELSE new.amount
        /\ left.captured_at = IF new.captured_at = read.captured_at
                              THEN row.captured_at ELSE new.captured_at
    BY <1>3 DEF Flushed
  <1>7. CASE ev.type = "CAPTURED"
    <2>1. new.amount = ev.amount /\ new.captured_at = ev.at
      BY <1>3, <1>7 DEF SessionPayment
    <2>2. ev.at # NULL
      BY NullAssumption DEF EventRow
    <2>3. Fresh(w) => read = row
      BY <1>1, <1>2 DEF Fresh
    <2> QED BY <1>1, <1>2, <1>4, <1>5, <1>6, <1>7, <2>1, <2>2, <2>3
  <1>8. CASE ev.type # "CAPTURED"
    <2>1. /\ new.captured_at = read.captured_at
          /\ read.status # "ABSENT" => new.amount = read.amount
      BY <1>3, <1>8 DEF SessionPayment
    <2> QED BY <1>1, <1>2, <1>4, <1>6, <1>8, <2>1
  <1> QED BY <1>7, <1>8

\* The row that an event leaves is backed: by the capture it carried, by one
\* that was committed since the row was read, or as the row was before.
LEMMA WrittenBacked ==
    ASSUME TypeOK, References, NEW apart \in BOOLEAN, Evidence(apart),
           ProcessedKept, NEW w \in Workers, Writes(w),
           NEW p, NEW left, p = txn[w].payment, left = Written(w)
    PROVE  RowBacked(p, left, apart)'
  <1>1. PICK ev \in EventRow, row \in PaymentRow, e \in Events :
          /\ e = txn[w].event /\ ev = events[e] /\ row = payments[p]
          /\ p \in Payments /\ ev.payment = p
          /\ ev.status = "RECEIVED"
          /\ RowBacked(p, row, apart)
          /\ Stale(w) /\ (apart \/ Fresh(w))
    BY DEF TypeOK, Writes, CommitEvent, References, TxnReferences, Evidence,
           EventsBacked, Processing, PaymentsBacked
  <1>2. /\ row.captured_at # NULL => left.captured_at # NULL
        /\ ev.type = "CAPTURED" =>
             /\ left.captured_at # NULL
             /\ \/ left.amount = ev.amount
                \/ left.amount = row.amount /\ row.captured_at # NULL
             /\ \/ left.captured_at = ev.at
                \/ /\ left.captured_at = row.captured_at
                   /\ row.captured_at # NULL
             /\ Fresh(w) => /\ left.amount = ev.amount
                            /\ left.captured_at = ev.at
        /\ ev.type # "CAPTURED" =>
             /\ left.captured_at = row.captured_at
             /\ row.status # "ABSENT" => left.amount = row.amount
    BY <1>1, WrittenRow
  <1>3. RowBacked(p, row, apart)'
    BY <1>1, BackingKept
  <1>4. events'[e].status = "PROCESSED" /\ events'[e].type = ev.type
        /\ events'[e].payment = p /\ events'[e].amount = ev.amount
        /\ events'[e].at = ev.at
    <2>1. events' = [events EXCEPT ![e].status = "PROCESSED"]
      BY <1>1 DEF Writes, CommitEvent
    <2>2. events \in [Events -> EventRow]
      BY DEF TypeOK
    <2> QED BY <1>1, <2>1, <2>2 DEF EventRow
  <1>5. CASE ev.type # "CAPTURED"
    <2>1. row.captured_at # NULL => row.status # "ABSENT"
      BY <1>1 DEF References, PaymentReferences, PaymentBlank, NoPayment
    <2> QED BY <1>2, <1>3, <1>5, <2>1 DEF RowBacked
  <1>6. CASE ev.type = "CAPTURED"
    <2>1. Capture(p, e)'
      BY <1>4, <1>6 DEF Capture
    <2>2. CASE ~apart
      <3>1. Captures(p, e, e, apart)'
        BY <2>1 DEF Captures
      <3>2. left.amount = ev.amount /\ left.captured_at = ev.at
        BY <1>1, <1>2, <1>6, <2>2
      <3> QED BY <1>4, <3>1, <3>2 DEF RowBacked
    <2>3. CASE apart
      <3>1. CASE row.captured_at = NULL
        <4>1. Captures(p, e, e, apart)'
          BY <2>1 DEF Captures
        <4> QED BY <1>2, <1>4, <1>6, <3>1, <4>1 DEF RowBacked
      <3>2. CASE row.captured_at # NULL /\ Made(p)'
        BY <3>2 DEF RowBacked
      <3>3. CASE row.captured_at # NULL /\ ~Made(p)'
        <4>1. PICK f, g \in Events : /\ Captures(p, f, g, apart)'
                                     /\ events'[f].amount = row.amount
                                     /\ events'[g].at = row.captured_at
          BY <1>3, <3>3 DEF RowBacked
        <4>2. \A h, k \in {e, f, g} : Captures(p, h, k, apart)'
          BY <2>1, <2>3, <4>1 DEF Captures
        <4>3. PICK h \in {e, f} : left.amount = events'[h].amount
          BY <1>2, <1>4, <1>6, <4>1
        <4>4. PICK k \in {e, g} : left.captured_at = events'[k].at
          BY <1>2, <1>4, <1>6, <4>1
        <4> QED BY <4>2, <4>3, <4>4 DEF RowBacked
      <3> QED BY <3>1, <3>2, <3>3
    <2> QED BY <2>2, <2>3
  <1> QED BY <1>5, <1>6

\* A payment row stays backed.
LEMMA PaymentsStayBacked ==
    ASSUME TypeOK, References, NEW apart \in BOOLEAN, Evidence(apart),
           ProcessedKept, [Next]_vars
    PROVE  PaymentsBacked(apart)'
  <1>1. /\ payments \in [Payments -> PaymentRow]
        /\ \A p \in Payments : RowBacked(p, payments[p], apart)
    BY DEF TypeOK, Evidence, PaymentsBacked
  <1>2. ASSUME NEW p \in Payments, payments'[p] = payments[p]
        PROVE  RowBacked(p, payments[p], apart)'
    <2>1. PICK row : row = payments[p] /\ RowBacked(p, row, apart)
      BY <1>1
    <2>2. RowBacked(p, row, apart)'
      BY <2>1, BackingKept
    <2> QED BY <1>2, <2>1, <2>2 DEF RowBacked
  <1>3. ASSUME NEW w \in Workers, Writes(w)
        PROVE  PaymentsBacked(apart)'
    <2>1. PICK p, left :
            /\ p \in Payments /\ p = txn[w].payment /\ left = Written(w)
            /\ payments' = [payments EXCEPT ![p] = left]
      BY <1>3 DEF Writes
    <2>2. /\ payments'[p] = left
          /\ \A q \in Payments \ {p} : payments'[q] = payments[q]
      BY <1>1, <2>1
    <2>3. RowBacked(p, left, apart)'
      BY <1>3, <2>1, WrittenBacked
    <2>4. RowBacked(p, payments[p], apart)'
      BY <2>2, <2>3 DEF RowBacked
    <2> QED BY <1>2, <2>2, <2>4 DEF PaymentsBacked
  <1>4. ASSUME NEW q \in Payments, Inserts(q)
        PROVE  PaymentsBacked(apart)'
    BY <1>2, <1>4 DEF Inserts, PaymentsBacked, RowBacked
  <1> QED BY <1>2, <1>3, <1>4, PaymentWrites DEF PaymentsBacked

\* So does what a verification has read.
LEMMA ReadsStayBacked ==
    ASSUME TypeOK, References, NEW apart \in BOOLEAN, Evidence(apart),
           ProcessedKept, [Next]_vars
    PROVE  ReadsBacked(apart)'
  <1> SUFFICES ASSUME NEW w \in Workers, txn'[w].kind = "verify"
               PROVE  RowBacked(txn[w].payment, txn[w].read, apart)'
    BY DEF ReadsBacked
  <1>1. PICK p, row : p = txn'[w].payment /\ row = txn'[w].read
    OBVIOUS
  <1>2. RowBacked(p, row, apart)
    <2>1. CASE txn'[w] = txn[w]
      BY <1>1, <2>1 DEF Evidence, ReadsBacked
    <2>2. CASE txn'[w] = Idle
      BY <2>2 DEF Idle
    <2>3. ASSUME NEW e \in Events, BeginEvent(w, e)
          PROVE  FALSE
      <3>1. txn'[w] = [Idle EXCEPT !.kind = "event", !.event = e,
                              !.payment = events[e].payment,
                              !.read = payments[events[e].payment]]
        BY <2>3 DEF BeginEvent, TypeOK
      <3> QED BY <3>1 DEF Idle
    <2>4. ASSUME NEW c \in Cases, NEW q \in Payments,
                 NEW e \in Events \cup {NULL}, BeginVerify(w, c, q, e)
          PROVE  RowBacked(p, row, apart)
      <3>1. p = q /\ row = payments[q]
        BY <1>1, <2>4 DEF BeginVerify, TypeOK
      <3> QED BY <3>1 DEF Evidence, PaymentsBacked
    <2> QED BY <2>1, <2>2, <2>3, <2>4, WorkerSteps
  <1>3. RowBacked(p, row, apart)'
    BY <1>2, BackingKept
  <1> QED BY <1>1, <1>3 DEF RowBacked

\* An event session that stays open keeps what it knows of its payment.
LEMMA SessionsStayBacked ==
    ASSUME TypeOK, References, NEW apart \in BOOLEAN, Evidence(apart),
           apart \/ OneEventPerPayment, ProcessedKept, [Next]_vars
    PROVE  EventsBacked(apart)'
  <1> SUFFICES ASSUME NEW v \in Workers, txn'[v].kind = "event"
               PROVE  Stale(v)' /\ (apart \/ Fresh(v)')
    BY DEF EventsBacked, ProcessedKept
  <1>1. /\ txn \in [Workers -> Txn] /\ payments \in [Payments -> PaymentRow]
        /\ Idle.kind # "event"
    BY DEF TypeOK, Idle
  <1>2. ASSUME NEW e \in Events, BeginEvent(v, e)
        PROVE  Stale(v)' /\ Fresh(v)'
    <2>1. /\ txn'[v].payment = events[e].payment
          /\ txn'[v].read = payments[events[e].payment]
          /\ payments' = payments
      BY <1>1, <1>2 DEF BeginEvent, Idle
    <2> QED BY <2>1 DEF Stale, Fresh
  <1>3. ASSUME NEW c \in Cases, NEW q \in Payments,
               NEW e \in Events \cup {NULL}, BeginVerify(v, c, q, e)
        PROVE  FALSE
    BY <1>1, <1>3 DEF BeginVerify
  <1>4. CASE txn'[v] = txn[v]
    <2>1. PICK t \in Txn :
            /\ t = txn[v] /\ t = txn'[v] /\ t.kind = "event"
            /\ t.payment \in Payments
            /\ PaymentBlank(t.read)
            /\ t.read.status # "ABSENT" => payments[t.payment].status # "ABSENT"
            /\ Stale(v) /\ (apart \/ Fresh(v))
      BY <1>1, <1>4 DEF References, TxnReferences, EventReferences, Evidence,
                        EventsBacked
    <2>2. CASE payments'[t.payment] = payments[t.payment]
      BY <2>1, <2>2 DEF Stale, Fresh
    <2>3. ASSUME NEW w \in Workers, Writes(w), txn[w].payment = t.payment
          PROVE  apart /\ Stale(v)'
      <3>1. txn[w].kind = "event" /\ txn'[w] = Idle
        BY <1>1, <2>3 DEF Writes, CommitEvent
      <3>2. v # w
        BY <1>1, <3>1
      <3>3. apart
        BY <2>1, <2>3, <3>1, <3>2 DEF OneEventPerPayment
      <3>4. PICK left, row : /\ left = Written(w) /\ row = payments[t.payment]
                             /\ payments'[t.payment] = left
        BY <1>1, <2>1, <2>3 DEF Writes
      <3>5. Stale(w)
        BY <3>1 DEF Evidence, EventsBacked
      <3>6. /\ row.captured_at # NULL => left.captured_at # NULL
            /\ left.captured_at = NULL /\ row.status # "ABSENT" =>
                 left.amount = row.amount
        BY <2>3, <3>4, <3>5, WrittenRow
      <3>7. /\ t.read.captured_at # NULL => row.captured_at # NULL
            /\ t.read.status # "ABSENT" /\ row.captured_at = NULL =>
                 row.amount = t.read.amount
        BY <2>1, <3>4 DEF Stale
      <3>8. /\ t.read.captured_at # NULL => left.captured_at # NULL
            /\ t.read.status # "ABSENT" /\ left.captured_at = NULL =>
                 left.amount = t.read.amount
        BY <2>1, <3>4, <3>6, <3>7
      <3>9. Stale(v)'
        BY <2>1, <3>4, <3>8 DEF Stale
      <3> QED BY <3>3, <3>9
    <2>4. ASSUME NEW w \in Workers, Writes(w), txn[w].payment # t.payment
          PROVE  payments'[t.payment] = payments[t.payment]
      BY <1>1, <2>1, <2>4 DEF Writes
    <2>5. ASSUME Inserts(t.payment)
          PROVE  Stale(v)' /\ Fresh(v)'
      <3>1. t.read = NoPayment /\ payments'[t.payment].status # "ABSENT"
        BY <2>1, <2>5 DEF Inserts, PaymentBlank
      <3> QED BY <2>1, <3>1 DEF Stale, Fresh, NoPayment
    <2>6. ASSUME NEW q \in Payments, Inserts(q), q # t.payment
          PROVE  payments'[t.payment] = payments[t.payment]
      BY <2>1, <2>6 DEF Inserts
    <2> QED BY <2>2, <2>3, <2>4, <2>5, <2>6, PaymentWrites
  <1> QED BY <1>1, <1>2, <1>3, <1>4, WorkerSteps

\* A credit that is kept stays backed.
LEMMA CreditStaysBacked ==
    ASSUME ProcessedKept, NEW apart, NEW c \in Cases, CaseBacked(c, apart),
           SameCredit(c)
    PROVE  CaseBacked(c, apart)'
  <1>1. PICK by, amount, at :
          /\ by = cases[c].verified_by /\ by = cases'[c].verified_by
          /\ amount = cases[c].recovered /\ amount = cases'[c].recovered
          /\ at = cases[c].opened_at /\ at = cases'[c].opened_at
    BY DEF SameCredit
  <1>2. Made(by) => Made(by)'
    BY DEF ProcessedKept, Made
  <1>3. ASSUME NEW e \in Events, NEW f \in Events, Captures(by, e, f, apart)
        PROVE  /\ Captures(by, e, f, apart)'
               /\ events'[e] = events[e] /\ events'[f] = events[f]
    BY <1>3 DEF ProcessedKept, Captures, Capture
  <1> QED BY <1>1, <1>2, <1>3 DEF CaseBacked

\* So does a credit that is new: what was read was backed.
LEMMA CreditIsBacked ==
    ASSUME TypeOK, NEW apart, NEW c \in Cases, NEW t \in Txn, Counts(c, t),
           RowBacked(t.payment, t.read, apart)', cases'[c].recovered \in Nat
    PROVE  CaseBacked(c, apart)'
  <1>1. PICK at \in Nat, opened \in Nat :
          /\ at = t.read.captured_at
          /\ opened = cases[c].opened_at
          /\ cases'[c].opened_at = opened
          /\ opened <= at + Grace /\ at <= opened + Window
    BY DEF TypeOK, Counts, Credits, _inside_window, Txn, PaymentRow, CaseRow
  <1>2. opened - Grace <= at
    BY <1>1, TimeAssumption
  <1>3. at # NULL
    BY NullAssumption
  <1>4. CASE Made(t.payment)'
    BY <1>4 DEF CaseBacked, Counts
  <1>5. CASE ~Made(t.payment)'
    <2>1. PICK e, f \in Events : /\ Captures(t.payment, e, f, apart)'
                                 /\ events'[e].amount = t.read.amount
                                 /\ events'[f].at = at
      BY <1>1, <1>3, <1>5 DEF RowBacked
    <2>2. /\ events'[e].amount >= cases'[c].recovered
          /\ cases'[c].verified_by = t.payment
      BY <2>1 DEF Counts, Txn, PaymentRow
    <2> QED BY <1>1, <1>2, <2>1, <2>2 DEF CaseBacked
  <1> QED BY <1>4, <1>5

\* The cases stay backed.
LEMMA CasesStayBacked ==
    ASSUME TypeOK, References, TypeOK', NEW apart \in BOOLEAN, Evidence(apart),
           ProcessedKept, [Next]_vars
    PROVE  CasesBacked(apart)'
  <1>1. \A c \in Cases : CaseBacked(c, apart) /\ cases'[c].recovered \in Nat
    BY DEF Evidence, CasesBacked, TypeOK, CaseRow
  <1>2. CASE PlainStep
    BY <1>1, <1>2, PlainCredit, CreditStaysBacked DEF CasesBacked, CaseBacked
  <1>3. ASSUME NEW w \in Workers, NEW v \in Verdict, CommitVerify(w, v)
        PROVE  CasesBacked(apart)'
    <2>1. PICK t \in Txn, c \in Cases :
            /\ t = txn[w] /\ c = t.case
            /\ \A d \in Cases \ {c} : cases'[d] = cases[d]
            /\ SameCredit(c) \/ Counts(c, t)
      BY <1>3, VerifiedCredit DEF TypeOK
    <2>2. \A d \in Cases : SameCredit(d) => CaseBacked(d, apart)'
      BY <1>1, CreditStaysBacked
    <2>3. CASE Counts(c, t)
      <3>1. RowBacked(t.payment, t.read, apart)
        BY <1>3, <2>1 DEF CommitVerify, Evidence, ReadsBacked
      <3>2. RowBacked(t.payment, t.read, apart)'
        BY <3>1, BackingKept
      <3> QED BY <1>1, <2>1, <2>2, <2>3, <3>2, CreditIsBacked
              DEF CasesBacked, SameCredit
    <2>4. CASE SameCredit(c)
      BY <2>1, <2>2, <2>4 DEF CasesBacked, SameCredit
    <2> QED BY <2>1, <2>3, <2>4
  <1> QED BY <1>2, <1>3, PlainSteps

\* The empty tables owe no evidence.
LEMMA EvidenceInit ==
    ASSUME Init, NEW apart \in BOOLEAN
    PROVE  Evidence(apart)
  <1>1. \A w \in Workers : txn[w].kind = "idle"
    BY DEF Init, Idle
  <1>2. \A p \in Payments : payments[p].captured_at = NULL
    BY DEF Init, NoPayment
  <1>3. \A c \in Cases : cases[c].recovered = 0
    BY DEF Init, NoCase
  <1> QED BY <1>1, <1>2, <1>3
          DEF Evidence, EventsBacked, Processing, PaymentsBacked, ReadsBacked,
              CasesBacked, RowBacked, CaseBacked

\* Every step keeps the evidence: apart always, exact while no two events of a
\* payment are processed at once.
LEMMA EvidenceNext ==
    ASSUME TypeOK, References, NEW apart \in BOOLEAN, Evidence(apart),
           apart \/ OneEventPerPayment, [Next]_vars
    PROVE  Evidence(apart)'
  <1>1. ProcessedKept
    BY ProcessedStays DEF Evidence, EventsBacked
  <1>2. TypeOK'
    BY InvNext
  <1> QED BY <1>1, <1>2, SessionsStayBacked, PaymentsStayBacked,
             ReadsStayBacked, CasesStayBacked
          DEF Evidence

\* No revenue is credited without captures of the provider, however many
\* workers process events and verify cases, in whatever order and with
\* whatever rollbacks: process_webhook_event writes over a row that another
\* worker has changed since, and still no capture is forgotten and no amount
\* or time is invented.
THEOREM CreditCaptured == Spec => []CreditHasCaptures
  <1>1. Init => EvidenceApart
    BY EvidenceInit DEF EvidenceApart
  <1>2. TypeOK /\ References /\ EvidenceApart /\ [Next]_vars => EvidenceApart'
    BY EvidenceNext DEF EvidenceApart
  <1>3. EvidenceApart => CreditHasCaptures
    BY DEF EvidenceApart, Evidence, CasesBacked, CaseBacked, Captures,
           CreditHasCaptures
  <1> QED BY <1>1, <1>2, <1>3, Invariance, PTL DEF Spec

\* While no two events of a payment are processed at once, one capture backs a
\* row with both its amount and its time.
LEMMA ExactInvariance == Spec /\ []OneEventPerPayment => []EvidenceExact
  <1>1. Init => EvidenceExact
    BY EvidenceInit DEF EvidenceExact
  <1>2. TypeOK /\ References /\ EvidenceExact /\ OneEventPerPayment
          /\ [Next]_vars => EvidenceExact'
    BY EvidenceNext DEF EvidenceExact
  <1> QED BY <1>1, <1>2, Invariance, PTL DEF Spec

\* One capture backs both the amount and the time of a credit.
CreditHasEvidence ==
    \A c \in Cases :
      LET by == cases[c].verified_by IN
      cases[c].recovered > 0 =>
        \/ Made(by)
        \/ \E e \in Events : /\ Capture(by, e)
                            /\ events[e].amount >= cases[c].recovered
                            /\ cases[c].opened_at - Grace <= events[e].at
                            /\ events[e].at <= cases[c].opened_at + Window

\* Then a credited case has one processed capture of enough and in time.  With
\* two at once the amount may be of one and the time of another: the update
\* sets the columns that differ from what its session read.
THEOREM CreditEvidence ==
    Spec /\ []OneEventPerPayment => []CreditHasEvidence
  <1>1. EvidenceExact => CreditHasEvidence
    BY DEF EvidenceExact, Evidence, CasesBacked, CaseBacked, Captures,
           Capture, Made, CreditHasEvidence
  <1> QED BY <1>1, ExactInvariance, PTL

\* Nor is a captured payment set back then: _is_status_downgrade looks at the
\* row that is written.  The interleaving of two events of one payment is all
\* that the run CaptureDowngraded needs.
THEOREM CaptureStands ==
    Spec /\ []OneEventPerPayment => CapturedNotDowngraded
  <1>1. ASSUME TypeOK, References, EvidenceExact, [Next]_vars,
               NEW p \in Payments, payments[p].status = "CAPTURED"
        PROVE  payments'[p].status \in {"CAPTURED", "REFUNDED"}
    <2>1. ASSUME NEW w \in Workers, Writes(w)
          PROVE  payments'[p].status \in {"CAPTURED", "REFUNDED"}
      <3>1. payments \in [Payments -> PaymentRow]
        BY <1>1 DEF TypeOK
      <3>2. CASE txn[w].payment # p
        BY <1>1, <2>1, <3>1, <3>2 DEF Writes
      <3>3. CASE txn[w].payment = p
        <4>1. Fresh(w)
          BY <1>1, <2>1 DEF Writes, CommitEvent, EvidenceExact, Evidence,
                            EventsBacked
        <4>2. txn[w].read = payments[p]
          BY <1>1, <2>1, <3>3, <4>1 DEF Fresh, Writes
        <4>3. PICK ev : /\ ev = events[txn[w].event]
                        /\ ev.type \in EventTypes \ {"UNKNOWN"}
          BY <1>1, <2>1 DEF Writes, CommitEvent, References, TxnReferences,
                            EventReferences
        <4>4. SessionPayment(txn[w].read, ev).status
                \in {"CAPTURED", "REFUNDED"}
          BY <1>1, <4>2, <4>3, EventTypesAssumption
          DEF SessionPayment, _is_status_downgrade
        <4>5. Written(w).status \in {"CAPTURED", "REFUNDED"}
          BY <1>1, <3>3, <4>2, <4>3, <4>4 DEF Written, Flushed
        <4> QED BY <2>1, <3>1, <3>3, <4>5 DEF Writes
      <3> QED BY <3>2, <3>3
    <2>2. ASSUME NEW q \in Payments, Inserts(q)
          PROVE  payments'[p].status = "CAPTURED"
      BY <1>1, <2>2 DEF Inserts
    <2> QED BY <1>1, <2>1, <2>2, PaymentWrites
  <1>2. TypeOK /\ References /\ EvidenceExact /\ [Next]_vars =>
          [\A p \in Payments : payments[p].status = "CAPTURED" =>
             payments'[p].status \in {"CAPTURED", "REFUNDED"}]_vars
    BY <1>1
  <1> QED BY <1>2, ExactInvariance, Invariance, PTL
          DEF Spec, CapturedNotDowngraded

-----------------------------------------------------------------------------
(* A payment counts once *)

\* What one step does to the credit of a case: keep it, start it, or count the
\* payment of the verification that commits.
LEMMA CreditSteps ==
    ASSUME TypeOK, References, [Next]_vars, NEW c \in Cases
    PROVE  \/ SameCredit(c)
           \/ cases'[c].recovered = 0 /\ cases'[c].verified_by = NULL
           \/ \E w \in Workers : /\ txn[w].kind = "verify"
                                 /\ txn'[w] = Idle
                                 /\ txn[w].case = c
                                 /\ Counts(c, txn[w])
                                 /\ \A d \in Cases \ {c} :
                                      cases'[d] = cases[d]
  <1>1. ASSUME NEW w \in Workers, NEW v \in Verdict, CommitVerify(w, v)
        PROVE  \/ SameCredit(c)
               \/ /\ txn[w].kind = "verify"
                  /\ txn'[w] = Idle
                  /\ txn[w].case = c
                  /\ Counts(c, txn[w])
                  /\ \A d \in Cases \ {c} : cases'[d] = cases[d]
    <2>1. txn[w].kind = "verify" /\ txn'[w] = Idle
      BY <1>1 DEF CommitVerify, TypeOK
    <2> QED BY <1>1, <2>1, VerifiedCredit DEF SameCredit
  <1> QED BY <1>1, PlainSteps, PlainCredit

\* A verification that found its payment uncounted is not overtaken by
\* another, if it is the only one of the payment.
LEMMA UncountedNext ==
    ASSUME TypeOK, References, StillUncounted, OneVerifyPerPayment,
           [Next]_vars
    PROVE  StillUncounted'
  <1> SUFFICES ASSUME NEW w \in Workers, txn'[w].kind = "verify",
                      txn'[w].seen = {},
                      NEW d \in Cases \ {txn'[w].case},
                      cases'[d].verified_by = txn'[w].payment,
                      cases'[d].recovered > 0
               PROVE  FALSE
    BY DEF StillUncounted, CountedElsewhere
  <1>1. txn \in [Workers -> Txn] /\ Idle.kind # "verify"
    BY DEF TypeOK, Idle
  <1>2. CASE txn'[w] = txn[w]
    <2>1. ~(cases[d].verified_by = txn[w].payment /\ cases[d].recovered > 0)
      BY <1>2 DEF StillUncounted, CountedElsewhere
    <2>2. ~SameCredit(d)
      BY <1>2, <2>1 DEF SameCredit
    <2>3. ASSUME NEW v \in Workers, txn[v].kind = "verify", txn'[v] = Idle,
                 Counts(d, txn[v])
          PROVE  FALSE
      <3>1. txn[v].payment = txn[w].payment
        BY <1>2, <2>3 DEF Counts
      <3>2. v = w
        BY <1>2, <2>3, <3>1 DEF OneVerifyPerPayment
      <3> QED BY <1>1, <2>3, <3>2
    <2> QED BY <2>2, <2>3, CreditSteps
  <1>3. ASSUME NEW e \in Events, BeginEvent(w, e)
        PROVE  FALSE
    BY <1>1, <1>3 DEF BeginEvent, Idle
  <1>4. ASSUME NEW c \in Cases, NEW p \in Payments,
               NEW e \in Events \cup {NULL}, BeginVerify(w, c, p, e)
        PROVE  FALSE
    BY <1>1, <1>4 DEF BeginVerify, CountedElsewhere
  <1> QED BY <1>1, <1>2, <1>3, <1>4, WorkerSteps

\* A payment counts towards one case while no two verifications of it are open
\* at once: _duplicate_or_already_counted reads the other cases unlocked, and
\* the interleaving of two verifications of one payment is all that the run
\* CountedTwice needs.
THEOREM CountedOnce ==
    Spec /\ []OneVerifyPerPayment => []CountedOnOneCase
  <1>1. Init => StillUncounted /\ CountedOnOneCase
    BY DEF Init, StillUncounted, CountedOnOneCase, Idle, NoCase
  <1>2. ASSUME TypeOK, References, StillUncounted, CountedOnOneCase,
               [Next]_vars
        PROVE  CountedOnOneCase'
    <2> SUFFICES ASSUME NEW c \in Cases, NEW d \in Cases, c # d,
                        cases'[c].verified_by # NULL,
                        cases'[c].verified_by = cases'[d].verified_by,
                        cases'[c].recovered # 0, cases'[d].recovered # 0
                 PROVE  FALSE
      BY DEF CountedOnOneCase
    <2>1. ASSUME NEW a \in Cases, NEW b \in Cases, a # b,
                 cases'[a].verified_by = cases'[b].verified_by,
                 cases'[b].recovered # 0,
                 NEW w \in Workers, txn[w].kind = "verify", txn[w].case = a,
                 Counts(a, txn[w]), cases'[b] = cases[b]
          PROVE  FALSE
      <3>1. cases[b].recovered > 0
        BY <1>2, <2>1 DEF TypeOK, CaseRow
      <3>2. b \in CountedElsewhere(a, txn[w].payment)
        BY <2>1, <3>1 DEF CountedElsewhere, Counts
      <3> QED BY <1>2, <2>1, <3>2 DEF StillUncounted, Counts
    <2>2. SameCredit(c) /\ SameCredit(d) => FALSE
      BY <1>2 DEF CountedOnOneCase, SameCredit
    <2>3. SameCredit(c) /\ SameCredit(d)
      BY <1>2, <2>1, CreditSteps
    <2> QED BY <2>2, <2>3
  <1>3. TypeOK /\ References /\ StillUncounted /\ CountedOnOneCase
          /\ OneVerifyPerPayment /\ [Next]_vars
        => StillUncounted' /\ CountedOnOneCase'
    BY <1>2, UncountedNext
  <1> QED BY <1>1, <1>3, Invariance, PTL DEF Spec

\* With one worker nothing is interleaved: both hold outright, for any number
\* of payments, cases and events, redeliveries and rollbacks.
THEOREM OneWorker ==
    ASSUME \A v, w \in Workers : v = w
    PROVE  Spec => /\ [](CreditHasEvidence /\ CountedOnOneCase)
                   /\ CapturedNotDowngraded
  <1>1. OneEventPerPayment /\ OneVerifyPerPayment
    BY DEF OneEventPerPayment, OneVerifyPerPayment
  <1> QED BY <1>1, CreditEvidence, CountedOnce, CaptureStands, PTL

-----------------------------------------------------------------------------
(* A capture reaches its case *)

\* Only a webhook transaction opens a case.
LEMMA OnlyEventsOpen ==
    ASSUME TypeOK, References, [Next]_vars, NEW c \in Cases,
           cases[c].status = "ABSENT",
           \A w \in Workers : ~CommitEvent(w)
    PROVE  cases'[c] = cases[c]
  <1>1. ASSUME NEW d \in Cases, NEW row, cases[d].status # "ABSENT",
               cases' = [cases EXCEPT ![d] = row]
        PROVE  cases'[c] = cases[c]
    BY <1>1 DEF TypeOK
  <1>2. CASE UNCHANGED cases
    BY <1>2
  <1>3. ASSUME NEW d \in Cases, NEW v \in Verdict, Process(d, v)
        PROVE  cases'[c] = cases[c]
    BY <1>1, <1>3, WalkIs DEF Process, SetStatus
  <1>4. ASSUME NEW d \in Cases, NEW approved \in BOOLEAN,
               NEW o \in ToolOutcome, ToolRuns(d, approved, o)
        PROVE  cases'[c] = cases[c]
    <2>1. Moves(d)
      BY <1>4, ToolMoves
    <2> QED BY <1>1, <2>1 DEF Moves, Working, CaseStatus
  <1>5. ASSUME NEW d \in Cases, NEW stop \in CaseStatus, AgentRun(d, stop)
        PROVE  cases'[c] = cases[c]
    BY <1>1, <1>5, WalkIs DEF AgentRun, SetStatus
  <1>6. ASSUME NEW w \in Workers, NEW v \in Verdict, CommitVerify(w, v)
        PROVE  cases'[c] = cases[c]
    <2>1. txn[w].case \in Cases /\ cases[txn[w].case].status # "ABSENT"
      BY <1>6 DEF CommitVerify, References, TxnReferences
    <2> QED BY <1>1, <1>6, <2>1 DEF CommitVerify
  <1>7. CASE Actions
    BY <1>1, <1>4, <1>5, <1>7
    DEF Actions, ExecuteTool, RetryPayment, RejectApproval, SetStatus,
        ToolOutcome
  <1>8. CASE Webhooks
    BY <1>2, <1>8 DEF Webhooks, Receive, BeginEvent, AbortEvent
  <1>9. CASE Verifications
    BY <1>2, <1>6, <1>9 DEF Verifications, BeginVerify, AbortVerify
  <1> QED BY <1>2, <1>3, <1>7, <1>8, <1>9 DEF Next, vars, Tick

\* A case that is open after a step, and was there before it, was open and had
\* its payment.
LEMMA OpenCaseKept ==
    ASSUME TypeOK, References, OneOpenCasePerPayment, [Next]_vars,
           NEW c \in Cases, cases[c].status # "ABSENT",
           cases'[c].closed_at = NULL
    PROVE  cases[c].closed_at = NULL /\ cases'[c].payment = cases[c].payment
  <1>1. OneRowStep
    BY CaseSteps, OneRowSteps
  <1>2. CASE cases'[c] = cases[c]
    BY <1>2
  <1>3. CASE cases'[c] # cases[c]
    <2>1. RowStep(c)
      BY <1>1, <1>3 DEF OneRowStep
    <2>2. Working(cases[c]) /\ cases'[c].payment = cases[c].payment
      BY <1>3, <2>1 DEF RowStep
    <2>3. cases[c].closed_at = NULL
      BY <2>2 DEF OneOpenCasePerPayment, Working, is_terminal, CaseStatus
    <2> QED BY <2>2, <2>3
  <1> QED BY <1>2, <1>3

\* What a session writes is CAPTURED for a capture, or where the row was.
LEMMA WrittenCaptured ==
    ASSUME NEW w \in Workers, Written(w).status = "CAPTURED",
           events[txn[w].event].type # "CAPTURED"
    PROVE  /\ payments[txn[w].payment].status = "CAPTURED"
           /\ \/ SessionPayment(txn[w].read, events[txn[w].event]).status
                   = "CAPTURED"
              \/ txn[w].read.status # "CAPTURED"
  BY DEF Written, Flushed, SessionPayment

\* A step by which an open case becomes one with a captured payment queues its
\* verification, but for a failure that works on a row it read before.
LEMMA CaptureReaches ==
    ASSUME TypeOK, References, OneOpenCasePerPayment, BlankClosed,
           [Next]_vars, NEW c \in Cases, ~CapturedCase(c), CapturedCase(c)'
    PROVE  \/ Queued(c)'
           \/ \E w \in Workers :
                LET t == txn[w] IN
                /\ t.kind = "event" /\ txn'[w] = Idle
                /\ events[t.event].type = "FAILED"
                /\ t.read.status # payments[t.payment].status
  <1> DEFINE own == cases'[c].payment
  <1>1. /\ payments \in [Payments -> PaymentRow]
        /\ txn \in [Workers -> Txn]
        /\ cases \in [Cases -> CaseRow]
    BY DEF TypeOK
  <1>2. cases'[c].closed_at = NULL /\ payments'[own].status = "CAPTURED"
    BY DEF CapturedCase
  <1>3. ASSUME cases[c].status # "ABSENT"
        PROVE  /\ cases[c].closed_at = NULL /\ cases[c].payment = own
               /\ own \in Payments
               /\ payments[own].status \notin {"ABSENT", "CAPTURED"}
    BY <1>2, <1>3, OpenCaseKept DEF CapturedCase, References, CaseReferences
  <1>4. ASSUME NEW w \in Workers, Writes(w), cases[c].status # "ABSENT"
        PROVE  Queued(c)'
    <2> DEFINE p == txn[w].payment
               e == txn[w].event
    <2>1. p = own
      BY <1>1, <1>2, <1>3, <1>4 DEF Writes
    <2>2. Written(w).status = "CAPTURED"
      BY <1>1, <1>2, <1>4, <2>1 DEF Writes
    <2>3. events[e].type = "CAPTURED"
      BY <1>3, <1>4, <2>1, <2>2, WrittenCaptured
    <2>4. _handle_payment_captured(e, p, txn[w].seen)
      BY <1>4, <2>3 DEF Writes, CommitEvent
    <2>5. c \in OpenForPayment(p)
      BY <1>3, <1>4, <2>1 DEF OpenForPayment
    <2>6. [case |-> c, payment |-> p, event |-> e] \in jobs'
      BY <2>4, <2>5 DEF _handle_payment_captured, VerifyJobs
    <2> QED BY <2>1, <2>6 DEF Queued
  <1>5. ASSUME cases[c].status # "ABSENT"
        PROVE  Queued(c)'
    <2>1. ~UNCHANGED payments
      BY <1>2, <1>3, <1>5
    <2>2. ASSUME NEW q \in Payments, Inserts(q)
          PROVE  FALSE
      BY <1>2, <1>3, <1>5, <2>2 DEF Inserts
    <2> QED BY <1>4, <1>5, <2>1, <2>2, PaymentWrites
  <1>6. CASE cases[c].status = "ABSENT"
    <2>1. cases'[c] # cases[c]
      BY <1>2, <1>6 DEF BlankClosed
    <2>2. PICK w \in Workers : CommitEvent(w)
      BY <1>6, <2>1, OnlyEventsOpen
    <2> DEFINE t == txn[w]
               ev == events[t.event]
               new == SessionPayment(t.read, ev)
    <2>3. /\ t.kind = "event" /\ txn'[w] = Idle
          /\ t.payment \in Payments
      BY <1>1, <2>2 DEF CommitEvent, References, TxnReferences,
                        EventReferences
    <2>4. ev.type = "FAILED" /\ OpenOrAttach(t.event, t.payment, new, t.seen)
      BY <2>1, <2>2 DEF CommitEvent, _handle_payment_captured,
                        _handle_payment_status
    <2> HIDE DEF new
    <2>5. PICK d \in Cases :
             /\ cases' = [cases EXCEPT ![d] = NewCase(t.payment, new.amount)]
             /\ VerifyIfCaptured(new.status) =>
                  [case |-> d, payment |-> t.payment, event |-> t.event]
                     \in jobs'
      BY <2>1, <2>4 DEF OpenOrAttach, VerifyJobs
    <2>6. d = c /\ own = t.payment
      BY <1>1, <2>1, <2>5 DEF NewCase, NoCase
    <2>7. CASE new.status = "CAPTURED"
      BY <2>5, <2>6, <2>7 DEF VerifyIfCaptured, Queued
    <2>8. CASE new.status # "CAPTURED"
      <3>1. payments' = [payments EXCEPT ![t.payment] = Written(w)]
        BY <2>2, <2>4 DEF CommitEvent, UnknownDomainEvent, Written
      <3>2. Written(w).status = "CAPTURED"
        BY <1>1, <1>2, <2>3, <2>6, <3>1
      <3>3. /\ payments[t.payment].status = "CAPTURED"
            /\ t.read.status # "CAPTURED"
        BY <2>4, <2>8, <3>2, WrittenCaptured DEF new
      <3> QED BY <2>3, <2>4, <3>3
    <2> QED BY <2>7, <2>8
  <1> QED BY <1>5, <1>6

\* In whichever order the failure and the capture of a payment are processed,
\* and by however many workers, a verification of the open case is queued; the
\* only exception is a failure that read the payment before the capture.
THEOREM CaptureQueued == Spec => CaptureReachesCase
  <1>1. TypeOK /\ References /\ OneOpenCasePerPayment /\ BlankClosed
          /\ [Next]_vars =>
        [\A c \in Cases :
           ~CapturedCase(c) /\ CapturedCase(c)' =>
             \/ Queued(c)'
             \/ \E w \in Workers :
                  LET t == txn[w] IN
                  /\ t.kind = "event" /\ txn'[w] = Idle
                  /\ events[t.event].type = "FAILED"
                  /\ t.read.status # payments[t.payment].status]_vars
    BY CaptureReaches
  <1> QED BY <1>1, OpenCaseInvariance, Invariance, PTL
          DEF Spec, CaptureReachesCase
=============================================================================
