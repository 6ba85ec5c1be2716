-------------------------- MODULE ToolLimitsProofs --------------------------
(***************************************************************************)
(* Proofs that the limits of the policy hold across runs: retries of a     *)
(* case, reminders to the customer, and the daily discount budget.         *)
(*                                                                         *)
(* The policy counts rows, and the rows are not the history: a run may     *)
(* write the row of another key, an approval rewrites a row, and a         *)
(* rejection cancels one.  The inductive invariant says what the row of a  *)
(* key still tells of that key as long as no other key has written it, and *)
(* what an open run has read of the rows it counted.                       *)
(***************************************************************************)
EXTENDS ToolExecutionProofs, SumTheorems

-----------------------------------------------------------------------------
(* The inductive invariant *)

\* What the row of a key tells of the key, while only the key has written it.
OwnRow(k) == k \notin reused /\ actions[k].status # "ABSENT"
HistoryOK(k) ==
    /\ OwnRow(k) =>
         /\ actions[k].created <= clock
         /\ k \in Planned \/ keys[k].result # NULL
         /\ actions[k].request # NULL =>
              actions[k].type = actions[k].request.action
         /\ effects[k] > 0 => actions[k].type = last[k].request.action
         /\ keys[k].result \notin Final =>
              /\ actions[k].status # "SUCCEEDED"
              /\ actions[k].amount = AtRisk[CaseOf[k]]
    /\ k \in Planned /\ actions[k].status = "ABSENT" =>
         keys[k].result \notin Final

\* An open run goes by a policy that was in force.  A run without approval is
\* the first that its key has come this far with.
ReadOK(x) ==
    /\ x.settings \in Configured
    /\ ~x.approved => x.key \notin Planned /\ keys[x.key].result = NULL

\* What the run counted left room for its effect; an approved discount has
\* counted its own row, if that was created today.
RoomOK(x) ==
    LET c == CaseOf[x.key]
        row == actions[x.row]
    IN  /\ x.request.action \in RETRY_ACTIONS =>
             _retry_count(c) < x.settings.max_retry_attempts
        /\ x.request.action = "SEND_REMINDER" =>
             Cardinality(x.notified) < x.settings.max_communications_per_day
        /\ x.request.action = "OFFER_DISCOUNT" =>
             SumFunctionOnSet(x.offers, Keys) * 100
                + AtRisk[c] * x.request.percent
               <= x.settings.max_daily_discount_budget * 100
        /\ /\ x.approved
           /\ row.type = "OFFER_DISCOUNT"
           /\ row.created \div Day = clock \div Day
           => x.offers[x.row] = row.amount

CountsOK(x) == ReadOK(x) /\ (TakesEffect(x) => RoomOK(x))

HistoriesOK == \A k \in Keys : HistoryOK(k)
OpenOK == \A t \in Threads : txn[t] # NULL => CountsOK(txn[t])
InForce == settings \in Configured

LimitInv == /\ IndInv
            /\ InForce
            /\ HistoriesOK
            /\ OpenOK
            /\ RetriesWithinLimit
            /\ RemindersWithinLimit
            /\ DiscountsWithinBudget
            /\ ApprovedDiscountWaitsForMidnight

-----------------------------------------------------------------------------
(* Arithmetic and sizes *)

\* Days are counted in order.
LEMMA DaysInOrder ==
    ASSUME NEW m \in Nat, NEW n \in Nat, m <= n
    PROVE  m \div Day <= n \div Day
  BY BoundsAssumption

\* Rounding does not go over a limit that is in the quantum (as_money).
LEMMA RoundedFits ==
    ASSUME NEW n \in Nat, NEW spent \in Nat, NEW limit \in Nat,
           spent * 100 + n <= limit * 100
    PROVE  spent + as_money(n) <= limit
  BY DEF as_money

\* A smaller set has no more members.
LEMMA NoMore ==
    ASSUME NEW S \in SUBSET Keys, NEW U \in SUBSET S
    PROVE  /\ IsFiniteSet(S)
           /\ Cardinality(S) \in Nat
           /\ Cardinality(U) \in Nat
           /\ Cardinality(U) <= Cardinality(S)
  <1>1. IsFiniteSet(S)
    BY FiniteAssumption, FS_Subset
  <1>2. IsFiniteSet(U) /\ Cardinality(U) <= Cardinality(S)
    BY <1>1, FS_Subset
  <1> QED BY <1>1, <1>2, FS_CardinalityType

\* A set of keys grows by one at most when a key is put in.
LEMMA OneMore ==
    ASSUME NEW S \in SUBSET Keys, NEW k
    PROVE  /\ Cardinality(S) \in Nat
           /\ Cardinality(S \cup {k}) <= Cardinality(S) + 1
  <1>1. IsFiniteSet(S) /\ Cardinality(S) \in Nat
    BY NoMore
  <1>2. \/ Cardinality(S \cup {k}) = Cardinality(S)
        \/ Cardinality(S \cup {k}) = Cardinality(S) + 1
    BY <1>1, FS_AddElement
  <1> QED BY <1>1, <1>2

\* The rows _retry_count counts.
CountedRows(c) == {k \in Keys : /\ CaseOf[k] = c
                                /\ actions[k].type \in RETRY_ACTIONS
                                /\ actions[k].status \in Counted}

\* _retry_count is the number of the rows it counts.
LEMMA RetryCount ==
    ASSUME NEW c
    PROVE  /\ _retry_count(c) = Cardinality(CountedRows(c))
           /\ _retry_count(c) \in Nat
           /\ CountedRows(c) \in SUBSET Keys
  <1>1. CountedRows(c) \in SUBSET Keys
    BY DEF CountedRows
  <1>2. _retry_count(c) = Cardinality(CountedRows(c))
    BY DEF _retry_count, CountedRows
  <1> QED BY <1>1, <1>2, NoMore

\* Every policy that was in force has the settings it should have.
LEMMA ConfiguredAreSettings == Configured \subseteq Settings
  BY SettingsAssumption DEF Configured
-----------------------------------------------------------------------------
(* Steps that add nothing to what is counted *)

\* RetriesWithinLimit of one case.
RetriesFit(c) ==
    \E s \in Configured :
      Cardinality(Retried(c)) <=
        IF /\ \E a \in RETRY_ACTIONS : NeedsApproval(s, AtRisk[c], a)
           /\ s.max_retry_attempts > 0
        THEN s.max_retry_attempts - 1
        ELSE s.max_retry_attempts

\* The retries of a case do not become more than they may be by losing one.
LEMMA RetriesShrink ==
    ASSUME NEW c \in Cases, RetriesFit(c), Retried(c)' \subseteq Retried(c)
    PROVE  RetriesFit(c)'
  <1>1. PICK s \in Configured :
          Cardinality(Retried(c)) <=
            IF /\ \E a \in RETRY_ACTIONS : NeedsApproval(s, AtRisk[c], a)
               /\ s.max_retry_attempts > 0
            THEN s.max_retry_attempts - 1
            ELSE s.max_retry_attempts
    BY DEF RetriesFit
  <1> DEFINE limit ==
               IF /\ \E a \in RETRY_ACTIONS : NeedsApproval(s, AtRisk[c], a)
                  /\ s.max_retry_attempts > 0
               THEN s.max_retry_attempts - 1
               ELSE s.max_retry_attempts
  <1>2. limit \in Int
    BY ConfiguredAreSettings DEF Settings
  <1>3. Retried(c) \in SUBSET Keys /\ Retried(c)' \in SUBSET Retried(c)
    BY DEF Retried
  <1>4. /\ Cardinality(Retried(c)') \in Nat
        /\ Cardinality(Retried(c)) \in Nat
        /\ Cardinality(Retried(c)') <= Cardinality(Retried(c))
    BY <1>3, NoMore
  <1>5. Cardinality(Retried(c)') <= limit
    <2> HIDE DEF limit
    <2>1. Cardinality(Retried(c)) <= limit
      BY <1>1 DEF limit
    <2> QED BY <1>2, <1>4, <2>1
  <1> QED BY <1>5 DEF RetriesFit

\* Nor does the discount of a day by losing offers.
LEMMA BudgetShrinks ==
    ASSUME TypeOK, TypeOK', NEW d, NEW limit \in Nat,
           OfferedOn(d)' \subseteq OfferedOn(d),
           \A k \in OfferedOn(d)' : actions'[k].amount = actions[k].amount,
           SumFunctionOnSet(Amounts, OfferedOn(d)) <= limit
    PROVE  SumFunctionOnSet(Amounts', OfferedOn(d)') <= limit
  <1>1. /\ Amounts \in [Keys -> Nat]
        /\ Amounts' \in [Keys -> Nat]
    BY DEF Amounts, TypeOK, ActionRow
  <1>2. /\ OfferedOn(d) \in SUBSET Keys
        /\ OfferedOn(d)' \in SUBSET (Keys \cap OfferedOn(d))
    BY DEF OfferedOn
  <1>3. \A k \in OfferedOn(d)' : Amounts'[k] <= Amounts[k]
    <2>1. ASSUME NEW k \in OfferedOn(d)'
          PROVE  Amounts'[k] <= Amounts[k]
      <3>1. k \in Keys
        BY <1>2
      <3>2. Amounts'[k] = Amounts[k] /\ Amounts[k] \in Nat
        BY <1>1, <3>1 DEF Amounts
      <3> QED BY <3>2
    <2> QED BY <2>1
  <1>4. IsFiniteSet(OfferedOn(d))
    BY <1>2, NoMore
  <1>5. SumFunctionOnSet(Amounts', OfferedOn(d)')
          <= SumFunctionOnSet(Amounts, OfferedOn(d))
    <2>1. Amounts' \in [Keys -> Int]
      BY <1>1
    <2> QED BY <1>1, <1>2, <1>3, <1>4, <2>1, SumMonotone
  <1>6. /\ SumFunctionOnSet(Amounts, OfferedOn(d)) \in Nat
        /\ SumFunctionOnSet(Amounts', OfferedOn(d)') \in Nat
    <2>1. IsFiniteSet(OfferedOn(d)')
      BY <1>2, <1>4, FS_Subset
    <2> QED BY <1>1, <1>2, <1>4, <2>1, SumOfNats
  <1> QED BY <1>5, <1>6

\* A step that offers nothing new keeps the budget.
LEMMA DiscountsShrink ==
    ASSUME TypeOK, TypeOK', DiscountsWithinBudget,
           overlapped \subseteq overlapped',
           \A d \in Nat : /\ OfferedOn(d)' \subseteq OfferedOn(d)
                          /\ \A k \in OfferedOn(d)' :
                               actions'[k].amount = actions[k].amount
    PROVE  DiscountsWithinBudget'
  <1> SUFFICES ASSUME "discount" \notin overlapped',
                      NEW d \in 0..(MaxTime \div Day)
               PROVE  \E s \in Configured :
                        SumFunctionOnSet(Amounts', OfferedOn(d)')
                          <= s.max_daily_discount_budget
    BY DEF DiscountsWithinBudget
  <1>1. PICK s \in Configured :
          SumFunctionOnSet(Amounts, OfferedOn(d))
            <= s.max_daily_discount_budget
    BY DEF DiscountsWithinBudget
  <1>2. s.max_daily_discount_budget \in Nat
    BY ConfiguredAreSettings DEF Settings
  <1>3. d \in Nat
    OBVIOUS
  <1>4. SumFunctionOnSet(Amounts', OfferedOn(d)')
          <= s.max_daily_discount_budget
    BY <1>1, <1>2, <1>3, BudgetShrinks
  <1> QED BY <1>4

\* The runs that a step on another case leaves open still know what they
\* counted.
LEMMA OpenCounts ==
    ASSUME IndInv, OpenOK, NEW c \in Cases, Elsewhere(c), Leaves(c)
    PROVE  OpenOK'
  <1> SUFFICES ASSUME NEW t \in Threads, (txn[t] # NULL)'
               PROVE  CountsOK(txn[t])'
    BY DEF OpenOK
  <1>1. PICK x \in Txn : /\ txn[t] = x
                         /\ txn'[t] = x
                         /\ CaseOf[x.key] # c
                         /\ RunOK(x)
                         /\ CountsOK(x)
    BY DEF Leaves, IndInv, TypeOK, RunsOK, OpenOK
  <1>2. PICK d \in Cases : d = CaseOf[x.key] /\ d # c
    BY <1>1, KeysAssumption DEF Txn
  <1>3. /\ x.key \in Keys
        /\ x.row \in Keys
        /\ CaseOf[x.row] = d
    BY <1>1, <1>2 DEF Txn, RunOK, Locked
  <1>4. /\ clock' = clock
        /\ keys'[x.key] = keys[x.key]
        /\ actions'[x.row] = actions[x.row]
        /\ \A k \in Keys : CaseOf[k] = d => actions'[k] = actions[k]
    BY <1>2, <1>3 DEF Elsewhere
  <1>5. _retry_count(d)' = _retry_count(d)
    <2>1. CountedRows(d)' = CountedRows(d)
      BY <1>4 DEF CountedRows
    <2> QED BY <2>1 DEF _retry_count, CountedRows
  <1>6. ReadOK(x)'
    BY <1>1, <1>4 DEF CountsOK, ReadOK
  <1>7. RoomOK(x) => RoomOK(x)'
    BY <1>2, <1>4, <1>5 DEF RoomOK
  <1>8. CountsOK(x)'
    BY <1>1, <1>6, <1>7 DEF CountsOK, TakesEffect
  <1> QED BY <1>1, <1>8

\* The row of a key is left alone, or marked, or planned.
KeepsRow(k) ==
    \/ actions'[k] = actions[k]
    \/ /\ actions[k].status # "ABSENT"
       /\ actions'[k].status \in {actions[k].status, "APPROVED", "CANCELLED"}
       /\ actions'[k].type = actions[k].type
       /\ actions'[k].amount = actions[k].amount
       /\ actions'[k].created = actions[k].created
       /\ actions'[k].request = actions[k].request
    \/ /\ k \in Planned
       /\ actions[k].status = "ABSENT"
       /\ actions'[k].status \notin {"ABSENT", "SUCCEEDED"}
       /\ actions'[k].created = clock
       /\ actions'[k].amount = AtRisk[CaseOf[k]]
       /\ actions'[k].request # NULL =>
            actions'[k].type = actions'[k].request.action

\* A step on the rows of one case that takes no effect.
Quiet(c) ==
    /\ Elsewhere(c)
    /\ Leaves(c)
    /\ UNCHANGED <<policy, notifications, effects, last, reused, overlapped>>
    /\ \A k \in Keys : keys'[k].result = keys[k].result /\ KeepsRow(k)

\* A quiet step keeps every limit.
LEMMA QuietStep ==
    ASSUME LimitInv, IndInv', NEW c \in Cases, Quiet(c)
    PROVE  LimitInv'
  <1> USE DEF LimitInv
  <1>1. /\ clock' = clock
        /\ UNCHANGED <<policy, notifications, effects, last, reused,
                       overlapped>>
        /\ \A k \in Keys : keys'[k].result = keys[k].result /\ KeepsRow(k)
        /\ clock \in Nat
        /\ effects \in [Keys -> Nat]
    BY DEF Quiet, Elsewhere, IndInv, TypeOK
  <1>2. InForce'
    BY <1>1 DEF InForce, settings
  <1>3. \A k \in Keys : k \in Planned /\ actions[k].status = "ABSENT" =>
                          effects[k] = 0
    BY DEF HistoriesOK, HistoryOK, IndInv, KeysOK, KeyOK
  <1>4. HistoriesOK'
    <2> SUFFICES ASSUME NEW k \in Keys
                 PROVE  HistoryOK(k)'
      BY DEF HistoriesOK
    <2>1. HistoryOK(k) /\ KeepsRow(k)
      BY <1>1 DEF HistoriesOK
    <2>2. CASE actions'[k] = actions[k]
      BY <1>1, <2>1, <2>2 DEF HistoryOK, OwnRow
    <2>3. CASE /\ actions[k].status # "ABSENT"
               /\ actions'[k].status \in {actions[k].status, "APPROVED",
                                          "CANCELLED"}
               /\ actions'[k].type = actions[k].type
               /\ actions'[k].amount = actions[k].amount
               /\ actions'[k].created = actions[k].created
               /\ actions'[k].request = actions[k].request
      BY <1>1, <2>1, <2>3 DEF HistoryOK, OwnRow
    <2>4. CASE /\ k \in Planned
               /\ actions[k].status = "ABSENT"
               /\ actions'[k].status \notin {"ABSENT", "SUCCEEDED"}
               /\ actions'[k].created = clock
               /\ actions'[k].amount = AtRisk[CaseOf[k]]
               /\ actions'[k].request # NULL =>
                    actions'[k].type = actions'[k].request.action
      BY <1>1, <1>3, <2>1, <2>4 DEF HistoryOK, OwnRow
    <2> QED BY <2>1, <2>2, <2>3, <2>4 DEF KeepsRow
  <1>5. OpenOK'
    BY OpenCounts DEF Quiet
  <1>6. \A k \in Keys :
          /\ actions'[k].status = "SUCCEEDED" =>
               /\ actions[k].status = "SUCCEEDED"
               /\ actions'[k].created = actions[k].created
               /\ actions'[k].amount = actions[k].amount
          /\ actions'[k].created = actions[k].created \/ effects[k] = 0
    BY <1>1, <1>3 DEF KeepsRow
  <1>7. RetriesWithinLimit'
    <2>1. ASSUME NEW d \in Cases
          PROVE  RetriesFit(d)'
      <3>1. Retried(d)' \subseteq Retried(d)
        BY <1>1, <1>6 DEF Retried, TookEffect
      <3> QED BY <3>1, RetriesShrink DEF RetriesWithinLimit, RetriesFit
    <2> QED BY <2>1 DEF RetriesWithinLimit, RetriesFit
  <1>8. RemindersWithinLimit'
    BY <1>1 DEF RemindersWithinLimit, _communications_last_24h, Notified
  <1>9. DiscountsWithinBudget'
    <2>1. ASSUME NEW d \in Nat
          PROVE  /\ OfferedOn(d)' \subseteq OfferedOn(d)
                 /\ \A k \in OfferedOn(d)' :
                      actions'[k].amount = actions[k].amount
      BY <1>1, <1>6 DEF OfferedOn, TookEffect
    <2> QED BY <1>1, <2>1, DiscountsShrink DEF IndInv
  <1>10. ApprovedDiscountWaitsForMidnight'
    BY <1>1, <1>6 DEF ApprovedDiscountWaitsForMidnight, TookEffect
  <1> QED BY <1>2, <1>4, <1>5, <1>7, <1>8, <1>9, <1>10

\* Moving a case on, or deciding on an approval, adds nothing.
LEMMA MoveQuiet ==
    ASSUME TypeOK, NEW c \in Cases, NEW to, Unlocked(c),
           cases' = [cases EXCEPT ![c].status = to],
           UNCHANGED <<clock, policy, actions, keys, approvals,
                       notifications, txn, effects, last, calls, lost,
                       reused, overlapped>>
    PROVE  Quiet(c)
  <1>1. Elsewhere(c)
    BY DEF Elsewhere, TypeOK
  <1>2. Leaves(c)
    BY DEF Leaves, Unlocked
  <1> QED BY <1>1, <1>2 DEF Quiet, KeepsRow

\* An approval that has expired is closed quietly.
LEMMA ApproveExpiredQuiet ==
    ASSUME IndInv, NEW k \in Keys, ApproveExpired(k)
    PROVE  Quiet(CaseOf[k])
  <1>1. approvals \in [Keys -> ApprovalRow] /\ Unlocked(CaseOf[k])
    BY DEF IndInv, TypeOK, ApproveExpired
  <1>2. Elsewhere(CaseOf[k])
    BY <1>1 DEF ApproveExpired, Elsewhere, history
  <1>3. Leaves(CaseOf[k])
    BY <1>1 DEF ApproveExpired, Leaves, Unlocked
  <1> QED BY <1>2, <1>3 DEF ApproveExpired, Quiet, KeepsRow, history

\* So is one that is answered from its rows.
LEMMA ApproveAnsweredQuiet ==
    ASSUME IndInv, NEW k \in Keys, ApproveAnswered(k)
    PROVE  Quiet(CaseOf[k])
  <1>1. /\ approvals \in [Keys -> ApprovalRow]
        /\ actions \in [Keys -> ActionRow]
        /\ actions' = [actions EXCEPT ![k].status = "APPROVED"]
        /\ Decidable(k)
        /\ UNCHANGED <<clock, policy, cases, keys, notifications, txn, runs,
                       effects, last, calls, lost, reused, overlapped>>
    BY DEF IndInv, TypeOK, ApproveAnswered
  <1>2. Elsewhere(CaseOf[k])
    BY <1>1 DEF ApproveAnswered, Elsewhere
  <1>3. Leaves(CaseOf[k])
    BY <1>1 DEF Leaves, Unlocked, Decidable
  <1>4. ASSUME NEW j \in Keys
        PROVE  KeepsRow(j)
    <2>1. CASE j = k
      <3>1. /\ actions[j].status # "ABSENT"
            /\ actions[j] \in ActionRow
            /\ actions'[j] = [actions[j] EXCEPT !.status = "APPROVED"]
        BY <1>1, <2>1 DEF Decidable, Approvable
      <3> QED BY <3>1 DEF KeepsRow, ActionRow
    <2>2. CASE j # k
      BY <1>1, <2>2 DEF KeepsRow
    <2> QED BY <2>1, <2>2
  <1> QED BY <1>1, <1>2, <1>3, <1>4 DEF Quiet

\* A rejection offers and retries nothing.
LEMMA RejectQuiet ==
    ASSUME IndInv, NEW k \in Keys, Reject(k)
    PROVE  Quiet(CaseOf[k])
  <1>0. CaseOf[k] \in Cases
    BY KeysAssumption
  <1>1. /\ approvals \in [Keys -> ApprovalRow]
        /\ actions \in [Keys -> ActionRow]
        /\ keys \in [Keys -> KeyRow]
        /\ cases \in [Cases -> CaseRow]
        /\ actions' = [actions EXCEPT ![k].status = "CANCELLED"]
        /\ keys' \in {keys, [keys EXCEPT ![k].status = "FAILED"]}
        /\ Unlocked(CaseOf[k])
        /\ UNCHANGED <<clock, policy, notifications, txn, runs, history>>
    BY DEF IndInv, TypeOK, Reject
  <1>2. Elsewhere(CaseOf[k])
    BY <1>0, <1>1 DEF Reject, Elsewhere, history
  <1>3. Leaves(CaseOf[k])
    BY <1>1 DEF Leaves, Unlocked
  <1>4. ASSUME NEW j \in Keys
        PROVE  KeepsRow(j)
    <2>1. CASE j = k
      <3>1. /\ actions[j].status # "ABSENT"
            /\ actions[j] \in ActionRow
            /\ actions'[j] = [actions[j] EXCEPT !.status = "CANCELLED"]
        BY <1>1, <2>1 DEF Reject, IndInv, KeysOK, RowOK
      <3> QED BY <3>1 DEF KeepsRow, ActionRow
    <2>2. CASE j # k
      BY <1>1, <2>2 DEF KeepsRow
    <2> QED BY <2>1, <2>2
  <1>5. \A j \in Keys : keys'[j].result = keys[j].result
    BY <1>1 DEF KeyRow
  <1> QED BY <1>1, <1>2, <1>3, <1>4, <1>5 DEF Quiet, history

\* The processor plans a row that is not there, or leaves the rows.
LEMMA ProcessedQuiet ==
    ASSUME IndInv, NEW c \in Cases, NEW v, NEW r, Unlocked(c),
           Processes(c, v),
           cases' = [cases EXCEPT ![c] = r],
           UNCHANGED <<clock, policy, keys, notifications, txn, runs, history>>
    PROVE  Quiet(c)
  <1>1. \A d \in Cases \ {c} : cases'[d] = cases[d]
    BY DEF IndInv, TypeOK
  <1>2. Leaves(c)
    BY DEF Leaves, Unlocked
  <1>3. CASE cases[c].status \notin OnWalk
    <2>1. UNCHANGED <<actions, approvals>>
      BY <1>3 DEF Processes
    <2> QED BY <1>1, <1>2, <2>1 DEF Quiet, Elsewhere, KeepsRow, history
  <1>4. CASE cases[c].status \in OnWalk
    <2> DEFINE k == PlannedKey[c]
    <2>1. c \in DOMAIN PlannedKey /\ Plans(c, v)
      BY <1>4 DEF Processes
    <2>2. /\ k \in Keys
          /\ k \in Planned
          /\ CaseOf[k] = c
          /\ actions[k].status = "ABSENT"
      BY <1>4, <2>1, KeysAssumption DEF IndInv, PlansOK, PlanOK, Planned
    <2> DEFINE waits == v = "APPROVE"
               row == [status |-> IF waits THEN "APPROVAL_REQUIRED"
                                  ELSE IF v = "ALLOW" THEN "PENDING"
                                  ELSE "BLOCKED",
                       type |-> PlannedAction[c], amount |-> AtRisk[c],
                       created |-> clock,
                       request |-> IF waits THEN PlannedRequest(c) ELSE NULL,
                       material |-> IF waits THEN cases[c].material
                                    ELSE NULL]
    <2>3. actions' = [actions EXCEPT ![k] = row]
      BY <2>1, <2>2 DEF Plans
    <2>4. /\ row.status \notin {"ABSENT", "SUCCEEDED"}
          /\ row.created = clock
          /\ row.amount = AtRisk[c]
          /\ row.request # NULL => row.type = row.request.action
      BY DEF PlannedRequest
    <2>5. \A j \in Keys \ {k} : approvals'[j] = approvals[j]
      BY <2>1 DEF Plans, IndInv, TypeOK
    <2> HIDE DEF k, row
    <2>6. /\ actions'[k] = row
          /\ \A j \in Keys \ {k} : actions'[j] = actions[j]
      BY <2>2, <2>3 DEF IndInv, TypeOK
    <2>7. Elsewhere(c)
      BY <1>1, <2>2, <2>5, <2>6 DEF Elsewhere, history
    <2>8. \A j \in Keys : KeepsRow(j)
      BY <2>2, <2>6, <2>4 DEF KeepsRow
    <2> QED BY <1>2, <2>7, <2>8 DEF Quiet, history
  <1> QED BY <1>3, <1>4

\* A rollback writes no row that is counted.
LEMMA AbortQuiet ==
    ASSUME IndInv, NEW t \in Threads, Abort(t)
    PROVE  \E c \in Cases : Quiet(c)
  <1>1. PICK k \in Keys : k = txn[t].key
    BY DEF Abort, IndInv, TypeOK, Txn
  <1>2. CaseOf[k] \in Cases /\ txn[t] # NULL
    BY KeysAssumption DEF Abort
  <1>3. /\ UNCHANGED <<clock, policy, rows, effects, last, answers, reused,
                       overlapped>>
        /\ txn' = [txn EXCEPT ![t] = NULL]
        /\ \A j \in Keys \ {k} : calls'[j] = calls[j] /\ lost'[j] = lost[j]
    BY <1>1 DEF Abort, IndInv, TypeOK
  <1>4. Elsewhere(CaseOf[k])
    BY <1>3 DEF Elsewhere, rows
  <1>5. Leaves(CaseOf[k])
    BY <1>1, <1>2, <1>3 DEF Leaves, IndInv, OneRun, TypeOK
  <1>6. Quiet(CaseOf[k])
    BY <1>3, <1>4, <1>5 DEF Quiet, KeepsRow, rows
  <1> QED BY <1>2, <1>6

-----------------------------------------------------------------------------
(* Opening a run *)

\* What the policy counts is a number.
LEMMA CountsAreNat ==
    ASSUME TypeOK, NEW c
    PROVE  /\ _retry_count(c) \in Nat
           /\ _communications_last_24h \in Nat
           /\ _discount_spent_today \in Nat
  <1>1. _retry_count(c) \in Nat
    BY RetryCount
  <1>2. _communications_last_24h \in Nat
    <2>1. Notified \in SUBSET Keys
      BY DEF Notified
    <2> QED BY <2>1, NoMore DEF _communications_last_24h
  <1>3. _discount_spent_today \in Nat
    BY OffersAreTyped, FiniteAssumption, SumOfNats
    DEF _discount_spent_today
  <1> QED BY <1>1, <1>2, <1>3

\* A run that succeeds was not denied: what it counted left room for it.
LEMMA OutcomesPermit ==
    ASSUME TypeOK, NEW c \in Cases, NEW s, NEW row \in Keys,
           NEW request \in ProposedAction, NEW approved \in BOOLEAN,
           "SUCCEEDED" \in Outcomes(c, s, row, request, approved)
    PROVE  /\ request.action \in RETRY_ACTIONS =>
                _retry_count(c) < settings.max_retry_attempts
           /\ request.action = "SEND_REMINDER" =>
                _communications_last_24h < settings.max_communications_per_day
           /\ request.action = "OFFER_DISCOUNT" =>
                _discount_spent_today * 100 + AtRisk[c] * request.percent
                  <= settings.max_daily_discount_budget * 100
  <1> DEFINE ctx == build_policy_context(c)
             offer == AtRisk[c] * request.percent
             v == Evaluated(c, request)
  <1>1. /\ ctx.amount_at_risk = AtRisk[c]
        /\ ctx.retry_count = _retry_count(c)
        /\ ctx.communications_last_24h = _communications_last_24h
        /\ ctx.discount_spent_today = _discount_spent_today
    BY DEF build_policy_context
  <1>2. v = EvaluateOffer(settings, ctx, request, offer)
    <2> HIDE DEF ctx
    <2> QED BY <1>1 DEF Evaluated, evaluate_action, ctx
  <1>3. v \notin {"DENY", "DENY_SOURCE"}
    <2>1. request # ReadOnly
      BY ReadOnlyIsNoAction
    <2> HIDE DEF v
    <2> QED BY <2>1 DEF Outcomes, v
  <1>4. ~Denied(settings, ctx, request, offer)
    <2> HIDE DEF v, ctx, offer
    <2> QED BY <1>2, <1>3 DEF EvaluateOffer
  <1> HIDE DEF ctx
  <1>5. /\ settings \in Settings
        /\ offer \in Nat
    BY CasesAssumption DEF TypeOK, ProposedAction
  <1>6. /\ settings.max_retry_attempts \in Nat
        /\ settings.max_communications_per_day \in Nat
        /\ settings.max_daily_discount_budget \in Nat
    BY <1>5 DEF Settings
  <1> HIDE DEF offer
  <1>7. /\ ~RetryRule(settings, ctx, request.action)
        /\ ~DiscountRules(settings, ctx, request, offer)
        /\ ~CommunicationRules(settings, ctx, request.action)
    BY <1>4 DEF Denied
  <1>8. request.action \in RETRY_ACTIONS =>
          _retry_count(c) < settings.max_retry_attempts
    BY <1>1, <1>6, <1>7, CountsAreNat DEF RetryRule
  <1>9. request.action = "SEND_REMINDER" =>
          _communications_last_24h < settings.max_communications_per_day
    BY <1>1, <1>6, <1>7, CountsAreNat
    DEF CommunicationRules, FrequencyRule, COMMUNICATION_ACTIONS
  <1>10. request.action = "OFFER_DISCOUNT" =>
          _discount_spent_today * 100 + offer
            <= settings.max_daily_discount_budget * 100
    BY <1>1, <1>5, <1>6, <1>7, CountsAreNat DEF DiscountRules, OverBudget
  <1> QED BY <1>8, <1>9, <1>10 DEF offer

\* The limits read no other history than this.
LEMMA LimitsKept ==
    ASSUME UNCHANGED <<actions, effects, last, reused, overlapped>>
    PROVE  /\ RetriesWithinLimit => RetriesWithinLimit'
           /\ DiscountsWithinBudget => DiscountsWithinBudget'
           /\ ApprovedDiscountWaitsForMidnight =>
                ApprovedDiscountWaitsForMidnight'
  <1>1. RetriesWithinLimit => RetriesWithinLimit'
    <2>1. \A c : Retried(c)' = Retried(c)
      BY DEF Retried, TookEffect
    <2> QED BY <2>1 DEF RetriesWithinLimit
  <1>2. DiscountsWithinBudget => DiscountsWithinBudget'
    BY DEF DiscountsWithinBudget, Amounts, OfferedOn, TookEffect
  <1>3. ApprovedDiscountWaitsForMidnight =>
          ApprovedDiscountWaitsForMidnight'
    BY DEF ApprovedDiscountWaitsForMidnight, TookEffect
  <1> QED BY <1>1, <1>2, <1>3

\* A run that opens has read the policy and counted the rows.
LEMMA BeginLimits ==
    ASSUME LimitInv, IndInv', NEW t \in Threads, NEW k \in Keys,
           NEW row \in Keys, NEW request \in ProposedAction \cup {ReadOnly},
           NEW approved \in BOOLEAN,
           approved => /\ row = k
                       /\ Decidable(k)
                       /\ request = actions[k].request,
           ~approved => k \notin Planned,
           Begin(t, k, row, request, approved)
    PROVE  LimitInv'
  <1> USE DEF LimitInv
  <1>1. PICK c \in Cases : c = CaseOf[k]
    BY KeysAssumption
  <1>2. PICK s : s = IF approved THEN cases[c].status
                     ELSE Walked(cases[c].status)
    OBVIOUS
  <1>3. PICK o \in Outcomes(c, s, row, request, approved) :
          txn' = [txn EXCEPT ![t] =
                    [key |-> k, row |-> row, request |-> request,
                     approved |-> approved, outcome |-> o,
                     settings |-> settings, offers |-> Offers,
                     notified |-> Notified]]
    BY <1>1, <1>2 DEF Begin
  <1> DEFINE x == [key |-> k, row |-> row, request |-> request,
                   approved |-> approved, outcome |-> o,
                   settings |-> settings, offers |-> Offers,
                   notified |-> Notified]
  <1>4. /\ UNCHANGED <<clock, policy, rows, history>>
        /\ Runs(k, request, approved)
    BY DEF Begin
  <1>5. ReadOK(x)
    <2>1. ~approved => keys[k].result = NULL
      BY <1>4 DEF IndInv, KeysOK, KeyOK, Runs
    <2> QED BY <2>1 DEF ReadOK, InForce
  <1>6. ASSUME TakesEffect(x)
        PROVE  RoomOK(x)
    <2>1. request \in ProposedAction /\ o = "SUCCEEDED"
      BY <1>6 DEF TakesEffect
    <2>2. /\ request.action \in RETRY_ACTIONS =>
               _retry_count(c) < settings.max_retry_attempts
          /\ request.action = "SEND_REMINDER" =>
               _communications_last_24h < settings.max_communications_per_day
          /\ request.action = "OFFER_DISCOUNT" =>
               _discount_spent_today * 100 + AtRisk[c] * request.percent
                 <= settings.max_daily_discount_budget * 100
      BY <1>3, <2>1, OutcomesPermit DEF IndInv
    <2>3. /\ approved
          /\ actions[row].type = "OFFER_DISCOUNT"
          /\ actions[row].created \div Day = clock \div Day
          => Offers[row] = actions[row].amount
      BY DEF Decidable, Approvable, Counted, Offers
    <2> QED BY <1>1, <2>2, <2>3
            DEF RoomOK, _communications_last_24h, _discount_spent_today
  <1>7. CountsOK(x)
    BY <1>5, <1>6 DEF CountsOK
  <1> HIDE DEF x
  <1>8. ASSUME NEW y, CountsOK(y)
        PROVE  CountsOK(y)'
    BY <1>4, <1>8
    DEF CountsOK, ReadOK, TakesEffect, RoomOK, _retry_count, rows
  <1>9. OpenOK'
    <2> SUFFICES ASSUME NEW u \in Threads, (txn[u] # NULL)'
                 PROVE  CountsOK(txn[u])'
      BY DEF OpenOK
    <2>1. PICK y : y = txn'[u]
      OBVIOUS
    <2>2. CountsOK(y)
      <3>1. CASE u = t
        BY <1>3, <1>7, <2>1, <3>1 DEF x, IndInv, TypeOK
      <3>2. CASE u # t
        BY <1>3, <2>1, <3>2 DEF OpenOK, IndInv, TypeOK
      <3> QED BY <3>1, <3>2
    <2> QED BY <1>8, <2>1, <2>2
  <1>10. InForce' /\ HistoriesOK'
    BY <1>4
    DEF InForce, settings, HistoriesOK, HistoryOK, OwnRow, rows, history
  <1>11. /\ RetriesWithinLimit'
         /\ DiscountsWithinBudget'
         /\ ApprovedDiscountWaitsForMidnight'
    BY <1>4, LimitsKept DEF rows, history
  <1>12. RemindersWithinLimit'
    BY <1>4
    DEF RemindersWithinLimit, _communications_last_24h, Notified, rows,
        history
  <1> QED BY <1>9, <1>10, <1>11, <1>12

-----------------------------------------------------------------------------
(* Committing a run *)

\* What a commit leaves in the tables, and what it knew before.
LEMMA CommitDoes ==
    ASSUME IndInv, NEW t \in Threads, NEW x \in Txn, x = txn[t], Commit(t)
    PROVE  LET k == x.key IN
           /\ k \in Keys
           /\ x.row \in Keys
           /\ CaseOf[k] \in Cases
           /\ CaseOf[x.row] = CaseOf[k]
           /\ RunOK(x)
           /\ effects[k] = 0
           /\ actions'[x.row] = ActionAfter(x)
           /\ keys'[k] = KeyAfter(x)
           /\ TakesEffect(x) =>
                /\ effects'[k] = 1
                /\ last'[k].request = x.request
                /\ last'[k].at = clock
           /\ ~TakesEffect(x) => effects'[k] = 0
           /\ reused' = IF x.row = k THEN reused ELSE reused \cup {x.row}
           /\ overlapped' = overlapped \cup Overlaps(x)
           /\ UNCHANGED <<clock, policy>>
  <1>1. /\ x.key \in Keys
        /\ x.row \in Keys
        /\ RunOK(x)
    BY DEF Commit, Txn, IndInv, RunsOK
  <1>2. /\ CaseOf[x.key] \in Cases
        /\ CaseOf[x.row] = CaseOf[x.key]
        /\ effects[x.key] = 0
    BY <1>1, KeysAssumption DEF RunOK, Locked, IndInv, KeysOK, KeyOK
  <1>3. /\ actions'[x.row] = ActionAfter(x)
        /\ keys'[x.key] = KeyAfter(x)
    BY <1>1 DEF Commit, IndInv, TypeOK
  <1>4. CASE TakesEffect(x)
    <2>1. /\ effects' = [effects EXCEPT ![x.key] = @ + 1]
          /\ last' = [last EXCEPT ![x.key] = [row |-> x.row,
                                              request |-> x.request,
                                              at |-> clock]]
      BY <1>4 DEF Commit
    <2>2. /\ effects'[x.key] = 1
          /\ last'[x.key] = [row |-> x.row, request |-> x.request,
                             at |-> clock]
      BY <1>1, <1>2, <2>1 DEF IndInv, TypeOK
    <2>3. last'[x.key].request = x.request /\ last'[x.key].at = clock
      BY <2>2
    <2> QED BY <1>1, <1>2, <1>3, <1>4, <2>2, <2>3 DEF Commit
  <1>5. CASE ~TakesEffect(x)
    BY <1>1, <1>2, <1>3, <1>5 DEF Commit
  <1> QED BY <1>4, <1>5

\* The rows, keys and effects it does not touch.
LEMMA CommitSpares ==
    ASSUME IndInv, NEW t \in Threads, NEW x \in Txn, x = txn[t], Commit(t)
    PROVE  /\ \A j \in Keys \ {x.row} : actions'[j] = actions[j]
           /\ \A j \in Keys \ {x.key} : /\ keys'[j] = keys[j]
                                        /\ effects'[j] = effects[j]
                                        /\ last'[j] = last[j]
           /\ Elsewhere(CaseOf[x.key])
           /\ Leaves(CaseOf[x.key])
  <1> DEFINE c == CaseOf[x.key]
  <1>1. /\ x.key \in Keys
        /\ x.row \in Keys
        /\ c \in Cases
        /\ CaseOf[x.row] = c
        /\ txn[t] # NULL
        /\ txn' = [txn EXCEPT ![t] = NULL]
    BY CommitDoes DEF Commit
  <1>2. \A j \in Keys \ {x.row} : /\ actions'[j] = actions[j]
                                  /\ approvals'[j] = approvals[j]
    BY DEF Commit, IndInv, TypeOK
  <1>3. \A j \in Keys \ {x.key} : /\ keys'[j] = keys[j]
                                  /\ calls'[j] = calls[j]
                                  /\ lost'[j] = lost[j]
    BY DEF Commit, IndInv, TypeOK
  <1>4. \A j \in Keys \ {x.key} : /\ effects'[j] = effects[j]
                                  /\ last'[j] = last[j]
    <2>1. CASE TakesEffect(x)
      BY <2>1 DEF Commit, IndInv, TypeOK
    <2>2. CASE ~TakesEffect(x)
      BY <2>2 DEF Commit
    <2> QED BY <2>1, <2>2
  <1>5. \A d \in Cases \ {c} : cases'[d] = cases[d]
    BY DEF Commit, IndInv, TypeOK
  <1>6. clock' = clock
    BY DEF Commit
  <1> HIDE DEF c
  <1>7. Elsewhere(c)
    BY <1>1, <1>2, <1>3, <1>4, <1>5, <1>6 DEF Elsewhere, c
  <1>8. Leaves(c)
    BY <1>1 DEF Leaves, IndInv, OneRun, TypeOK, c
  <1> QED BY <1>2, <1>3, <1>4, <1>7, <1>8 DEF c

\* The row a run leaves, in terms of the one it found.
LEMMA RowAfter ==
    ASSUME TypeOK, NEW x \in Txn
    PROVE  LET a == ActionAfter(x)
               old == actions[x.row]
               writes == x.outcome \in Result /\ x.request # ReadOnly
               amount == IF old.status = "ABSENT" THEN AtRisk[CaseOf[x.key]]
                         ELSE old.amount
           IN  /\ old.status # "ABSENT" =>
                    /\ a.type = old.type
                    /\ a.created = old.created
                    /\ a.request \in {old.request, x.request}
                    /\ x.approved => a.status # "ABSENT"
               /\ a.status = "ABSENT" => old.status = "ABSENT"
               /\ writes =>
                    /\ a.status = x.outcome
                    /\ a.amount = AmountOf(x, amount)
                    /\ old.status = "ABSENT" =>
                         /\ a.type = x.request.action
                         /\ a.created = clock
                         /\ a.request \in {NULL, x.request}
               /\ ~writes =>
                    /\ a.status \in {old.status} \cup {"APPROVED"}
                    /\ a.status = old.status \/ x.approved
                    /\ a.amount = old.amount
  <1> DEFINE c == CaseOf[x.key]
             old == actions[x.row]
             writes == x.outcome \in Result /\ x.request # ReadOnly
             amount == IF old.status = "ABSENT" THEN AtRisk[c]
                       ELSE old.amount
             base == IF old.status # "ABSENT" THEN old
                     ELSE [NoAction EXCEPT !.type = x.request.action,
                                           !.amount = AtRisk[c],
                                           !.created = clock]
  <1>1. old \in ActionRow
    BY DEF Txn, TypeOK
  <1>2. CASE writes
    <2>1. /\ base.amount = amount
          /\ DOMAIN base = {"status", "type", "amount", "created",
                            "request", "material"}
          /\ old.status # "ABSENT" => base = old
          /\ old.status = "ABSENT" => /\ base.type = x.request.action
                                      /\ base.created = clock
                                      /\ base.request = NULL
      BY <1>1 DEF NoAction, ActionRow
    <2>2. ActionAfter(x) =
            [base EXCEPT
               !.status = x.outcome,
               !.amount = AmountOf(x, base.amount),
               !.request = IF x.outcome = "BLOCKED" THEN base.request
                           ELSE x.request,
               !.material = IF x.outcome = "APPROVAL_REQUIRED"
                            THEN cases[c].material ELSE base.material]
      BY <1>2 DEF ActionAfter, _upsert_action
    <2> HIDE DEF base, amount
    <2>3. /\ ActionAfter(x).status = x.outcome
          /\ ActionAfter(x).amount = AmountOf(x, amount)
          /\ ActionAfter(x).type = base.type
          /\ ActionAfter(x).created = base.created
          /\ ActionAfter(x).request \in {base.request, x.request}
      BY <2>1, <2>2
    <2>4. x.outcome # "ABSENT"
      BY <1>2 DEF Result, Final
    <2> QED BY <1>2, <2>1, <2>3, <2>4 DEF amount
  <1>3. CASE ~writes
    <2>1. ActionAfter(x) = IF x.approved
                           THEN [old EXCEPT !.status = "APPROVED"] ELSE old
      BY <1>3 DEF ActionAfter
    <2> QED BY <1>1, <1>3, <2>1 DEF ActionRow
  <1> QED BY <1>2, <1>3

\* Before it commits, a run that was not approved has no row of its own key
\* that its key has written; an approved one has the row it was asked with.
LEMMA OwnRowBefore ==
    ASSUME IndInv, HistoriesOK, NEW x \in Txn, RunOK(x), ReadOK(x)
    PROVE  LET k == x.key IN
           /\ ~x.approved => k \notin Planned /\ ~OwnRow(k)
           /\ x.approved /\ k \notin reused =>
                /\ x.row = k
                /\ OwnRow(k)
                /\ actions[k].status \in Counted
                /\ actions[k].type = x.request.action
                /\ actions[k].request = x.request
                /\ actions[k].created <= clock
                /\ actions[k].amount = AtRisk[CaseOf[k]]
  <1>1. x.key \in Keys
    BY DEF Txn
  <1>2. HistoryOK(x.key) /\ RowOK(x.key)
    BY <1>1 DEF HistoriesOK, IndInv, KeysOK
  <1>3. ~x.approved => x.key \notin Planned /\ ~OwnRow(x.key)
    BY <1>2 DEF ReadOK, HistoryOK
  <1>4. ASSUME x.approved, x.key \notin reused
        PROVE  /\ x.row = x.key
               /\ OwnRow(x.key)
               /\ actions[x.key].status \in Counted
               /\ actions[x.key].request = x.request
               /\ x.request # NULL
               /\ keys[x.key].result \notin Final
    <2>1. Approved(x) /\ Locked(x)
      BY <1>4 DEF RunOK
    <2>2. x.request # NULL
      BY <1>2, <2>1, NullAssumption DEF Approved, RowOK, Asked
    <2> QED BY <1>4, <2>1, <2>2
            DEF Approved, Locked, OwnRow, Approvable, Counted
  <1> QED BY <1>2, <1>3, <1>4 DEF HistoryOK

\* The rows still tell what they should of their keys after a commit.
LEMMA CommitHistories ==
    ASSUME LimitInv, NEW t \in Threads, Commit(t)
    PROVE  HistoriesOK'
  <1> USE DEF LimitInv
  <1>1. PICK x \in Txn : x = txn[t] /\ ReadOK(x)
    BY DEF Commit, IndInv, TypeOK, OpenOK, CountsOK
  <1> DEFINE k == x.key
             a == ActionAfter(x)
             old == actions[x.row]
             writes == x.outcome \in Result /\ x.request # ReadOnly
  <1>2. /\ k \in Keys
        /\ x.row \in Keys
        /\ CaseOf[x.row] = CaseOf[k]
        /\ RunOK(x)
        /\ effects[k] = 0
        /\ actions'[x.row] = a
        /\ keys'[k] = KeyAfter(x)
        /\ TakesEffect(x) => last'[k].request = x.request
        /\ ~TakesEffect(x) => effects'[k] = 0
        /\ reused' = IF x.row = k THEN reused ELSE reused \cup {x.row}
        /\ clock' = clock
    BY <1>1, CommitDoes
  <1>3. /\ \A j \in Keys \ {x.row} : actions'[j] = actions[j]
        /\ \A j \in Keys \ {k} : /\ keys'[j] = keys[j]
                                 /\ effects'[j] = effects[j]
                                 /\ last'[j] = last[j]
    BY <1>1, CommitSpares
  <1>4. /\ ~x.approved => k \notin Planned /\ ~OwnRow(k)
        /\ x.approved /\ k \notin reused =>
             /\ x.row = k
             /\ OwnRow(k)
             /\ actions[k].type = x.request.action
             /\ actions[k].request = x.request
             /\ actions[k].created <= clock
             /\ actions[k].amount = AtRisk[CaseOf[k]]
    BY <1>1, <1>2, OwnRowBefore
  <1>5. /\ keys'[k].result = IF x.outcome \in Result THEN x.outcome
                             ELSE keys[k].result
        /\ x.approved => x.row = k
        /\ x.outcome \in Result => x.outcome # NULL
    BY <1>2, NullAssumption DEF KeyAfter, RunOK, Approved
  <1>6. /\ old.status # "ABSENT" =>
             /\ a.type = old.type
             /\ a.created = old.created
             /\ a.request \in {old.request, x.request}
             /\ x.approved => a.status # "ABSENT"
        /\ a.status = "ABSENT" => old.status = "ABSENT"
        /\ writes =>
             /\ a.status = x.outcome
             /\ a.amount = AmountOf(x, IF old.status = "ABSENT"
                                       THEN AtRisk[CaseOf[x.key]]
                                       ELSE old.amount)
             /\ old.status = "ABSENT" =>
                  /\ a.type = x.request.action
                  /\ a.created = clock
                  /\ a.request \in {NULL, x.request}
        /\ ~writes =>
             /\ a.status \in {old.status} \cup {"APPROVED"}
             /\ a.status = old.status \/ x.approved
             /\ a.amount = old.amount
    BY <1>1, RowAfter DEF IndInv
  <1>7. \A n : x.outcome # "SUCCEEDED" => AmountOf(x, n) = n
    BY DEF AmountOf
  <1>8. TakesEffect(x) => writes
    BY DEF TakesEffect, Result, Final
  <1>9. clock \in Nat
    BY DEF IndInv, TypeOK
  <1>10. keys[k].result \notin Final
    BY <1>2 DEF RunOK, Locked
  <1> HIDE DEF a, k
  <1>11. ASSUME x.approved, x.row = k
         PROVE  HistoryOK(k)'
    <2>1. HistoryOK(k) /\ k \in Keys
      BY <1>2 DEF HistoriesOK
    <2>2. a.status # "ABSENT" /\ old.status # "ABSENT"
      <3>1. old.status # "ABSENT"
        BY <1>2, <1>11 DEF RunOK, Approved, Approvable
      <3> QED BY <1>6, <1>11, <3>1
    <2>3. ASSUME k \notin reused, keys'[k].result \notin Final
          PROVE  a.status # "SUCCEEDED" /\ a.amount = AtRisk[CaseOf[k]]
      <3>1. x.outcome # "SUCCEEDED" /\ old.status # "SUCCEEDED"
        BY <1>5, <1>11, <1>2, <2>3
        DEF Result, Final, RunOK, Approved, Approvable
      <3> QED BY <1>4, <1>6, <1>7, <1>11, <2>2, <2>3, <3>1
    <2>4. effects'[k] > 0 => TakesEffect(x)
      BY <1>2
    <2> QED BY <1>2, <1>4, <1>5, <1>6, <1>11, <2>1, <2>2, <2>3, <2>4
            DEF HistoryOK, OwnRow
  <1>12. ASSUME ~x.approved, x.row = k
         PROVE  HistoryOK(k)'
    <2> SUFFICES ASSUME k \notin reused, a.status # "ABSENT"
                 PROVE  HistoryOK(k)'
      BY <1>2, <1>4, <1>12 DEF HistoryOK, OwnRow
    <2>1. old.status = "ABSENT"
      BY <1>4, <1>12 DEF OwnRow
    <2>2. writes
      BY <1>6, <1>12, <2>1
    <2>3. /\ a.status = x.outcome
          /\ a.amount = AmountOf(x, AtRisk[CaseOf[k]])
          /\ a.type = x.request.action
          /\ a.created = clock
          /\ a.request \in {NULL, x.request}
      BY <1>6, <2>1, <2>2 DEF k
    <2>4. keys'[k].result = x.outcome /\ x.outcome # NULL
      BY <1>5, <2>2
    <2>5. x.outcome \notin Final => x.outcome # "SUCCEEDED"
      BY DEF Final
    <2>6. effects'[k] > 0 => TakesEffect(x)
      BY <1>2
    <2> QED BY <1>2, <1>4, <1>7, <1>9, <1>12, <2>3, <2>4, <2>5, <2>6
            DEF HistoryOK, OwnRow
  <1>13. ASSUME x.row # k
         PROVE  HistoryOK(k)' /\ HistoryOK(x.row)'
    <2>1. HistoryOK(x.row) /\ x.row \in Keys
      BY <1>2 DEF HistoriesOK
    <2>2. HistoryOK(k)'
      BY <1>2, <1>3, <1>4, <1>5, <1>13 DEF HistoryOK, OwnRow
    <2>3. HistoryOK(x.row)'
      BY <1>2, <1>3, <1>6, <1>13, <2>1 DEF HistoryOK, OwnRow
    <2> QED BY <2>2, <2>3
  <1>14. ASSUME NEW j \in Keys, j # k, j # x.row
         PROVE  HistoryOK(j)'
    <2>1. HistoryOK(j)
      BY DEF HistoriesOK
    <2>2. j \notin reused' => j \notin reused
      BY <1>2
    <2>3. /\ actions'[j] = actions[j]
          /\ keys'[j] = keys[j]
          /\ effects'[j] = effects[j]
          /\ last'[j] = last[j]
      BY <1>3, <1>14
    <2> QED BY <1>2, <2>1, <2>2, <2>3 DEF HistoryOK, OwnRow
  <1> QED BY <1>11, <1>12, <1>13, <1>14 DEF HistoriesOK

\* The row that a run of a key has written alone counts for what it did.
LEMMA EffectIsCounted ==
    ASSUME HistoriesOK, NEW k \in Keys \ reused, effects[k] > 0,
           actions[k].status = "SUCCEEDED"
    PROVE  /\ actions[k].type = last[k].request.action
           /\ actions[k].status \in Counted
  BY DEF HistoriesOK, HistoryOK, OwnRow, Counted

\* A key whose own row shows its effect after a commit is the one that
\* committed, on its own row, or one that the commit has not touched.
LEMMA EffectsAfter ==
    ASSUME LimitInv, NEW t \in Threads, NEW x \in Txn, x = txn[t], Commit(t),
           NEW j \in Keys, j \notin reused', effects'[j] > 0
    PROVE  \/ /\ j # x.key
              /\ j # x.row
              /\ j \notin reused
              /\ actions'[j] = actions[j]
              /\ effects'[j] = effects[j]
              /\ last'[j] = last[j]
           \/ /\ j = x.key
              /\ TakesEffect(x)
              /\ j \notin reused
              /\ actions'[j].status = "SUCCEEDED" \/ x.approved => x.row = j
  <1> USE DEF LimitInv
  <1>1. /\ RunOK(x)
        /\ x.key \in Keys
        /\ ~TakesEffect(x) => effects'[x.key] = 0
        /\ reused' = IF x.row = x.key THEN reused ELSE reused \cup {x.row}
    BY CommitDoes
  <1>2. /\ \A i \in Keys \ {x.row} : actions'[i] = actions[i]
        /\ \A i \in Keys \ {x.key} : /\ effects'[i] = effects[i]
                                     /\ last'[i] = last[i]
    BY CommitSpares
  <1>3. CASE j # x.key
    BY <1>1, <1>2, <1>3
  <1>4. CASE j = x.key
    <2>1. TakesEffect(x) /\ j \notin reused
      BY <1>1, <1>4
    <2>2. ReadOK(x)
      BY DEF Commit, OpenOK, CountsOK
    <2>3. /\ ~x.approved => ~OwnRow(j)
          /\ x.approved => x.row = j
      BY <1>1, <1>4, <2>1, <2>2, OwnRowBefore
    <2> QED BY <1>2, <1>4, <2>1, <2>3 DEF OwnRow
  <1> QED BY <1>3, <1>4

\* A retry that commits was below the limit, with its own row if approved.
LEMMA CommitRetriesFit ==
    ASSUME LimitInv, NEW t \in Threads, Commit(t)
    PROVE  RetriesWithinLimit'
  <1> SUFFICES ASSUME NEW d \in Cases
               PROVE  RetriesFit(d)'
    BY DEF RetriesWithinLimit, RetriesFit
  <1> USE DEF LimitInv
  <1>1. PICK x \in Txn : x = txn[t] /\ CountsOK(x)
    BY DEF Commit, IndInv, TypeOK, OpenOK
  <1>2. PICK k \in Keys : k = x.key
    BY DEF Txn
  <1>3. ASSUME NEW j \in Retried(d)', j # k
        PROVE  j \in Retried(d)
    <2>1. /\ j \in Keys
          /\ j \notin reused'
          /\ CaseOf[j] = d
          /\ effects'[j] > 0
          /\ actions'[j].status = "SUCCEEDED"
      BY DEF Retried, TookEffect
    <2>2. /\ j \notin reused
          /\ actions'[j] = actions[j]
          /\ effects'[j] = effects[j]
          /\ last'[j] = last[j]
      BY <1>1, <1>2, <1>3, <2>1, EffectsAfter
    <2> QED BY <2>1, <2>2 DEF Retried, TookEffect
  <1>4. CASE k \notin Retried(d)'
    <2>1. Retried(d)' \subseteq Retried(d)
      BY <1>3, <1>4
    <2> QED BY <2>1, RetriesShrink DEF RetriesWithinLimit, RetriesFit
  <1>5. CASE k \in Retried(d)'
    <2>1. /\ CaseOf[k] = d
          /\ k \notin reused'
          /\ effects'[k] > 0
          /\ last'[k].request.action \in RETRY_ACTIONS
          /\ actions'[k].status = "SUCCEEDED"
      BY <1>5 DEF Retried, TookEffect
    <2>2. TakesEffect(x) /\ k \notin reused
      BY <1>1, <1>2, <2>1, EffectsAfter
    <2>3. /\ RunOK(x)
          /\ effects[k] = 0
          /\ last'[k].request = x.request
      BY <1>1, <1>2, <2>2, CommitDoes
    <2>4. x.request.action \in RETRY_ACTIONS
      BY <2>1, <2>3
    <2> DEFINE s == x.settings
               max == s.max_retry_attempts
               n == Cardinality(Retried(d)')
               limit == IF /\ \E a \in RETRY_ACTIONS :
                                NeedsApproval(s, AtRisk[d], a)
                           /\ s.max_retry_attempts > 0
                        THEN s.max_retry_attempts - 1
                        ELSE s.max_retry_attempts
    <2>5. /\ s \in Configured
          /\ max \in Nat
      BY <1>1, ConfiguredAreSettings DEF CountsOK, ReadOK, Settings
    <2>6. _retry_count(d) < max
      BY <1>1, <1>2, <2>1, <2>2, <2>4 DEF CountsOK, RoomOK
    <2>7. Retried(d) \in SUBSET CountedRows(d)
      <3>1. ASSUME NEW j \in Retried(d)
            PROVE  j \in CountedRows(d)
        <4>1. /\ j \in Keys \ reused
              /\ CaseOf[j] = d
              /\ effects[j] > 0
              /\ last[j].request.action \in RETRY_ACTIONS
              /\ actions[j].status = "SUCCEEDED"
          BY DEF Retried, TookEffect
        <4> QED BY <4>1, EffectIsCounted DEF CountedRows
      <3> QED BY <3>1
    <2>8. Retried(d)' \subseteq Retried(d) \cup {k}
      BY <1>3
    <2>9. /\ CountedRows(d) \in SUBSET Keys
          /\ _retry_count(d) = Cardinality(CountedRows(d))
          /\ _retry_count(d) \in Nat
      BY RetryCount
    <2>10. n \in Nat /\ n <= max
      <3>1. /\ Retried(d) \in SUBSET Keys
            /\ Cardinality(Retried(d)) \in Nat
            /\ Cardinality(Retried(d)) <= _retry_count(d)
        BY <2>7, <2>9, NoMore
      <3>2. /\ Retried(d) \cup {k} \in SUBSET Keys
            /\ Retried(d)' \in SUBSET (Retried(d) \cup {k})
        BY <2>8, <3>1
      <3>3. /\ Cardinality(Retried(d) \cup {k}) \in Nat
            /\ n \in Nat
            /\ n <= Cardinality(Retried(d) \cup {k})
        BY <3>2, NoMore
      <3>4. Cardinality(Retried(d) \cup {k}) <= Cardinality(Retried(d)) + 1
        BY <3>1, OneMore
      <3> HIDE DEF n, max
      <3> QED BY <2>5, <2>6, <2>9, <3>1, <3>3, <3>4
    <2>11. ASSUME NEW a \in RETRY_ACTIONS, NeedsApproval(s, AtRisk[d], a)
           PROVE  n <= max - 1
      <3>1. NeedsApproval(s, AtRisk[d], x.request.action)
        BY <2>4, <2>11
        DEF NeedsApproval, RETRY_ACTIONS, AUTOMATIC_ACTIONS,
            RecoveryActionType
      <3>2. x.approved
        BY <1>2, <2>1, <2>2, <2>3, <3>1 DEF RunOK, Permitted
      <3>3. /\ actions[k].status \in Counted
            /\ actions[k].type = x.request.action
        BY <1>1, <1>2, <2>2, <2>3, <3>2, OwnRowBefore DEF CountsOK
      <3>4. k \in CountedRows(d)
        BY <2>1, <2>4, <3>3 DEF CountedRows
      <3>5. Retried(d)' \in SUBSET CountedRows(d)
        BY <2>7, <2>8, <3>4
      <3>6. n <= _retry_count(d)
        BY <2>9, <3>5, NoMore
      <3> HIDE DEF n, max
      <3> QED BY <2>5, <2>6, <2>9, <2>10, <3>6
    <2>12. n <= limit
      <3> HIDE DEF n
      <3> QED BY <2>10, <2>11
    <2> QED BY <2>5, <2>12 DEF RetriesFit
  <1> QED BY <1>4, <1>5

\* A reminder that commits, with no other in between, was below the limit.
LEMMA CommitRemindersFit ==
    ASSUME LimitInv, NEW t \in Threads, Commit(t)
    PROVE  RemindersWithinLimit'
  <1> SUFFICES ASSUME "reminder" \notin overlapped'
               PROVE  \E s \in Configured :
                        Cardinality(Notified') <= s.max_communications_per_day
    BY DEF RemindersWithinLimit, _communications_last_24h
  <1> USE DEF LimitInv
  <1>1. PICK x \in Txn : x = txn[t] /\ CountsOK(x)
    BY DEF Commit, IndInv, TypeOK, OpenOK
  <1>2. /\ overlapped' = overlapped \cup Overlaps(x)
        /\ clock' = clock
        /\ x.key \in Keys
    BY <1>1, CommitDoes
  <1>3. CASE TakesEffect(x) /\ x.request.action = "SEND_REMINDER"
    <2>1. notifications' = [notifications EXCEPT ![x.key] = clock]
      BY <1>1, <1>3 DEF Commit
    <2>2. Notified' \subseteq Notified \cup {x.key}
      BY <1>2, <2>1 DEF Notified, IndInv, TypeOK
    <2>3. x.notified = Notified
      BY <1>2, <1>3 DEF Overlaps
    <2>4. /\ x.settings \in Configured
          /\ x.settings.max_communications_per_day \in Nat
          /\ Cardinality(Notified) < x.settings.max_communications_per_day
      BY <1>1, <1>3, <2>3, ConfiguredAreSettings
      DEF CountsOK, ReadOK, RoomOK, Settings
    <2>5. /\ Notified \in SUBSET Keys
          /\ Notified \cup {x.key} \in SUBSET Keys
          /\ Notified' \in SUBSET (Notified \cup {x.key})
      BY <1>2, <2>2 DEF Notified
    <2>6. /\ Cardinality(Notified \cup {x.key}) \in Nat
          /\ Cardinality(Notified') \in Nat
          /\ Cardinality(Notified') <= Cardinality(Notified \cup {x.key})
      BY <2>5, NoMore
    <2>7. /\ Cardinality(Notified) \in Nat
          /\ Cardinality(Notified \cup {x.key}) <= Cardinality(Notified) + 1
      BY <2>5, OneMore
    <2>8. Cardinality(Notified') <= x.settings.max_communications_per_day
      BY <2>4, <2>6, <2>7
    <2> QED BY <2>4, <2>8
  <1>4. CASE ~(TakesEffect(x) /\ x.request.action = "SEND_REMINDER")
    <2>1. notifications' = notifications
      BY <1>1, <1>4 DEF Commit
    <2>2. Notified' = Notified
      BY <1>2, <2>1 DEF Notified
    <2> QED BY <1>2, <2>2
            DEF RemindersWithinLimit, _communications_last_24h
  <1> QED BY <1>3, <1>4

\* The amount a discount leaves in its row.
LEMMA DiscountAmount ==
    ASSUME TypeOK, NEW x \in Txn, TakesEffect(x),
           x.request.action = "OFFER_DISCOUNT"
    PROVE  ActionAfter(x).amount =
             as_money(AtRisk[CaseOf[x.key]] * x.request.percent)
  <1>1. x.outcome \in Result /\ x.request # ReadOnly
    BY DEF TakesEffect, Result, Final
  <1>2. \A n : AmountOf(x, n) = Discount(CaseOf[x.key], x.request.percent)
    BY DEF AmountOf, TakesEffect
  <1>3. PICK n : ActionAfter(x).amount = AmountOf(x, n)
    BY <1>1, RowAfter
  <1> QED BY <1>2, <1>3 DEF Discount

\* A discount that commits, with no other in between, fits in what the offers
\* of the day leave of the budget.
LEMMA CommitDiscountsFit ==
    ASSUME LimitInv, IndInv', NEW t \in Threads, Commit(t)
    PROVE  DiscountsWithinBudget'
  <1> SUFFICES ASSUME "discount" \notin overlapped',
                      NEW d \in 0..(MaxTime \div Day)
               PROVE  \E s \in Configured :
                        SumFunctionOnSet(Amounts', OfferedOn(d)')
                          <= s.max_daily_discount_budget
    BY DEF DiscountsWithinBudget
  <1> USE DEF LimitInv
  <1>1. PICK x \in Txn : x = txn[t] /\ CountsOK(x)
    BY DEF Commit, IndInv, TypeOK, OpenOK
  <1>2. PICK k \in Keys : k = x.key
    BY DEF Txn
  <1>3. ASSUME NEW j \in OfferedOn(d)', j # k
        PROVE  j \in OfferedOn(d) /\ actions'[j].amount = actions[j].amount
    <2>1. /\ j \in Keys
          /\ j \notin reused'
          /\ effects'[j] > 0
      BY DEF OfferedOn, TookEffect
    <2>2. /\ j \notin reused
          /\ actions'[j] = actions[j]
          /\ effects'[j] = effects[j]
          /\ last'[j] = last[j]
      BY <1>1, <1>2, <1>3, <2>1, EffectsAfter
    <2> QED BY <2>1, <2>2 DEF OfferedOn, TookEffect
  <1>4. /\ overlapped' = overlapped \cup Overlaps(x)
        /\ clock' = clock
        /\ RunOK(x)
        /\ actions'[x.row] = ActionAfter(x)
        /\ TakesEffect(x) => /\ last'[k].request = x.request
                             /\ last'[k].at = clock
    BY <1>1, <1>2, CommitDoes
  <1>5. CASE k \notin OfferedOn(d)'
    <2>1. PICK s \in Configured :
            SumFunctionOnSet(Amounts, OfferedOn(d))
              <= s.max_daily_discount_budget
      BY <1>4 DEF DiscountsWithinBudget
    <2>2. s.max_daily_discount_budget \in Nat
      BY ConfiguredAreSettings DEF Settings
    <2>3. /\ OfferedOn(d)' \subseteq OfferedOn(d)
          /\ \A j \in OfferedOn(d)' : actions'[j].amount = actions[j].amount
      BY <1>3, <1>5
    <2>4. TypeOK /\ TypeOK'
      BY DEF IndInv
    <2>5. SumFunctionOnSet(Amounts', OfferedOn(d)')
            <= s.max_daily_discount_budget
      BY <2>1, <2>2, <2>3, <2>4, BudgetShrinks
    <2> QED BY <2>5
  <1>6. CASE k \in OfferedOn(d)'
    <2>1. /\ k \notin reused'
          /\ effects'[k] > 0
          /\ last'[k].request.action = "OFFER_DISCOUNT"
          /\ last'[k].at \div Day = d
          /\ actions'[k].status = "SUCCEEDED"
      BY <1>6 DEF OfferedOn, TookEffect
    <2>2. TakesEffect(x) /\ x.row = k
      BY <1>1, <1>2, <2>1, EffectsAfter
    <2>3. /\ x.request.action = "OFFER_DISCOUNT"
          /\ clock \div Day = d
          /\ x.offers = Offers
      BY <1>4, <2>1, <2>2 DEF Overlaps
    <2> DEFINE s == x.settings
               spent == SumFunctionOnSet(Offers, Keys)
               offer == AtRisk[CaseOf[k]] * x.request.percent
               rest == OfferedOn(d)' \ {k}
    <2>4. /\ s \in Configured
          /\ s.max_daily_discount_budget \in Nat
          /\ spent * 100 + offer <= s.max_daily_discount_budget * 100
      BY <1>1, <1>2, <2>2, <2>3, ConfiguredAreSettings
      DEF CountsOK, ReadOK, RoomOK, Settings
    <2>5. spent \in Nat /\ offer \in Nat
      <3>1. x.request \in ProposedAction /\ CaseOf[k] \in Cases
        BY <2>2, KeysAssumption DEF TakesEffect, Txn
      <3>2. offer \in Nat
        BY <3>1, CasesAssumption DEF ProposedAction
      <3> QED BY <3>2, OffersAreTyped, FiniteAssumption, SumOfNats DEF IndInv
    <2>6. Amounts'[k] = as_money(offer)
      <3>1. ActionAfter(x).amount = as_money(offer)
        BY <1>2, <2>2, <2>3, DiscountAmount DEF IndInv
      <3> QED BY <1>4, <2>2, <3>1 DEF Amounts
    <2> HIDE DEF spent, offer
    <2>7. spent + as_money(offer) <= s.max_daily_discount_budget
      BY <2>4, <2>5, RoundedFits
    <2>8. /\ Amounts' \in [Keys -> Nat]
          /\ Amounts' \in [Keys -> Int]
          /\ Offers \in [Keys -> Nat]
          /\ OfferedOn(d)' \in SUBSET Keys
          /\ rest \in SUBSET (Keys \cap Keys)
      BY OffersAreTyped DEF Amounts, IndInv, TypeOK, ActionRow, OfferedOn
    <2>9. IsFiniteSet(OfferedOn(d)') /\ IsFiniteSet(rest)
      BY <2>8, NoMore
    <2>10. SumFunctionOnSet(Amounts', OfferedOn(d)') =
             Amounts'[k] + SumFunctionOnSet(Amounts', rest)
      BY <1>6, <2>8, <2>9, SumTakeOut
    <2>11. ASSUME NEW j \in rest
           PROVE  Amounts'[j] <= Offers[j]
      <3>1. /\ j \in OfferedOn(d)
            /\ j \in Keys
            /\ actions'[j].amount = actions[j].amount
        BY <1>3, <2>8
      <3>2. /\ j \notin reused
            /\ effects[j] > 0
            /\ last[j].request.action = "OFFER_DISCOUNT"
            /\ actions[j].created \div Day = d
            /\ actions[j].status = "SUCCEEDED"
        BY <3>1 DEF OfferedOn, TookEffect
      <3>3. /\ actions[j].type = "OFFER_DISCOUNT"
            /\ actions[j].status \in Counted
        BY <3>1, <3>2, EffectIsCounted
      <3>4. Offers[j] = actions[j].amount
        BY <2>3, <3>1, <3>2, <3>3 DEF Offers
      <3>5. Amounts'[j] = actions[j].amount
        BY <3>1 DEF Amounts
      <3> QED BY <2>8, <3>1, <3>4, <3>5
    <2>12. SumFunctionOnSet(Amounts', rest) <= spent
      <3> HIDE DEF rest
      <3> QED BY <2>8, <2>11, FiniteAssumption, SumMonotone DEF spent
    <2>13. /\ SumFunctionOnSet(Amounts', rest) \in Nat
           /\ as_money(offer) \in Nat
      <3> HIDE DEF rest
      <3> QED BY <2>5, <2>8, <2>9, MoneyIsNat, SumOfNats
    <2>14. SumFunctionOnSet(Amounts', OfferedOn(d)')
             <= s.max_daily_discount_budget
      <3> HIDE DEF rest, s
      <3> QED BY <2>4, <2>5, <2>6, <2>7, <2>10, <2>12, <2>13
    <2> QED BY <2>4, <2>14
  <1> QED BY <1>5, <1>6

\* An approved discount has counted its own row, unless that is of an earlier
\* day.
LEMMA CommitWaitsForMidnight ==
    ASSUME LimitInv, NEW t \in Threads, Commit(t)
    PROVE  ApprovedDiscountWaitsForMidnight'
  <1> SUFFICES ASSUME \A s \in Configured :
                        /\ s.max_daily_discount_budget
                             <= s.medium_value_approval_threshold
                        /\ s.max_daily_discount_budget
                             <= s.high_value_approval_threshold,
                      NEW j \in Keys, j \notin reused',
                      TookEffect(j, "OFFER_DISCOUNT")',
                      \A s \in Configured :
                        NeedsApproval(s, AtRisk[CaseOf[j]], "OFFER_DISCOUNT")
               PROVE  actions'[j].created \div Day < last'[j].at \div Day
    BY DEF ApprovedDiscountWaitsForMidnight
  <1> USE DEF LimitInv
  <1>1. PICK x \in Txn : x = txn[t] /\ CountsOK(x)
    BY DEF Commit, IndInv, TypeOK, OpenOK
  <1>2. /\ effects'[j] > 0
        /\ last'[j].request.action = "OFFER_DISCOUNT"
    BY DEF TookEffect
  <1>3. CASE j # x.key
    <2>1. /\ j \notin reused
          /\ actions'[j] = actions[j]
          /\ effects'[j] = effects[j]
          /\ last'[j] = last[j]
      BY <1>1, <1>2, <1>3, EffectsAfter
    <2> QED BY <1>2, <2>1 DEF ApprovedDiscountWaitsForMidnight, TookEffect
  <1>4. CASE j = x.key
    <2>1. /\ TakesEffect(x)
          /\ j \notin reused
          /\ x.approved => x.row = j
      BY <1>1, <1>2, <1>4, EffectsAfter
    <2>2. /\ RunOK(x)
          /\ last'[j].request = x.request
          /\ last'[j].at = clock
          /\ actions'[x.row] = ActionAfter(x)
          /\ CaseOf[j] \in Cases
      BY <1>1, <1>4, <2>1, CommitDoes
    <2>3. /\ x.request.action = "OFFER_DISCOUNT"
          /\ x.settings \in Configured
      BY <1>1, <1>2, <2>2 DEF CountsOK, ReadOK
    <2> DEFINE s == x.settings
               risk == AtRisk[CaseOf[j]]
               spent == SumFunctionOnSet(x.offers, Keys)
               row == actions[j]
    <2>4. x.approved /\ x.row = j
      BY <1>4, <2>1, <2>2, <2>3 DEF RunOK, Permitted
    <2>5. /\ row.status # "ABSENT"
          /\ row.type = "OFFER_DISCOUNT"
          /\ row.created <= clock
          /\ row.amount = risk
      BY <1>1, <1>4, <2>1, <2>2, <2>3, <2>4, OwnRowBefore
      DEF CountsOK, OwnRow
    <2>6. actions'[j].created = row.created
      BY <1>1, <2>2, <2>4, <2>5, RowAfter DEF IndInv
    <2>7. /\ row.created \in Nat
          /\ clock \in Nat
          /\ risk \in Nat
          /\ x.offers \in [Keys -> Nat]
      BY <2>2, CasesAssumption DEF IndInv, TypeOK, ActionRow, Txn
    <2>8. row.created \div Day # clock \div Day
      <3> SUFFICES ASSUME row.created \div Day = clock \div Day
                   PROVE  FALSE
        OBVIOUS
      <3>1. RoomOK(x)
        BY <1>1, <2>1 DEF CountsOK
      <3>2. x.offers[j] = risk
        BY <2>4, <2>5, <3>1 DEF RoomOK
      <3>3. spent \in Nat /\ risk <= spent
        BY <2>7, <3>2, FiniteAssumption, SumOfNats
      <3>4. risk * x.request.percent \in Nat
        BY <2>1, <2>7 DEF TakesEffect, Txn, ProposedAction
      <3>5. spent * 100 + risk * x.request.percent
              <= s.max_daily_discount_budget * 100
        BY <1>4, <2>3, <3>1 DEF RoomOK
      <3>6. /\ s.max_daily_discount_budget \in Nat
            /\ s.medium_value_approval_threshold \in Nat
            /\ s.high_value_approval_threshold \in Nat
        BY <2>3, ConfiguredAreSettings DEF Settings
      <3>7. \/ risk > s.high_value_approval_threshold
            \/ risk > s.medium_value_approval_threshold
        BY <2>3 DEF NeedsApproval
      <3>8. /\ s.max_daily_discount_budget
                 <= s.medium_value_approval_threshold
            /\ s.max_daily_discount_budget <= s.high_value_approval_threshold
        BY <2>3
      <3>9. PICK offer \in Nat : offer = risk * x.request.percent
        BY <3>4
      <3> HIDE DEF s, risk, spent, row
      <3>10. spent <= s.max_daily_discount_budget
        BY <3>3, <3>5, <3>6, <3>9
      <3> QED BY <2>7, <3>3, <3>6, <3>7, <3>8, <3>10
    <2>9. /\ row.created \div Day <= clock \div Day
          /\ row.created \div Day \in Int
          /\ clock \div Day \in Int
      BY <2>5, <2>7, DaysInOrder, BoundsAssumption
    <2> QED BY <2>2, <2>6, <2>8, <2>9
  <1> QED BY <1>3, <1>4

\* The commit of a run keeps the limits, by what the run had counted.
LEMMA CommitLimits ==
    ASSUME LimitInv, NEW t \in Threads, Commit(t)
    PROVE  LimitInv'
  <1>1. IndInv'
    BY CommitStep DEF LimitInv
  <1>2. PICK x \in Txn : x = txn[t]
    BY DEF Commit, LimitInv, IndInv, TypeOK
  <1>3. InForce'
    <2>1. UNCHANGED policy
      BY DEF Commit
    <2> QED BY <2>1 DEF InForce, settings, LimitInv
  <1>4. OpenOK'
    <2>1. /\ CaseOf[x.key] \in Cases
          /\ Elsewhere(CaseOf[x.key])
          /\ Leaves(CaseOf[x.key])
      BY <1>2, CommitDoes, CommitSpares DEF LimitInv
    <2> QED BY <2>1, OpenCounts DEF LimitInv
  <1> QED BY <1>1, <1>3, <1>4, CommitHistories, CommitRetriesFit,
             CommitRemindersFit, CommitDiscountsFit, CommitWaitsForMidnight
          DEF LimitInv

-----------------------------------------------------------------------------
(* The invariant *)

\* A quiet step keeps them, on whichever case.
LEMMA QuietLimits ==
    ASSUME LimitInv, IndInv', \E c \in Cases : Quiet(c)
    PROVE  LimitInv'
  BY QuietStep

\* As time passes the notifications of the last 24 hours become fewer.
LEMMA TickLimits ==
    ASSUME LimitInv, Tick
    PROVE  LimitInv'
  <1> USE DEF LimitInv
  <1>1. /\ clock' = clock + 1
        /\ clock \in Nat
        /\ \A t \in Threads : txn[t] = NULL
        /\ UNCHANGED <<policy, rows, txn, runs, history>>
    BY DEF Tick, IndInv, TypeOK
  <1>2. IndInv'
    BY TickStep
  <1>3. InForce' /\ OpenOK'
    BY <1>1 DEF InForce, settings, OpenOK
  <1>4. HistoriesOK'
    <2> SUFFICES ASSUME NEW k \in Keys
                 PROVE  HistoryOK(k)'
      BY DEF HistoriesOK
    <2>1. HistoryOK(k) /\ actions[k].created \in Nat
      BY DEF HistoriesOK, IndInv, TypeOK, ActionRow
    <2> QED BY <1>1, <2>1 DEF HistoryOK, OwnRow, rows, history
  <1>5. /\ RetriesWithinLimit'
        /\ DiscountsWithinBudget'
        /\ ApprovedDiscountWaitsForMidnight'
    BY <1>1, LimitsKept DEF rows, history
  <1>6. RemindersWithinLimit'
    <2> SUFFICES ASSUME "reminder" \notin overlapped'
                 PROVE  \E s \in Configured :
                          Cardinality(Notified')
                            <= s.max_communications_per_day
      BY DEF RemindersWithinLimit, _communications_last_24h
    <2>1. PICK s \in Configured :
            Cardinality(Notified) <= s.max_communications_per_day
      BY <1>1 DEF RemindersWithinLimit, _communications_last_24h, history
    <2>2. s.max_communications_per_day \in Nat
      BY ConfiguredAreSettings DEF Settings
    <2>3. Notified \in SUBSET Keys /\ Notified' \in SUBSET Notified
      <3>1. ASSUME NEW k \in Keys, notifications[k] # NULL
            PROVE  notifications[k] \in Nat
        BY <3>1 DEF IndInv, TypeOK
      <3> QED BY <1>1, <3>1, BoundsAssumption DEF Notified, rows
    <2>4. /\ Cardinality(Notified') \in Nat
          /\ Cardinality(Notified) \in Nat
          /\ Cardinality(Notified') <= Cardinality(Notified)
      BY <2>3, NoMore
    <2>5. Cardinality(Notified') <= s.max_communications_per_day
      BY <2>1, <2>2, <2>4
    <2> QED BY <2>5
  <1> QED BY <1>2, <1>3, <1>4, <1>5, <1>6

\* Open runs go on with the policy they have read.
LEMMA UpdatePolicyLimits ==
    ASSUME LimitInv, NEW p \in Policies, UpdatePolicy(p)
    PROVE  LimitInv'
  <1> USE DEF LimitInv
  <1>1. /\ policy' = p
        /\ ValidPolicy(p)
        /\ UNCHANGED <<clock, rows, txn, runs, history>>
    BY DEF UpdatePolicy
  <1>2. IndInv'
    BY UpdatePolicyStep
  <1>3. InForce'
    <2>1. p \in Settings /\ DOMAIN Defaults = DOMAIN p
      BY SettingsAssumption DEF Settings
    <2>2. merge_merchant(Defaults, p) = p
      BY <2>1 DEF merge_merchant, Settings
    <2> QED BY <1>1, <2>2 DEF InForce, settings, Configured
  <1>4. HistoriesOK'
    BY <1>1 DEF HistoriesOK, HistoryOK, OwnRow, rows, history
  <1>5. OpenOK'
    BY <1>1
    DEF OpenOK, CountsOK, ReadOK, TakesEffect, RoomOK, _retry_count, rows
  <1>6. /\ RetriesWithinLimit'
        /\ DiscountsWithinBudget'
        /\ ApprovedDiscountWaitsForMidnight'
    BY <1>1, LimitsKept DEF rows, history
  <1>7. RemindersWithinLimit'
    BY <1>1
    DEF RemindersWithinLimit, _communications_last_24h, Notified, rows,
        history
  <1> QED BY <1>2, <1>3, <1>4, <1>5, <1>6, <1>7

\* Answers that run nothing keep them.
LEMMA AnswersLimits ==
    ASSUME LimitInv, Answers
    PROVE  LimitInv'
  <1> USE DEF LimitInv
  <1> TypeOK /\ \A k \in Keys : CaseOf[k] \in Cases
    BY KeysAssumption DEF IndInv
  <1>1. ASSUME NEW c \in Cases, ActionEvaluated(c)
        PROVE  LimitInv'
    <2>1. Quiet(c)
      BY <1>1, MoveQuiet DEF ActionEvaluated, WalkTo, history
    <2> QED BY <1>1, <2>1, ActionEvaluatedStep, QuietLimits
  <1>2. ASSUME NEW k \in Keys, NEW request, ExecuteAnswered(k, request)
        PROVE  LimitInv'
    <2>1. Quiet(CaseOf[k])
      BY <1>2, MoveQuiet DEF ExecuteAnswered, WalkTo
    <2> QED BY <1>2, <2>1, ExecuteAnsweredStep, QuietLimits
  <1>3. ASSUME NEW k \in Keys, ApproveAnswered(k)
        PROVE  LimitInv'
    BY <1>3, ApproveAnsweredQuiet, ApproveAnsweredStep, QuietLimits
  <1>4. ASSUME NEW k \in Keys, ApproveExpired(k)
        PROVE  LimitInv'
    BY <1>4, ApproveExpiredQuiet, ApproveExpiredStep, QuietLimits
  <1>5. ASSUME NEW k \in Keys, Reject(k)
        PROVE  LimitInv'
    BY <1>5, RejectQuiet, RejectStep, QuietLimits
  <1> QED BY <1>1, <1>2, <1>3, <1>4, <1>5 DEF Answers

\* The processor and the verifier run no tool.
LEMMA ProcessQuiet ==
    ASSUME IndInv, NEW c \in Cases,
           Process(c) \/ \E found \in Findings[c] : Verify(c, found)
    PROVE  Quiet(c)
  <1>1. PICK v, r : Processes(c, v) /\ cases' = [cases EXCEPT ![c] = r]
    <2>1. CASE Process(c)
      <3>1. PICK v \in Verdict :
              /\ Processes(c, v)
              /\ cases' = [cases EXCEPT ![c].status =
                             Processed(cases[c].status, v)]
        BY <2>1 DEF Process
      <3>2. cases' = [cases EXCEPT ![c] =
                        [cases[c] EXCEPT !.status =
                           Processed(cases[c].status, v)]]
        BY <3>1
      <3> QED BY <3>1, <3>2
    <2>2. CASE \E found \in Findings[c] : Verify(c, found)
      BY <2>2 DEF Verify
    <2> QED BY <2>1, <2>2
  <1>2. /\ Unlocked(c)
        /\ UNCHANGED <<clock, policy, keys, notifications, txn, runs,
                       history>>
    BY DEF Process, Verify
  <1> QED BY <1>1, <1>2, ProcessedQuiet

\* So they keep the limits.
LEMMA ProcessLimits ==
    ASSUME LimitInv, NEW c \in Cases,
           Process(c) \/ \E found \in Findings[c] : Verify(c, found)
    PROVE  LimitInv'
  BY ProcessStep, VerifyStep, ProcessQuiet, QuietStep DEF LimitInv

\* A rollback keeps them.
LEMMA AbortLimits ==
    ASSUME LimitInv, NEW t \in Threads, Abort(t)
    PROVE  LimitInv'
  BY AbortStep, AbortQuiet, QuietLimits DEF LimitInv

\* An approval that opens a run keeps them.
LEMMA ApproveLimits ==
    ASSUME LimitInv, NEW t \in Threads, NEW k \in Keys, Approve(t, k)
    PROVE  LimitInv'
  <1> USE DEF LimitInv
  <1>1. PICK request : request = actions[k].request
    OBVIOUS
  <1>2. Decidable(k) /\ Begin(t, k, k, request, TRUE)
    BY <1>1 DEF Approve
  <1>3. request \in ProposedAction
    BY <1>1, <1>2 DEF IndInv, KeysOK, RowOK, Decidable, Asked
  <1>4. actions[k].status # "ABSENT"
    BY <1>2 DEF Decidable, Approvable
  <1>5. IndInv'
    BY <1>1, <1>2, <1>3, <1>4, BeginStep
  <1> QED BY <1>1, <1>2, <1>3, <1>5, BeginLimits

\* So does a request that opens one.
LEMMA ExecuteLimits ==
    ASSUME LimitInv, NEW t \in Threads, NEW k \in Keys, NEW row \in Keys,
           NEW request \in Calls[k], Execute(t, k, row, request)
    PROVE  LimitInv'
  <1> USE DEF LimitInv
  <1>1. request \in ProposedAction \cup {ReadOnly}
    BY CallsAssumption
  <1>2. /\ k \notin Planned
        /\ actions[row].status # "ABSENT" \/ row \notin Planned
    BY KeysAssumption DEF Execute, Planned
  <1>3. IndInv'
    BY <1>1, <1>2, BeginStep DEF Execute
  <1> QED BY <1>1, <1>2, <1>3, BeginLimits DEF Execute

\* The limits hold when nothing has been done.
LEMMA LimitsInitially ==
    ASSUME Init
    PROVE  LimitInv
  <1>1. IndInv
    BY Initially
  <1>2. InForce /\ OpenOK
    BY DEF Init, InForce, settings, Configured, OpenOK
  <1>3. HistoriesOK
    BY NullAssumption
    DEF Init, HistoriesOK, HistoryOK, OwnRow, NoAction, NoKey, Result
  <1>4. PICK s \in Configured : s = settings
    BY <1>2 DEF InForce
  <1>5. /\ s.max_retry_attempts \in Nat
        /\ s.max_communications_per_day \in Nat
        /\ s.max_daily_discount_budget \in Nat
    BY ConfiguredAreSettings DEF Settings
  <1>6. RetriesWithinLimit
    <2>1. \A c \in Cases : Retried(c) = {}
      BY DEF Init, Retried, TookEffect
    <2>2. Cardinality({}) = 0
      BY FS_EmptySet
    <2>3. \A c \in Cases : RetriesFit(c)
      BY <1>5, <2>1, <2>2 DEF RetriesFit
    <2> QED BY <2>3 DEF RetriesWithinLimit, RetriesFit
  <1>7. RemindersWithinLimit
    <2>1. Notified = {}
      BY DEF Init, Notified
    <2> QED BY <1>5, <2>1, FS_EmptySet
            DEF RemindersWithinLimit, _communications_last_24h
  <1>8. DiscountsWithinBudget
    <2>1. \A d : OfferedOn(d) = {}
      BY DEF Init, OfferedOn, TookEffect
    <2>2. SumFunctionOnSet(Amounts, {}) = 0
      BY SumEmpty
    <2> QED BY <1>5, <2>1, <2>2 DEF DiscountsWithinBudget
  <1>9. ApprovedDiscountWaitsForMidnight
    BY DEF Init, ApprovedDiscountWaitsForMidnight, TookEffect
  <1> QED BY <1>1, <1>2, <1>3, <1>6, <1>7, <1>8, <1>9 DEF LimitInv

\* A step that changes nothing keeps them.
LEMMA LimitsStutter ==
    ASSUME LimitInv, UNCHANGED vars
    PROVE  LimitInv'
  <1> USE DEF LimitInv, vars, rows, history
  <1>1. IndInv'
    BY Stutters
  <1>2. HistoriesOK' /\ InForce'
    BY DEF HistoriesOK, HistoryOK, OwnRow, InForce, settings
  <1>3. OpenOK'
    BY DEF OpenOK, CountsOK, ReadOK, TakesEffect, RoomOK, _retry_count
  <1>4. /\ RetriesWithinLimit'
        /\ DiscountsWithinBudget'
        /\ ApprovedDiscountWaitsForMidnight'
    BY LimitsKept
  <1>5. RemindersWithinLimit'
    BY DEF RemindersWithinLimit, _communications_last_24h, Notified
  <1> QED BY <1>1, <1>2, <1>3, <1>4, <1>5

\* Every step of the tools keeps the limits.
LEMMA NextLimits ==
    ASSUME LimitInv, Next
    PROVE  LimitInv'
  <1>1. CASE Runners
    BY <1>1, ExecuteLimits, ApproveLimits, CommitLimits, AbortLimits
    DEF Runners
  <1> QED BY <1>1, TickLimits, AnswersLimits, ProcessLimits,
             UpdatePolicyLimits DEF Next

\* The limits hold in every reachable state, with what the rows tell of the
\* keys (execute, approve_action, process_locked_case, patch_policy).
THEOREM LimitsHold == Spec => []LimitInv
  BY LimitsInitially, NextLimits, LimitsStutter, PTL DEF Spec

\* For every number of threads, cases and keys and every sequence of policies:
\* a case has no more retries than some policy in force allowed, and one fewer
\* when they need approval (_retry_count).
THEOREM RetriesWithinLimitHolds == Spec => []RetriesWithinLimit
  BY LimitsHold, PTL DEF LimitInv

\* A customer gets more reminders in 24 hours than a policy in force allowed
\* only if two runs counted them at the same time (_communications_last_24h).
THEOREM RemindersWithinLimitHolds == Spec => []RemindersWithinLimit
  BY LimitsHold, PTL DEF LimitInv

\* The discounts of a day go over the budget only if two runs counted it at
\* the same time, or through rows that no longer tell what their key did
\* (_discount_spent_today).
THEOREM DiscountsWithinBudgetHolds == Spec => []DiscountsWithinBudget
  BY LimitsHold, PTL DEF LimitInv

\* With a budget above neither approval threshold, an approved discount is
\* never given on the day it was asked for (_upsert_action,
\* _discount_spent_today).
THEOREM ApprovedDiscountWaitsForMidnightHolds ==
    Spec => []ApprovedDiscountWaitsForMidnight
  BY LimitsHold, PTL DEF LimitInv
=============================================================================
