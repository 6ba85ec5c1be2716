---------------------- MODULE AgentOrchestrationProofs ----------------------
(***************************************************************************)
(* Proofs about the agent orchestrator: for every number of threads, cases *)
(* and runs, whatever a language model answers and whatever probabilities  *)
(* are predicted.                                                          *)
(*                                                                         *)
(* To the tools, a step of an agent run is one of three things: a step of  *)
(* theirs, a move of a case that nobody has locked, or the opening of a    *)
(* run with a request that no client makes.  So what ToolExecutionProofs   *)
(* and ToolLimitsProofs show of the tools also holds with agents, and the  *)
(* rest is about what an open run has read while others went on.           *)
(***************************************************************************)
EXTENDS AgentOrchestration, ToolLimitsProofs

-----------------------------------------------------------------------------
(* The inductive invariant *)

\* The selected action was ranked, policy permitted it as it then stood, and
\* no permitted intervention that is worth anything is better than a tie.
BestOf(y, ranked) ==
    /\ y.allowed
    /\ y.action \in RECOVERY_INTERVENTIONS => y.value >= 0
    /\ \A z \in ranked :
         /\ z.allowed
         /\ z.action \in RECOVERY_INTERVENTIONS
         /\ z.value >= 0
         => /\ y.action \in RECOVERY_INTERVENTIONS
            /\ z.value - y.value <= TieEpsilon
Chosen(x) ==
    \E y \in x.ranked :
      /\ y.action = x.selected
      /\ y.requires_approval =>
           NeedsApproval(x.settings, AtRisk[CaseOf[x.run]], x.selected)
      /\ BestOf(y, x.ranked)

\* What the policy would read for the case of x, if nobody had written the
\* rows of other cases since it was ranked.
ReadThen(x) ==
    LET c == CaseOf[x.run] IN
    [amount_at_risk |-> AtRisk[c],
     hour |-> clock % Day,
     retry_count |-> _retry_count(c),
     communications_last_24h |-> Cardinality(x.notified),
     discount_spent_today |-> SumFunctionOnSet(x.offers, Keys),
     customer_opted_out |-> Customer.opted_out,
     suspicious |-> Customer.suspicious \/ cases[c].material = "SOURCE",
     discount_eligible |-> Customer.discount_eligible]

\* By that the selected action is still permitted.
Fits(x) ==
    ~Denied(x.settings, ReadThen(x), Proposal(x.selected),
            discount_cost(x.selected, AtRisk[CaseOf[x.run]]) * 100)

\* The tool run of an agent run.
OfRun(y, x) ==
    /\ y.key = x.run
    /\ ~y.approved
    /\ AllowsTool(x.limits)
    /\ y.request = _payload_for_action(x.selected)

RankingOK(t) ==
    LET x == ranking[t] IN
    x # NULL =>
      /\ agent_runs[x.run] = "ABSENT"
      /\ Chosen(x)
      /\ txn[t] = NULL => Fits(x)
      /\ txn[t] # NULL => OfRun(txn[t], x)

\* The lock of an agent run: no other run is open on its case.
Alone(t) ==
    ranking[t] # NULL =>
      \A u \in Threads \ {t} :
        /\ ranking[u] # NULL =>
             CaseOf[ranking[u].run] # CaseOf[ranking[t].run]
        /\ txn[u] # NULL => CaseOf[txn[u].key] # CaseOf[ranking[t].run]

\* Nobody names another row than the key's, and the key of an agent run is
\* used by that run or by the decision on its approval.
OwnRows(t) ==
    txn[t] # NULL =>
      /\ txn[t].row = txn[t].key
      /\ txn[t].key \in Agents => txn[t].approved \/ ranking[t] # NULL

\* The key of a run that is not complete was never used.
UnusedOK(r) ==
    agent_runs[r] # "COMPLETED" => /\ keys[r].status = "ABSENT"
                                   /\ actions[r].status = "ABSENT"

ThreadsOK == \A t \in Threads : RankingOK(t) /\ Alone(t) /\ OwnRows(t)
AgentsOK == \A r \in Agents : UnusedOK(r)
AgentRowsOK == /\ agent_runs \in [Agents -> AgentRunStatus]
               /\ ranking \in [Threads -> Ranking \cup {NULL}]
RetryOK == RetriedOK /\ OneRetryPayment

AgentInv == /\ LimitInv
            /\ RetryOK
            /\ AgentRowsOK
            /\ ThreadsOK
            /\ AgentsOK
            /\ ExecutorAgrees

-----------------------------------------------------------------------------
(* Where a run leaves its case *)

\* _advance goes forward on the walk, or stays.
LEMMA ReachedMoves ==
    ASSUME NEW s \in CaseStatus, NEW steps \in 0..5
    PROVE  /\ Reached(s, steps) \in CaseStatus
           /\ s \in OnWalk => Reached(s, steps) \in OnWalk
           /\ s \notin OnWalk => Reached(s, steps) = s
  <1> DEFINE targets == <<"TRIAGED", "DIAGNOSED", "DIAGNOSED", "POLICY_CHECK",
                          "POLICY_CHECK">>
  <1>1. ASSUME NEW i \in 1..5
        PROVE  targets[i] \in OnWalk
    <2>1. i = 1 \/ i = 2 \/ i = 3 \/ i = 4 \/ i = 5
      OBVIOUS
    <2> QED BY <2>1, WalkIs
  <1>2. OnWalk \subseteq CaseStatus
    BY WalkIs DEF CaseStatus
  <1>3. CASE steps = 0
    BY <1>2, <1>3 DEF Reached
  <1>4. CASE steps # 0
    <2>1. steps \in 1..5
      BY <1>4
    <2>2. PICK target \in OnWalk : target = targets[steps]
      BY <1>1, <2>1
    <2>3. Reached(s, steps) = Advanced(s, target)
      BY <1>4, <2>2 DEF Reached
    <2> QED BY <1>2, <2>2, <2>3 DEF Advanced
  <1> QED BY <1>3, <1>4

\* _fail_closed takes a case off the walk, or leaves it.
LEMMA FailClosedMoves ==
    ASSUME NEW s \in CaseStatus
    PROVE  /\ FailClosed(s) \in CaseStatus
           /\ s \notin Early => FailClosed(s) \notin Early
           /\ s \notin OnWalk => FailClosed(s) = s
           /\ FailClosed(s) = "AWAITING_APPROVAL" => s = "AWAITING_APPROVAL"
  BY WalkIs DEF FailClosed, CaseStatus, Early

\* What MoveStep needs of the status a run leaves.
Onward(s, to) ==
    /\ to \in CaseStatus
    /\ s \notin OnWalk => to \notin OnWalk
    /\ s \notin Early => to \notin Early
    /\ to = "AWAITING_APPROVAL" => s = "AWAITING_APPROVAL"

\* The stages of a run take a case onward, and so does its escalation.
LEMMA RunsGoOnward ==
    ASSUME NEW s \in CaseStatus, NEW steps \in 0..5
    PROVE  /\ Onward(s, s)
           /\ Onward(s, Reached(s, steps))
           /\ Onward(s, FailClosed(Reached(s, steps)))
  <1>1. PICK to \in CaseStatus : /\ to = Reached(s, steps)
                                 /\ s \in OnWalk => to \in OnWalk
                                 /\ s \notin OnWalk => to = s
    BY ReachedMoves
  <1>2. /\ FailClosed(to) \in CaseStatus
        /\ to \notin Early => FailClosed(to) \notin Early
        /\ to \notin OnWalk => FailClosed(to) = to
        /\ FailClosed(to) = "AWAITING_APPROVAL" => to = "AWAITING_APPROVAL"
    BY FailClosedMoves
  <1>3. OnWalk \subseteq Early /\ "AWAITING_APPROVAL" \notin OnWalk
    BY WalkIs DEF Early
  <1>4. Onward(s, s)
    BY DEF Onward
  <1>5. Onward(s, to)
    BY <1>1, <1>3 DEF Onward, Early
  <1>6. Onward(s, FailClosed(to))
    BY <1>1, <1>2, <1>3 DEF Onward
  <1> QED BY <1>1, <1>4, <1>5, <1>6

\* A run that touches nothing but the status of its case.
MovesCase(c) ==
    /\ Unlocked(c)
    /\ \E to : /\ Onward(cases[c].status, to)
               /\ cases' = [cases EXCEPT ![c].status = to]
    /\ UNCHANGED <<clock, policy, actions, keys, approvals, notifications, txn,
                   runs, history>>

-----------------------------------------------------------------------------
(* What agents do to the tools *)

\* Such a run keeps what is known of the tools.
LEMMA MovesKeepTools ==
    ASSUME LimitInv, RetryOK, NEW c \in Cases, MovesCase(c)
    PROVE  LimitInv' /\ RetryOK' /\ Quiet(c)
  <1>1. PICK to \in CaseStatus :
          /\ Onward(cases[c].status, to)
          /\ cases' = [cases EXCEPT ![c].status = to]
    BY DEF MovesCase, Onward
  <1>2. /\ Unlocked(c)
        /\ UNCHANGED <<clock, policy, actions, keys, approvals,
                       notifications, txn, runs, history>>
        /\ IndInv
        /\ TypeOK
    BY DEF MovesCase, LimitInv, IndInv
  <1>3. answers' \in [Keys -> SUBSET Result]
    BY <1>2 DEF history, TypeOK
  <1>4. IndInv'
    BY <1>1, <1>2, <1>3, MoveStep DEF Onward, history
  <1>5. Quiet(c)
    BY <1>1, <1>2, MoveQuiet DEF history
  <1>6. NoRetry
    BY <1>1, <1>2 DEF NoRetry, history, TypeOK, CaseRow
  <1> QED BY <1>4, <1>5, <1>6, QuietStep, NoRetryKeeps DEF RetryOK

\* The tool call of an agent run.
LEMMA PayloadIsProposed ==
    ASSUME NEW a \in RecoveryActionType
    PROVE  /\ _payload_for_action(a) \in ProposedAction
           /\ _payload_for_action(a).action = a
  BY CostsAssumption DEF _payload_for_action, Proposal, ProposedAction

\* The key of an agent run is a key of its case, and no client uses it.
LEMMA AgentKeys ==
    ASSUME NEW r \in Agents
    PROVE  /\ r \in Keys
           /\ CaseOf[r] \in Cases
           /\ r \notin Planned
           /\ Calls[r] = {}
  BY AgentsAssumption, KeysAssumption DEF Planned

\* The tool call of a run is one that Begin allows.
LEMMA ExecuteSelectedKeepsTools ==
    ASSUME AgentInv, NEW t \in Threads, ExecuteSelected(t)
    PROVE  LimitInv' /\ RetryOK'
  <1>1. PICK x \in Ranking : x = ranking[t]
    BY DEF AgentInv, AgentRowsOK, ExecuteSelected
  <1>2. /\ x.run \in Agents
        /\ x.selected \in RecoveryActionType
    BY DEF Ranking
  <1>3. PICK request \in ProposedAction :
          request = _payload_for_action(x.selected)
    BY <1>2, PayloadIsProposed
  <1>4. Begin(t, x.run, x.run, request, FALSE)
    BY <1>1, <1>3 DEF ExecuteSelected
  <1>5. x.run \in Keys /\ x.run \notin Planned
    BY <1>2, AgentKeys
  <1>6. LimitInv /\ IndInv /\ RetryOK
    BY DEF AgentInv, LimitInv
  <1>7. IndInv'
    BY <1>4, <1>5, <1>6, BeginStep
  <1>8. NoRetry
    BY <1>4 DEF Begin, rows, history, NoRetry
  <1>9. LimitInv'
    BY <1>4, <1>5, <1>6, <1>7, BeginLimits
  <1> QED BY <1>6, <1>8, <1>9, NoRetryKeeps DEF RetryOK

\* What clients, approvers, the verifier, operators and time do is a step of
\* the tools.
LEMMA ToolStepsAreSteps ==
    ASSUME ToolSteps
    PROVE  Next
  BY DEF ToolSteps, Next, Runners, Answers

\* The steps of clients, approvers and operators keep it as before.
LEMMA NextKeepsTools ==
    ASSUME LimitInv, RetryOK, [Next]_vars
    PROVE  LimitInv' /\ RetryOK'
  BY NextLimits, LimitsStutter, NextRetries DEF RetryOK, LimitInv

\* Nobody else has the case of an open agent run locked.
LEMMA OpenRunHasLock ==
    ASSUME AgentInv, NEW t \in Threads, ranking[t] # NULL, txn[t] = NULL
    PROVE  Unlocked(CaseOf[ranking[t].run])
  BY DEF AgentInv, ThreadsOK, Alone, Unlocked

\* A case has a status of the graph.
LEMMA CaseStatusTyped ==
    ASSUME TypeOK, NEW c \in Cases
    PROVE  cases[c].status \in CaseStatus
  BY DEF TypeOK, CaseRow

\* A run that ends before its tool moves its case only.
LEMMA EndsMoves ==
    ASSUME LimitInv, NEW r \in Agents, NEW result, NEW s,
           Starts(r), Onward(cases[CaseOf[r]].status, s), Ends(r, result, s)
    PROVE  MovesCase(CaseOf[r])
  BY DEF Starts, Ends, MovesCase

\* A run that reaches its step limit only moves its case.
LEMMA StepLimitMoves ==
    ASSUME LimitInv, NEW r \in Agents, NEW limits \in Limits,
           StepLimit(r, limits)
    PROVE  MovesCase(CaseOf[r])
  <1>1. PICK s \in CaseStatus : s = cases[CaseOf[r]].status
    BY AgentKeys, CaseStatusTyped DEF LimitInv, IndInv
  <1>2. limits.max_agent_steps \in 0..5
    BY LimitsAssumption DEF StepLimit
  <1>3. Onward(s, FailClosed(Reached(s, limits.max_agent_steps)))
    BY <1>2, RunsGoOnward
  <1> QED BY <1>1, <1>3, EndsMoves DEF StepLimit

\* So does one that an error leaves RUNNING.
LEMMA LeftRunningMoves ==
    ASSUME LimitInv, NEW r \in Agents, NEW limits \in Limits,
           LeftRunning(r, limits)
    PROVE  MovesCase(CaseOf[r])
  <1>1. PICK s \in CaseStatus : s = cases[CaseOf[r]].status
    BY AgentKeys, CaseStatusTyped DEF LimitInv, IndInv
  <1>2. Onward(s, Reached(s, 3)) /\ Onward(s, s)
    BY RunsGoOnward
  <1> QED BY <1>1, <1>2, EndsMoves DEF LeftRunning

\* So does one that ends with its ranking.
LEMMA RankEndsMoves ==
    ASSUME LimitInv, NEW r \in Agents, Starts(r),
           Ends(r, "COMPLETED", Reached(cases[CaseOf[r]].status, 5))
    PROVE  MovesCase(CaseOf[r])
  <1>1. PICK s \in CaseStatus : s = cases[CaseOf[r]].status
    BY AgentKeys, CaseStatusTyped DEF LimitInv, IndInv
  <1>2. Onward(s, Reached(s, 5))
    BY RunsGoOnward
  <1> QED BY <1>1, <1>2, EndsMoves

\* So does one that may not call its tool.
LEMMA ToolLimitMoves ==
    ASSUME AgentInv, NEW t \in Threads, ToolLimit(t)
    PROVE  MovesCase(CaseOf[ranking[t].run])
  <1>1. PICK x \in Ranking : x = ranking[t]
    BY DEF AgentInv, AgentRowsOK, ToolLimit
  <1>2. x.run \in Agents /\ x # NULL /\ ~AllowsTool(x.limits)
    BY <1>1 DEF Ranking, ToolLimit
  <1>3. txn[t] = NULL
    BY <1>1, <1>2 DEF AgentInv, ThreadsOK, RankingOK, OfRun
  <1>4. Unlocked(CaseOf[x.run])
    BY <1>1, <1>2, <1>3, OpenRunHasLock
  <1>5. PICK s \in CaseStatus : s = cases[CaseOf[x.run]].status
    BY <1>2, AgentKeys, CaseStatusTyped DEF AgentInv, LimitInv, IndInv
  <1>6. Onward(s, FailClosed(Reached(s, 5)))
    BY RunsGoOnward
  <1>7. cases' = [cases EXCEPT ![CaseOf[x.run]].status =
                    FailClosed(Reached(s, 5))]
    BY <1>1, <1>5 DEF ToolLimit
  <1> QED BY <1>1, <1>4, <1>5, <1>6, <1>7 DEF ToolLimit, MovesCase

-----------------------------------------------------------------------------
(* What the optimizer selects *)

\* A set of numbers that is not empty has a least one.
LEMMA LeastNumber ==
    ASSUME NEW T \in SUBSET Nat, T # {}
    PROVE  \E n \in T : \A m \in T : n <= m
  <1> DEFINE R == {p \in Nat \X Nat : p[1] < p[2]}
  <1>1. IsWellFoundedOn(R, Nat)
    BY NatLessThanWellFounded, Zenon DEF OpToRel
  <1> HIDE DEF R
  <1>2. PICK n \in T : \A m \in T : <<m, n>> \notin R
    BY <1>1, WFMin
  <1>3. \A m \in T : ~(m < n)
    BY <1>2 DEF R
  <1> QED BY <1>3

\* A set of candidates with one for an action at most, of bounded value.
Comparable(pool) ==
    /\ pool \subseteq Candidate
    /\ \A x, y \in pool : x.action = y.action => x = y
    /\ \E bound \in Int : \A x \in pool : x.value <= bound

\* Some candidate is the best, so some are tied with it.
LEMMA SomeAreTied ==
    ASSUME NEW pool, Comparable(pool), pool # {}
    PROVE  Tied(pool) # {}
  <1>1. PICK bound \in Int : \A x \in pool : x.value <= bound
    BY DEF Comparable
  <1>2. \A x \in pool : x.value \in Int
    BY DEF Comparable, Candidate
  <1> DEFINE T == {bound - x.value : x \in pool}
  <1>3. T \in SUBSET Nat /\ T # {}
    BY <1>1, <1>2
  <1>4. PICK n \in T : \A m \in T : n <= m
    BY <1>3, LeastNumber
  <1>5. PICK x \in pool : n = bound - x.value
    BY <1>4
  <1>6. \A y \in pool : y.value - x.value <= TieEpsilon
    <2> SUFFICES ASSUME NEW y \in pool
                 PROVE  y.value - x.value <= TieEpsilon
      OBVIOUS
    <2>1. n <= bound - y.value
      BY <1>4
    <2> QED BY <1>2, <1>5, <2>1, CostsAssumption
  <1> QED BY <1>5, <1>6 DEF Tied

\* No two actions have the same friction: it breaks every tie.
LEMMA FrictionRanks ==
    /\ FRICTION_RANK \in [RecoveryActionType -> Nat]
    /\ \A a, b \in RecoveryActionType :
         FRICTION_RANK[a] = FRICTION_RANK[b] => a = b
  BY DEF FRICTION_RANK, RecoveryActionType

\* One of the tied is before all others: _max_with_ties returns a member of
\* the pool, and no arbitrary one.
LEMMA MaxIsTied ==
    ASSUME NEW pool, Comparable(pool), pool # {}
    PROVE  _max_with_ties(pool) \in Tied(pool)
  <1> DEFINE T == {FRICTION_RANK[x.action] : x \in Tied(pool)}
  <1>1. /\ Tied(pool) \subseteq pool
        /\ \A x \in pool : x.action \in RecoveryActionType
        /\ \A x, y \in pool : x.action = y.action => x = y
    BY DEF Tied, Comparable, Candidate
  <1>2. T \in SUBSET Nat /\ T # {}
    BY <1>1, FrictionRanks, SomeAreTied
  <1>3. PICK n \in T : \A m \in T : n <= m
    BY <1>2, LeastNumber
  <1>4. PICK x \in Tied(pool) : n = FRICTION_RANK[x.action]
    BY <1>3
  <1>5. ASSUME NEW y \in Tied(pool) \ {x}
        PROVE  TieBefore(x, y)
    <2>1. FRICTION_RANK[x.action] <= FRICTION_RANK[y.action]
      BY <1>3, <1>4
    <2>2. x.action # y.action
      BY <1>1, <1>4
    <2>3. FRICTION_RANK[x.action] < FRICTION_RANK[y.action]
      BY <1>1, <1>4, <2>1, <2>2, FrictionRanks
    <2>4. 1 \in 1..4 /\ 1..(1 - 1) = {}
      OBVIOUS
    <2> QED BY <2>3, <2>4 DEF TieBefore
  <1> QED BY <1>4, <1>5 DEF _max_with_ties

\* Candidates stay comparable when some are left out.
LEMMA WorthwhileIsComparable ==
    ASSUME NEW ranked, Comparable(ranked)
    PROVE  Comparable(Worthwhile(ranked))
  <1>1. Worthwhile(ranked) \subseteq ranked
    BY DEF Worthwhile, eligible_candidates
  <1> QED BY <1>1 DEF Comparable

\* select_action: what is selected was ranked and permitted, and nothing that
\* is permitted and worth anything is better than a tie.
LEMMA SelectedIsBest ==
    ASSUME NEW ranked, Comparable(ranked), NEW suspicious \in BOOLEAN,
           NEW selected, selected = select_action(ranked, suspicious),
           selected # "NONE"
    PROVE  \E y \in ranked : y.action = selected /\ BestOf(y, ranked)
  <1> DEFINE W == Worthwhile(ranked)
  <1>1. CASE W # {}
    <2>1. PICK y \in Tied(W) : y = _max_with_ties(W)
      BY <1>1, WorthwhileIsComparable, MaxIsTied
    <2>2. /\ y \in ranked
          /\ y.allowed
          /\ y.action \in RECOVERY_INTERVENTIONS
          /\ y.value >= 0
          /\ \A z \in W : z.value - y.value <= TieEpsilon
      BY <2>1 DEF Tied, Worthwhile, eligible_candidates
    <2>3. selected = y.action
      BY <1>1, <2>1 DEF select_action
    <2>4. \A z \in ranked : /\ z.allowed
                            /\ z.action \in RECOVERY_INTERVENTIONS
                            /\ z.value >= 0
                            => z \in W
      BY DEF Worthwhile, eligible_candidates
    <2>5. BestOf(y, ranked)
      BY <2>2, <2>4 DEF BestOf
    <2> QED BY <2>2, <2>3, <2>5
  <1>2. CASE W = {}
    <2>1. selected = _select_control(ranked, suspicious)
      BY <1>2 DEF select_action
    <2>2. /\ selected \in {"ESCALATE", "DO_NOTHING"}
          /\ selected \in {y.action : y \in eligible_candidates(ranked)}
      BY <2>1 DEF _select_control, ControlOrder
    <2>3. PICK y \in ranked : y.allowed /\ y.action = selected
      BY <2>2 DEF eligible_candidates
    <2>4. selected \notin RECOVERY_INTERVENTIONS
      BY <2>2 DEF RECOVERY_INTERVENTIONS, AUTOMATIC_ACTIONS
    <2>5. BestOf(y, ranked)
      BY <1>2, <2>3, <2>4 DEF BestOf, Worthwhile, eligible_candidates
    <2> QED BY <2>3, <2>5
  <1> QED BY <1>1, <1>2

\* The candidates are actions of the closed list, whoever proposed them.
LEMMA StrategiesAreClosed ==
    ASSUME NEW c \in Cases, NEW candidates \in Strategies(c)
    PROVE  candidates \subseteq RecoveryActionType
  <1>1. CONTROL_STRATEGIES \subseteq RecoveryActionType
    BY DEF CONTROL_STRATEGIES, RecoveryActionType
  <1>2. \A code, d : fallback_strategy(code, d) \subseteq RecoveryActionType
    BY <1>1 DEF fallback_strategy
  <1> QED BY <1>2 DEF Strategies, try_llm_model, closed_enum_only

\* What is added up to the value of an action.
LEMMA ScoredIsCandidate ==
    ASSUME NEW s, NEW ctx, ctx.amount_at_risk \in Nat,
           NEW a \in RecoveryActionType, NEW p \in 0..100
    PROVE  LET x == Scored(s, ctx, a, p) IN
           /\ x \in Candidate
           /\ x.action = a
           /\ expected_recovered_revenue(p, ctx.amount_at_risk) \in Nat
           /\ x.value <= expected_recovered_revenue(p, ctx.amount_at_risk)
  <1> DEFINE amount == ctx.amount_at_risk
             revenue == expected_recovered_revenue(p, amount)
             cost == DirectCost(a, amount)
             x == Scored(s, ctx, a, p)
  <1>1. /\ Costs[a].intervention \in Nat
        /\ Costs[a].communication \in Nat
        /\ Costs[a].risk \in Nat
    BY CostsAssumption DEF ActionCosts
  <1>2. revenue \in Nat
    <2>1. p * amount \in Nat
      OBVIOUS
    <2> QED BY <2>1, MoneyIsNat DEF expected_recovered_revenue
  <1>3. discount_cost(a, amount) \in Nat
    <2>1. PICK percent \in Nat : percent = Proposal(a).percent
      BY CostsAssumption DEF Proposal
    <2>2. amount * percent \in Nat
      OBVIOUS
    <2> QED BY <2>1, <2>2, MoneyIsNat DEF discount_cost
  <1>4. cost \in Nat
    BY <1>1, <1>3 DEF DirectCost
  <1>5. expected_net_recovery(a, p, amount) = revenue - cost - Costs[a].risk
    BY DEF expected_net_recovery
  <1> HIDE DEF revenue, cost
  <1>6. /\ expected_net_recovery(a, p, amount) \in Int
        /\ expected_net_recovery(a, p, amount) <= revenue
    BY <1>1, <1>2, <1>4, <1>5
  <1>7. x = [action |-> a, value |-> expected_net_recovery(a, p, amount),
             cost |-> cost, risk |-> Costs[a].risk,
             allowed |-> QuotedVerdict(s, ctx, a) \in {"ALLOW", "APPROVE"},
             requires_approval |-> QuotedVerdict(s, ctx, a) = "APPROVE"]
    BY DEF Scored, cost
  <1> HIDE DEF x
  <1>8. x \in Candidate /\ x.action = a /\ x.value <= revenue
    BY <1>1, <1>4, <1>6, <1>7 DEF Candidate
  <1> QED BY <1>2, <1>8 DEF revenue, x

\* The candidates of a ranking are comparable.
LEMMA RankedIsComparable ==
    ASSUME NEW ctx, ctx.amount_at_risk \in Nat,
           NEW candidates \in SUBSET RecoveryActionType, NEW cache \in Caches
    PROVE  Comparable(optimize(ctx, candidates, cache))
  <1> DEFINE ranked == optimize(ctx, candidates, cache)
             p(a) == resolve_probability(cache, a)
             most(a) == expected_recovered_revenue(p(a), ctx.amount_at_risk)
  <1>1. \A a \in RecoveryActionType : p(a) \in 0..100
    BY QuotesAssumption DEF resolve_probability
  <1> HIDE DEF p
  <1>2. \A a \in RecoveryActionType :
          LET x == Scored(settings, ctx, a, p(a)) IN
          /\ x \in Candidate
          /\ x.action = a
          /\ most(a) \in Nat
          /\ x.value <= most(a)
    BY <1>1, ScoredIsCandidate
  <1> HIDE DEF most
  <1>3. ranked = {Scored(settings, ctx, a, p(a)) : a \in candidates}
    BY DEF optimize, p
  <1> HIDE DEF ranked
  <1>4. ranked \subseteq Candidate
    BY <1>2, <1>3
  <1>5. \A x, y \in ranked : x.action = y.action => x = y
    BY <1>2, <1>3
  <1>6. PICK bound \in Int : \A a \in RecoveryActionType : most(a) <= bound
    <2> DEFINE bound == most("RETRY_NOW") + most("RETRY_LATER")
                          + most("SEND_PAYMENT_LINK") + most("SEND_REMINDER")
                          + most("OFFER_DISCOUNT") + most("ESCALATE")
                          + most("DO_NOTHING")
    <2>1. \A a \in RecoveryActionType : most(a) \in Nat
      BY <1>2
    <2>2. bound \in Int /\ \A a \in RecoveryActionType : most(a) <= bound
      BY <2>1 DEF RecoveryActionType
    <2> QED BY <2>2
  <1>7. \A x \in ranked : x.value <= bound
    <2> SUFFICES ASSUME NEW a \in candidates
                 PROVE  Scored(settings, ctx, a, p(a)).value <= bound
      BY <1>3
    <2>1. PICK v \in Int : v = Scored(settings, ctx, a, p(a)).value
      BY <1>2 DEF Candidate
    <2>2. v <= most(a) /\ most(a) \in Nat /\ most(a) <= bound
      BY <1>2, <1>6, <2>1
    <2> QED BY <2>1, <2>2
  <1> QED BY <1>4, <1>5, <1>6, <1>7 DEF Comparable, ranked

\* An action that is ranked as permitted is not denied by what was read, and
\* needs approval only if its value says so.
LEMMA AllowedIsNotDenied ==
    ASSUME NEW s, NEW ctx, NEW a, NEW p, NEW y, y = Scored(s, ctx, a, p),
           y.allowed
    PROVE  /\ ~Denied(s, ctx, Proposal(a),
                      discount_cost(a, ctx.amount_at_risk) * 100)
           /\ y.requires_approval => NeedsApproval(s, ctx.amount_at_risk, a)
  <1> DEFINE v == QuotedVerdict(s, ctx, a)
             d == Denied(s, ctx, Proposal(a),
                         discount_cost(a, ctx.amount_at_risk) * 100)
  <1>1. /\ y.allowed = (v \in {"ALLOW", "APPROVE"})
        /\ y.requires_approval = (v = "APPROVE")
    BY DEF Scored
  <1>2. Proposal(a).action = a
    BY DEF Proposal
  <1>3. /\ v \in {"ALLOW", "APPROVE"} => ~d
        /\ v = "APPROVE" => NeedsApproval(s, ctx.amount_at_risk, a)
    <2> HIDE DEF d
    <2> QED BY <1>2 DEF QuotedVerdict, EvaluateOffer, d
  <1> QED BY <1>1, <1>3

\* If the rows that are counted are as they were, so is the context.
LEMMA ReadThenIs ==
    ASSUME NEW x, x.offers = Offers, x.notified = Notified
    PROVE  ReadThen(x) = build_policy_context(CaseOf[x.run])
  BY DEF ReadThen, build_policy_context, _communications_last_24h,
         _discount_spent_today

\* Rank: what an open run has selected.
LEMMA RankChooses ==
    ASSUME TypeOK, NEW r \in Agents, NEW limits \in Limits,
           NEW candidates \in Strategies(CaseOf[r]),
           NEW ranked \in Rankings(CaseOf[r], candidates),
           NEW selected,
           selected = select_action(ranked,
                        build_policy_context(CaseOf[r]).suspicious),
           selected # "NONE",
           NEW x, x = [run |-> r, limits |-> limits, ranked |-> ranked,
                       selected |-> selected, settings |-> settings,
                       offers |-> Offers, notified |-> Notified]
    PROVE  x \in Ranking /\ Chosen(x) /\ Fits(x)
  <1>1. PICK c \in Cases : c = CaseOf[r]
    BY AgentKeys
  <1>2. PICK ctx : ctx = build_policy_context(c)
    OBVIOUS
  <1>3. /\ ctx.amount_at_risk = AtRisk[c]
        /\ AtRisk[c] \in Nat
        /\ ctx.suspicious \in BOOLEAN
    BY <1>2, CasesAssumption, CustomerAssumption DEF build_policy_context
  <1>4. PICK cache \in Caches : ranked = optimize(ctx, candidates, cache)
    BY <1>1, <1>2 DEF Rankings
  <1>5. candidates \in SUBSET RecoveryActionType
    BY <1>1, StrategiesAreClosed
  <1>6. Comparable(ranked)
    BY <1>3, <1>4, <1>5, RankedIsComparable
  <1>7. PICK y \in ranked : y.action = selected /\ BestOf(y, ranked)
    BY <1>1, <1>2, <1>3, <1>6, SelectedIsBest
  <1>8. PICK p \in 0..100 : y = Scored(settings, ctx, selected, p)
    <2>1. PICK a \in candidates :
            y = Scored(settings, ctx, a, resolve_probability(cache, a))
      BY <1>4, <1>7 DEF optimize
    <2>2. resolve_probability(cache, a) \in 0..100
      BY <1>5, QuotesAssumption DEF resolve_probability
    <2>3. y.action = a
      BY <1>3, <1>5, <2>1, <2>2, ScoredIsCandidate
    <2> QED BY <1>7, <2>1, <2>2, <2>3
  <1>9. /\ ~Denied(settings, ctx, Proposal(selected),
                   discount_cost(selected, AtRisk[c]) * 100)
        /\ y.requires_approval => NeedsApproval(settings, AtRisk[c], selected)
    BY <1>3, <1>7, <1>8, AllowedIsNotDenied DEF BestOf
  <1>10. /\ x.run = r /\ x.ranked = ranked /\ x.selected = selected
         /\ x.settings = settings /\ x.offers = Offers
         /\ x.notified = Notified
    OBVIOUS
  <1>11. Chosen(x)
    BY <1>1, <1>7, <1>9, <1>10 DEF Chosen
  <1>12. Fits(x)
    <2>1. ReadThen(x) = ctx
      BY <1>1, <1>2, <1>10, ReadThenIs
    <2> QED BY <1>1, <1>9, <1>10, <2>1 DEF Fits
  <1>13. x \in Ranking
    <2>1. ranked \in SUBSET Candidate /\ selected \in RecoveryActionType
      BY <1>6, <1>7 DEF Comparable, Candidate
    <2>2. /\ settings \in Settings
          /\ Offers \in [Keys -> Nat]
          /\ Notified \in SUBSET Keys
      BY OffersAreTyped DEF TypeOK, Notified
    <2> QED BY <2>1, <2>2 DEF Ranking
  <1> QED BY <1>11, <1>12, <1>13

-----------------------------------------------------------------------------
(* The second look at the policy *)

\* A discount that is denied is denied when it is larger.
LEMMA LargerIsDenied ==
    ASSUME NEW s \in Settings, NEW ctx, ctx.discount_spent_today \in Nat,
           NEW p, NEW small \in Nat, NEW large \in Nat, small <= large,
           Denied(s, ctx, p, small)
    PROVE  Denied(s, ctx, p, large)
  <1>1. s.max_daily_discount_budget \in Nat
    BY DEF Settings
  <1>2. OverBudget(s, ctx, small) => OverBudget(s, ctx, large)
    BY <1>1 DEF OverBudget
  <1>3. DiscountRules(s, ctx, p, small) => DiscountRules(s, ctx, p, large)
    BY <1>2 DEF DiscountRules
  <1> QED BY <1>3 DEF Denied

\* A run is blocked only by a denial.
LEMMA BlockedIsDenied ==
    ASSUME NEW c \in Cases, NEW s, NEW row, NEW request \in ProposedAction,
           NEW approved, "BLOCKED" \in Outcomes(c, s, row, request, approved)
    PROVE  Denied(settings, build_policy_context(c), request,
                  AtRisk[c] * request.percent)
  <1> DEFINE v == Evaluated(c, request)
             ctx == build_policy_context(c)
             offer == AtRisk[c] * request.percent
  <1>1. v = EvaluateOffer(settings, ctx, request, offer)
    <2>1. ctx.amount_at_risk = AtRisk[c]
      BY DEF build_policy_context
    <2> HIDE DEF ctx
    <2> QED BY <2>1 DEF Evaluated, evaluate_action, ctx
  <1>2. v \in {"DENY", "DENY_SOURCE"}
    <2>1. request # ReadOnly
      BY ReadOnlyIsNoAction
    <2> HIDE DEF v
    <2> QED BY <2>1 DEF Outcomes, v
  <1> HIDE DEF v, ctx, offer
  <1>3. Denied(settings, ctx, request, offer)
    BY <1>1, <1>2 DEF EvaluateOffer
  <1> QED BY <1>3 DEF ctx, offer

\* The executor denies the request of a run that fitted what was read only if
\* something it reads has changed, or the discount is another one.
LEMMA SecondLook ==
    ASSUME TypeOK, NEW x \in Ranking, Fits(x), NEW request,
           request = _payload_for_action(x.selected), NEW s,
           "BLOCKED" \in Outcomes(CaseOf[x.run], s, x.run, request, FALSE),
           x.settings = settings, x.offers = Offers, x.notified = Notified
    PROVE  \/ RoundedDown(CaseOf[x.run], x.selected)
           \/ x.selected = "OFFER_DISCOUNT" /\ DiscountPercent = 0
  <1>1. PICK c \in Cases : c = CaseOf[x.run]
    BY AgentKeys DEF Ranking
  <1>2. x.selected \in RecoveryActionType
    BY DEF Ranking
  <1> SUFFICES ASSUME ~RoundedDown(c, x.selected),
                      ~(x.selected = "OFFER_DISCOUNT" /\ DiscountPercent = 0)
               PROVE  FALSE
    BY <1>1
  <1>3. request = Proposal(x.selected) /\ request \in ProposedAction
    BY <1>2, PayloadIsProposed DEF _payload_for_action
  <1>4. PICK ctx : ctx = build_policy_context(c)
    OBVIOUS
  <1>5. /\ ReadThen(x) = ctx
        /\ ctx.discount_spent_today \in Nat
    BY <1>1, <1>4, ReadThenIs, CountsAreNat DEF build_policy_context
  <1>6. /\ AtRisk[c] \in Nat
        /\ request.percent \in Nat
        /\ settings \in Settings
    BY <1>3, CasesAssumption DEF ProposedAction, TypeOK
  <1>7. PICK small \in Nat : small = AtRisk[c] * request.percent
    BY <1>6
  <1>8. PICK large \in Nat :
          large = discount_cost(x.selected, AtRisk[c]) * 100
    <2>1. discount_cost(x.selected, AtRisk[c]) = as_money(small)
      BY <1>3, <1>7 DEF discount_cost
    <2>2. as_money(small) \in Nat
      BY MoneyIsNat
    <2> QED BY <2>1, <2>2
  <1>9. small <= large
    BY <1>3, <1>7, <1>8 DEF RoundedDown
  <1>10. Denied(settings, ctx, request, small)
    BY <1>1, <1>3, <1>4, <1>7, BlockedIsDenied
  <1>11. Denied(settings, ctx, request, large)
    BY <1>5, <1>6, <1>9, <1>10, LargerIsDenied
  <1> QED BY <1>1, <1>3, <1>5, <1>8, <1>11 DEF Fits

\* What the run of an agent run is when it opens.
LEMMA SelectedOpens ==
    ASSUME AgentInv, NEW t \in Threads, ExecuteSelected(t)
    PROVE  /\ ranking[t] \in Ranking
           /\ txn[t] = NULL
           /\ Unlocked(CaseOf[ranking[t].run])
           /\ txn' = [txn EXCEPT ![t] = txn'[t]]
           /\ txn'[t].row = ranking[t].run
           /\ OfRun(txn'[t], ranking[t])
           /\ txn'[t].settings = settings
           /\ txn'[t].offers = Offers
           /\ txn'[t].notified = Notified
           /\ \E s : txn'[t].outcome \in
                Outcomes(CaseOf[ranking[t].run], s, ranking[t].run,
                         _payload_for_action(ranking[t].selected), FALSE)
           /\ UNCHANGED <<clock, policy, rows, history, agentVars>>
  <1>1. PICK x \in Ranking : x = ranking[t]
    BY DEF AgentInv, AgentRowsOK, ExecuteSelected
  <1>2. PICK request : request = _payload_for_action(x.selected)
    OBVIOUS
  <1>3. /\ Begin(t, x.run, x.run, request, FALSE)
        /\ AllowsTool(x.limits)
        /\ UNCHANGED agentVars
    BY <1>1, <1>2 DEF ExecuteSelected
  <1>4. txn \in [Threads -> Txn \cup {NULL}]
    BY DEF AgentInv, LimitInv, IndInv, TypeOK
  <1>5. PICK s : s = Walked(cases[CaseOf[x.run]].status)
    OBVIOUS
  <1>6. PICK o \in Outcomes(CaseOf[x.run], s, x.run, request, FALSE) :
          txn' = [txn EXCEPT ![t] =
                    [key |-> x.run, row |-> x.run, request |-> request,
                     approved |-> FALSE, outcome |-> o,
                     settings |-> settings, offers |-> Offers,
                     notified |-> Notified]]
    BY <1>3, <1>5 DEF Begin
  <1>7. PICK y : y = [key |-> x.run, row |-> x.run, request |-> request,
                      approved |-> FALSE, outcome |-> o,
                      settings |-> settings, offers |-> Offers,
                      notified |-> Notified]
    OBVIOUS
  <1>8. txn'[t] = y /\ txn' = [txn EXCEPT ![t] = txn'[t]]
    BY <1>4, <1>6, <1>7
  <1>9. /\ y.row = x.run /\ y.key = x.run /\ ~y.approved
        /\ y.request = request /\ y.outcome = o /\ y.settings = settings
        /\ y.offers = Offers /\ y.notified = Notified
    BY <1>7
  <1>10. /\ txn[t] = NULL /\ Unlocked(CaseOf[x.run])
         /\ UNCHANGED <<clock, policy, rows, history>>
    BY <1>3 DEF Begin
  <1> QED BY <1>1, <1>2, <1>3, <1>6, <1>8, <1>9, <1>10 DEF OfRun

-----------------------------------------------------------------------------
(* Steps that leave open runs alone *)

\* What an open agent run has read of its own case stays true.
LEMMA FitsElsewhere ==
    ASSUME NEW x \in Ranking, Fits(x), NEW c, Elsewhere(c),
           CaseOf[x.run] # c
    PROVE  Fits(x)'
  <1>1. PICK d \in Cases : d = CaseOf[x.run] /\ d # c
    BY AgentKeys DEF Ranking
  <1>2. /\ clock' = clock
        /\ cases'[d] = cases[d]
        /\ \A k \in Keys : CaseOf[k] = d => actions'[k] = actions[k]
    BY <1>1 DEF Elsewhere
  <1>3. _retry_count(d)' = _retry_count(d)
    <2>1. CountedRows(d)' = CountedRows(d)
      BY <1>2 DEF CountedRows
    <2> QED BY <2>1 DEF _retry_count, CountedRows
  <1>4. ReadThen(x)' = ReadThen(x)
    BY <1>1, <1>2, <1>3 DEF ReadThen
  <1> QED BY <1>4 DEF Fits

\* A thread that a step on case c leaves alone.
Spared(u, c) ==
    /\ ranking'[u] = ranking[u]
    /\ txn'[u] = txn[u]
    /\ ranking[u] # NULL =>
         /\ CaseOf[ranking[u].run] # c
         /\ agent_runs'[ranking[u].run] = agent_runs[ranking[u].run]

\* A thread whose case is not touched keeps its ranking and its rows.
LEMMA SparedKeeps ==
    ASSUME AgentInv, NEW c, Elsewhere(c), NEW u \in Threads, Spared(u, c)
    PROVE  RankingOK(u)' /\ OwnRows(u)'
  <1>1. /\ ranking'[u] = ranking[u]
        /\ txn'[u] = txn[u]
        /\ RankingOK(u)
        /\ OwnRows(u)
    BY DEF AgentInv, ThreadsOK, Spared
  <1>2. OwnRows(u)'
    BY <1>1 DEF OwnRows
  <1>3. RankingOK(u)'
    <2> SUFFICES ASSUME ranking[u] # NULL
                 PROVE  RankingOK(u)'
      BY <1>1 DEF RankingOK
    <2>1. PICK x \in Ranking : x = ranking[u]
      BY DEF AgentInv, AgentRowsOK
    <2>2. /\ agent_runs'[x.run] = "ABSENT"
          /\ Chosen(x)
          /\ txn[u] = NULL => Fits(x)
          /\ txn[u] # NULL => OfRun(txn[u], x)
          /\ CaseOf[x.run] # c
      BY <1>1, <2>1 DEF RankingOK, Spared
    <2>3. Fits(x) => Fits(x)'
      BY <2>2, FitsElsewhere
    <2>4. Chosen(x)' /\ (OfRun(txn[u], x) => OfRun(txn'[u], x))
      BY <1>1, <2>2 DEF Chosen, BestOf
    <2> QED BY <1>1, <2>1, <2>2, <2>3, <2>4 DEF RankingOK
  <1> QED BY <1>2, <1>3

\* A step on case c that opens no run.
Closes(c) ==
    \A u \in Threads : \/ Spared(u, c)
                       \/ ranking'[u] = NULL /\ txn'[u] = NULL

\* Such a step keeps what is known of every thread.
LEMMA ClosesKeeps ==
    ASSUME AgentInv, NEW c, Elsewhere(c), Closes(c)
    PROVE  ThreadsOK' /\ ExecutorAgrees'
  <1>1. ASSUME NEW u \in Threads
        PROVE  RankingOK(u)' /\ OwnRows(u)'
    <2>1. CASE Spared(u, c)
      BY <2>1, SparedKeeps
    <2>2. CASE ranking'[u] = NULL /\ txn'[u] = NULL
      BY <2>2 DEF RankingOK, OwnRows
    <2> QED BY <2>1, <2>2 DEF Closes
  <1>2. \A u \in Threads :
          \/ ranking'[u] = ranking[u] /\ txn'[u] = txn[u]
          \/ ranking'[u] = NULL /\ txn'[u] = NULL
    BY DEF Closes, Spared
  <1>3. \A u \in Threads : Alone(u)'
    BY <1>2 DEF AgentInv, ThreadsOK, Alone
  <1>4. ExecutorAgrees'
    BY <1>2 DEF AgentInv, ExecutorAgrees, RoundedDown
  <1> QED BY <1>1, <1>3, <1>4 DEF ThreadsOK

\* A run that ends, and whose key was not used.
LEMMA UnusedRunEnds ==
    ASSUME AgentInv, NEW r \in Agents, NEW result \in AgentRunStatus,
           MovesCase(CaseOf[r]),
           agent_runs[r] = "ABSENT",
           agent_runs' = [agent_runs EXCEPT ![r] = result],
           \A u \in Threads :
             \/ /\ ranking'[u] = ranking[u]
                /\ ranking[u] # NULL =>
                     CaseOf[ranking[u].run] # CaseOf[r]
             \/ ranking'[u] = NULL /\ txn[u] = NULL,
           ranking' \in [Threads -> Ranking \cup {NULL}]
    PROVE  AgentInv'
  <1>1. /\ CaseOf[r] \in Cases
        /\ LimitInv /\ RetryOK /\ AgentRowsOK /\ AgentsOK
    BY AgentKeys DEF AgentInv
  <1>2. LimitInv' /\ RetryOK' /\ Elsewhere(CaseOf[r])
    BY <1>1, MovesKeepTools DEF Quiet
  <1>3. txn' = txn /\ keys' = keys /\ actions' = actions
    BY DEF MovesCase
  <1>4. \A q \in Agents \ {r} : agent_runs'[q] = agent_runs[q]
    BY <1>1 DEF AgentRowsOK
  <1>5. Closes(CaseOf[r])
    <2> SUFFICES ASSUME NEW u \in Threads, ranking'[u] = ranking[u],
                        ranking[u] # NULL =>
                          CaseOf[ranking[u].run] # CaseOf[r]
                 PROVE  Spared(u, CaseOf[r])
      BY <1>3 DEF Closes
    <2>1. ranking[u] # NULL => ranking[u].run \in Agents
      BY <1>1 DEF AgentRowsOK, Ranking
    <2> QED BY <1>3, <1>4, <2>1 DEF Spared
  <1>6. ThreadsOK' /\ ExecutorAgrees'
    BY <1>2, <1>5, ClosesKeeps
  <1>7. AgentRowsOK'
    BY <1>1 DEF AgentRowsOK
  <1>8. AgentsOK'
    <2>1. \A q \in Agents : UnusedOK(q) /\ agent_runs[r] # "COMPLETED"
      BY <1>1 DEF AgentsOK
    <2> QED BY <1>3, <1>4, <2>1 DEF AgentsOK, UnusedOK
  <1> QED BY <1>2, <1>6, <1>7, <1>8 DEF AgentInv

-----------------------------------------------------------------------------
(* The steps of agent runs *)

\* Every run starts on a case that no other has locked.
LEMMA StartedRunEnds ==
    ASSUME AgentInv, NEW r \in Agents, NEW result \in AgentRunStatus, NEW s,
           Starts(r), Ends(r, result, s), MovesCase(CaseOf[r])
    PROVE  AgentInv'
  <1>1. /\ agent_runs[r] = "ABSENT"
        /\ agent_runs' = [agent_runs EXCEPT ![r] = result]
        /\ Free(CaseOf[r])
        /\ ranking' = ranking
    BY DEF Starts, Ends
  <1>2. \A u \in Threads :
          /\ ranking'[u] = ranking[u]
          /\ ranking[u] # NULL => CaseOf[ranking[u].run] # CaseOf[r]
    BY <1>1 DEF Free
  <1>3. ranking' \in [Threads -> Ranking \cup {NULL}]
    BY <1>1 DEF AgentInv, AgentRowsOK
  <1> QED BY <1>1, <1>2, <1>3, UnusedRunEnds

\* The step limit of a run keeps the invariant.
LEMMA StepLimitAgents ==
    ASSUME AgentInv, NEW r \in Agents, NEW limits \in Limits,
           StepLimit(r, limits)
    PROVE  AgentInv'
  <1>1. MovesCase(CaseOf[r])
    BY StepLimitMoves DEF AgentInv
  <1> QED BY <1>1, StartedRunEnds DEF StepLimit, AgentRunStatus

\* So does a run that is left RUNNING.
LEMMA LeftRunningAgents ==
    ASSUME AgentInv, NEW r \in Agents, NEW limits \in Limits,
           LeftRunning(r, limits)
    PROVE  AgentInv'
  <1>1. MovesCase(CaseOf[r])
    BY LeftRunningMoves DEF AgentInv
  <1> QED BY <1>1, StartedRunEnds DEF LeftRunning, AgentRunStatus

\* So does the limit on tool calls.
LEMMA ToolLimitAgents ==
    ASSUME AgentInv, NEW t \in Threads, ToolLimit(t)
    PROVE  AgentInv'
  <1>1. PICK x \in Ranking : x = ranking[t] /\ x # NULL
    BY DEF AgentInv, AgentRowsOK, ToolLimit
  <1>2. /\ x.run \in Agents
        /\ agent_runs[x.run] = "ABSENT"
        /\ agent_runs' = [agent_runs EXCEPT ![x.run] = "FAILED"]
        /\ ranking' = [ranking EXCEPT ![t] = NULL]
        /\ ranking \in [Threads -> Ranking \cup {NULL}]
    BY <1>1 DEF AgentInv, ThreadsOK, RankingOK, ToolLimit, AgentRowsOK,
                Ranking
  <1>3. MovesCase(CaseOf[x.run])
    BY <1>1, ToolLimitMoves
  <1>4. txn[t] = NULL
    BY <1>1 DEF AgentInv, ThreadsOK, RankingOK, OfRun, ToolLimit
  <1>5. \A u \in Threads :
          \/ /\ ranking'[u] = ranking[u]
             /\ ranking[u] # NULL =>
                  CaseOf[ranking[u].run] # CaseOf[x.run]
          \/ ranking'[u] = NULL /\ txn[u] = NULL
    BY <1>1, <1>2, <1>4 DEF AgentInv, ThreadsOK, Alone
  <1>6. ranking' \in [Threads -> Ranking \cup {NULL}]
    BY <1>2
  <1> QED BY <1>2, <1>3, <1>5, <1>6, UnusedRunEnds DEF AgentRunStatus

\* A step that writes no row touches the rows of no case.
LEMMA NoRowTouched ==
    ASSUME UNCHANGED <<clock, rows, history>>
    PROVE  \E c : c \notin Cases /\ Elsewhere(c)
  <1>1. PICK c : c \notin Cases
    BY NoSetContainsEverything
  <1>2. Elsewhere(c)
    BY DEF Elsewhere, rows, history
  <1> QED BY <1>1, <1>2

\* A step that writes no row spares the threads it does not name.
LEMMA UntouchedKeeps ==
    ASSUME AgentInv, UNCHANGED <<clock, rows, history, agent_runs>>,
           NEW u \in Threads, ranking'[u] = ranking[u], txn'[u] = txn[u]
    PROVE  RankingOK(u)' /\ OwnRows(u)'
  <1>1. PICK c : c \notin Cases /\ Elsewhere(c)
    BY NoRowTouched
  <1>2. ranking[u] # NULL => CaseOf[ranking[u].run] \in Cases
    BY AgentKeys DEF AgentInv, AgentRowsOK, Ranking
  <1>3. Spared(u, c)
    BY <1>1, <1>2 DEF Spared
  <1> QED BY <1>1, <1>3, SparedKeeps

\* A ranking that is opened is one the invariant allows.
LEMMA RankOpens ==
    ASSUME AgentInv, NEW t \in Threads, NEW r \in Agents,
           NEW x \in Ranking, x.run = r, Chosen(x), Fits(x), Starts(r),
           txn[t] = NULL, ranking[t] = NULL,
           ranking' = [ranking EXCEPT ![t] = x],
           UNCHANGED <<vars, agent_runs>>
    PROVE  AgentInv'
  <1>1. /\ LimitInv /\ RetryOK /\ AgentRowsOK /\ AgentsOK /\ ExecutorAgrees
        /\ ranking \in [Threads -> Ranking \cup {NULL}]
    BY DEF AgentInv, AgentRowsOK
  <1>2. /\ ranking'[t] = x
        /\ \A u \in Threads \ {t} : ranking'[u] = ranking[u]
    BY <1>1
  <1>3. /\ UNCHANGED <<clock, policy, rows, txn, runs, history>>
        /\ agent_runs' = agent_runs
    BY DEF vars
  <1>4. LimitInv' /\ RetryOK'
    BY <1>1, NextKeepsTools
  <1>5. AgentRowsOK'
    BY <1>1 DEF AgentRowsOK
  <1>6. AgentsOK'
    BY <1>1, <1>3 DEF AgentsOK, UnusedOK, rows
  <1>7. ExecutorAgrees'
    <2>1. \A u \in Threads :
            ranking'[u] # NULL /\ txn'[u] # NULL => ranking'[u] = ranking[u]
      BY <1>2, <1>3
    <2> QED BY <1>1, <1>3, <2>1 DEF ExecutorAgrees, RoundedDown
  <1>8. ASSUME NEW u \in Threads
        PROVE  RankingOK(u)' /\ OwnRows(u)'
    <2>1. CASE u # t
      BY <1>2, <1>3, <2>1, UntouchedKeeps
    <2>2. CASE u = t
      <3>1. PICK c : c \notin Cases /\ Elsewhere(c)
        BY <1>3, NoRowTouched
      <3>2. CaseOf[x.run] # c
        BY <3>1, AgentKeys
      <3>3. Fits(x)'
        BY <3>1, <3>2, FitsElsewhere
      <3>4. Chosen(x)'
        BY DEF Chosen, BestOf
      <3>5. agent_runs'[x.run] = "ABSENT" /\ txn'[t] = NULL
        BY <1>3 DEF Starts
      <3> QED BY <1>2, <2>2, <3>3, <3>4, <3>5 DEF RankingOK, OwnRows
    <2> QED BY <2>1, <2>2
  <1>9. ASSUME NEW u \in Threads
        PROVE  Alone(u)'
    <2>1. Alone(u)
      BY DEF AgentInv, ThreadsOK
    <2>2. Free(CaseOf[r]) /\ Unlocked(CaseOf[r])
      BY DEF Starts
    <2>3. CASE u # t
      BY <1>2, <1>3, <2>1, <2>2, <2>3 DEF Alone, Free
    <2>4. CASE u = t
      BY <1>2, <1>3, <2>2, <2>4 DEF Alone, Free, Unlocked
    <2> QED BY <2>3, <2>4
  <1> QED BY <1>4, <1>5, <1>6, <1>7, <1>8, <1>9 DEF AgentInv, ThreadsOK

\* Ranking keeps the invariant, whether the run goes on or ends.
LEMMA RankAgents ==
    ASSUME AgentInv, NEW t \in Threads, NEW r \in Agents,
           NEW limits \in Limits, NEW execute \in BOOLEAN,
           Rank(t, r, limits, execute)
    PROVE  AgentInv'
  <1>1. /\ txn[t] = NULL /\ ranking[t] = NULL
        /\ Starts(r)
        /\ TypeOK
        /\ LimitInv
    BY DEF Rank, AgentInv, LimitInv, IndInv
  <1>2. PICK candidates \in Strategies(CaseOf[r]) :
          \E ranked \in Rankings(CaseOf[r], candidates) :
            LET selected == select_action(ranked,
                              build_policy_context(CaseOf[r]).suspicious)
            IN  IF WantsTool(execute, selected)
                THEN /\ ranking' = [ranking EXCEPT ![t] =
                          [run |-> r, limits |-> limits, ranked |-> ranked,
                           selected |-> selected, settings |-> settings,
                           offers |-> Offers, notified |-> Notified]]
                     /\ UNCHANGED <<vars, agent_runs>>
                ELSE Ends(r, "COMPLETED",
                          Reached(cases[CaseOf[r]].status, 5))
    BY DEF Rank
  <1>3. PICK ranked \in Rankings(CaseOf[r], candidates) :
            LET selected == select_action(ranked,
                              build_policy_context(CaseOf[r]).suspicious)
            IN  IF WantsTool(execute, selected)
                THEN /\ ranking' = [ranking EXCEPT ![t] =
                          [run |-> r, limits |-> limits, ranked |-> ranked,
                           selected |-> selected, settings |-> settings,
                           offers |-> Offers, notified |-> Notified]]
                     /\ UNCHANGED <<vars, agent_runs>>
                ELSE Ends(r, "COMPLETED",
                          Reached(cases[CaseOf[r]].status, 5))
    BY <1>2
  <1>4. PICK selected : selected = select_action(ranked,
                          build_policy_context(CaseOf[r]).suspicious)
    OBVIOUS
  <1>5. CASE ~WantsTool(execute, selected)
    <2>1. Ends(r, "COMPLETED", Reached(cases[CaseOf[r]].status, 5))
      BY <1>3, <1>4, <1>5
    <2>2. MovesCase(CaseOf[r])
      BY <1>1, <2>1, RankEndsMoves
    <2> QED BY <1>1, <2>1, <2>2, StartedRunEnds DEF AgentRunStatus
  <1>6. CASE WantsTool(execute, selected)
    <2>1. PICK x : x = [run |-> r, limits |-> limits, ranked |-> ranked,
                        selected |-> selected, settings |-> settings,
                        offers |-> Offers, notified |-> Notified]
      OBVIOUS
    <2>2. /\ ranking' = [ranking EXCEPT ![t] = x]
          /\ UNCHANGED <<vars, agent_runs>>
      BY <1>3, <1>4, <1>6, <2>1
    <2>3. x \in Ranking /\ Chosen(x) /\ Fits(x) /\ x.run = r
      BY <1>1, <1>4, <1>6, <2>1, RankChooses DEF WantsTool
    <2> QED BY <1>1, <2>2, <2>3, RankOpens
  <1> QED BY <1>5, <1>6

\* The tool call of a run keeps it: the executor takes the request
\* that was ranked.
LEMMA ExecuteSelectedAgents ==
    ASSUME AgentInv, NEW t \in Threads, ExecuteSelected(t)
    PROVE  AgentInv'
  <1>1. PICK x \in Ranking : x = ranking[t] /\ x # NULL
    BY DEF AgentInv, AgentRowsOK, ExecuteSelected
  <1>2. PICK y : y = txn'[t]
    OBVIOUS
  <1>3. /\ txn[t] = NULL
        /\ txn' = [txn EXCEPT ![t] = y]
        /\ y.row = x.run
        /\ OfRun(y, x)
        /\ y.settings = settings
        /\ y.offers = Offers
        /\ y.notified = Notified
        /\ \E s : y.outcome \in Outcomes(CaseOf[x.run], s, x.run,
                                  _payload_for_action(x.selected), FALSE)
        /\ UNCHANGED <<clock, policy, rows, history, agent_runs, ranking>>
    BY <1>1, <1>2, SelectedOpens DEF agentVars
  <1>4. \A u \in Threads \ {t} : txn'[u] = txn[u]
    BY <1>3 DEF AgentInv, LimitInv, IndInv, TypeOK
  <1>5. LimitInv' /\ RetryOK'
    BY ExecuteSelectedKeepsTools
  <1>6. AgentRowsOK' /\ AgentsOK'
    BY <1>3 DEF AgentInv, AgentRowsOK, AgentsOK, UnusedOK, rows
  <1>7. /\ RankingOK(t)
        /\ x.run \in Agents
        /\ x.selected \in RecoveryActionType
    BY DEF AgentInv, ThreadsOK, Ranking
  <1>8. ASSUME NEW u \in Threads
        PROVE  RankingOK(u)' /\ OwnRows(u)'
    <2>1. CASE u # t
      BY <1>3, <1>4, <2>1, UntouchedKeeps
    <2>2. CASE u = t
      <3>1. Chosen(x) /\ agent_runs[x.run] = "ABSENT"
        BY <1>1, <1>7 DEF RankingOK
      <3>2. Chosen(x)'
        BY <3>1 DEF Chosen, BestOf
      <3>3. Fits(x)'
        <4>1. PICK c : c \notin Cases /\ Elsewhere(c)
          BY <1>3, NoRowTouched
        <4>2. Fits(x) /\ CaseOf[x.run] \in Cases
          BY <1>1, <1>3, <1>7, AgentKeys DEF RankingOK
        <4> QED BY <4>1, <4>2, FitsElsewhere
      <3>4. y.key = x.run /\ y.row = y.key
        BY <1>3 DEF OfRun
      <3> QED BY <1>1, <1>2, <1>3, <2>2, <3>1, <3>2, <3>3, <3>4
              DEF RankingOK, OwnRows
    <2> QED BY <2>1, <2>2
  <1>9. ASSUME NEW u \in Threads
        PROVE  Alone(u)'
    <2>1. /\ Alone(u)
          /\ y.key = x.run
      BY <1>3 DEF AgentInv, ThreadsOK, OfRun
    <2> QED BY <1>1, <1>2, <1>3, <1>4, <2>1 DEF Alone
  <1>10. ExecutorAgrees'
    <2> SUFFICES ASSUME NEW u \in Threads, ranking'[u] # NULL,
                        txn'[u] # NULL, txn'[u].outcome = "BLOCKED",
                        txn'[u].settings = ranking'[u].settings,
                        txn'[u].offers = ranking'[u].offers,
                        txn'[u].notified = ranking'[u].notified
                 PROVE  LET c == CaseOf[txn'[u].key]
                            a == txn'[u].request.action
                        IN  \/ RoundedDown(c, a)
                            \/ a = "OFFER_DISCOUNT" /\ DiscountPercent = 0
      BY DEF ExecutorAgrees, RoundedDown
    <2>1. CASE u # t
      BY <1>3, <1>4, <2>1 DEF AgentInv, ExecutorAgrees
    <2>2. CASE u = t
      <3>1. /\ y.key = x.run
            /\ y.request.action = x.selected
            /\ x.settings = settings
            /\ x.offers = Offers
            /\ x.notified = Notified
        BY <1>1, <1>2, <1>3, <1>7, <2>2, PayloadIsProposed DEF OfRun
      <3>2. TypeOK /\ Fits(x)
        BY <1>1, <1>3, <1>7 DEF RankingOK, AgentInv, LimitInv, IndInv
      <3>3. PICK s : "BLOCKED" \in Outcomes(CaseOf[x.run], s, x.run,
                               _payload_for_action(x.selected), FALSE)
        BY <1>2, <1>3, <2>2
      <3> QED BY <1>2, <2>2, <3>1, <3>2, <3>3, SecondLook
    <2> QED BY <2>1, <2>2
  <1> QED BY <1>5, <1>6, <1>8, <1>9, <1>10 DEF AgentInv, ThreadsOK

\* The tool run of an agent run is on its key, its row and its case.
LEMMA OwnTool ==
    ASSUME AgentInv, NEW t \in Threads, ranking[t] # NULL, txn[t] # NULL
    PROVE  /\ ranking[t] \in Ranking
           /\ txn[t] \in Txn
           /\ ranking[t].run \in Agents
           /\ txn[t].key = ranking[t].run
           /\ txn[t].row = ranking[t].run
           /\ ~txn[t].approved
           /\ txn[t].request.action = ranking[t].selected
           /\ Chosen(ranking[t])
  <1>1. PICK x \in Ranking : x = ranking[t]
    BY DEF AgentInv, AgentRowsOK
  <1>2. /\ OfRun(txn[t], x)
        /\ Chosen(x)
        /\ txn[t].row = txn[t].key
        /\ txn[t] \in Txn
    BY <1>1 DEF AgentInv, ThreadsOK, RankingOK, OwnRows, LimitInv, IndInv,
                TypeOK
  <1>3. x.run \in Agents /\ x.selected \in RecoveryActionType
    BY DEF Ranking
  <1> QED BY <1>1, <1>2, <1>3, PayloadIsProposed DEF OfRun

\* The threads that a closing run of thread t leaves open.
LEMMA OthersAreSpared ==
    ASSUME AgentInv, NEW t \in Threads, ranking[t] # NULL,
           ranking' = [ranking EXCEPT ![t] = NULL],
           txn' = [txn EXCEPT ![t] = NULL],
           \A r \in Agents \ {ranking[t].run} :
             agent_runs'[r] = agent_runs[r]
    PROVE  Closes(CaseOf[ranking[t].run])
  <1>1. /\ ranking \in [Threads -> Ranking \cup {NULL}]
        /\ txn \in [Threads -> Txn \cup {NULL}]
        /\ Alone(t)
    BY DEF AgentInv, AgentRowsOK, LimitInv, IndInv, TypeOK, ThreadsOK
  <1> SUFFICES ASSUME NEW u \in Threads \ {t}
               PROVE  Spared(u, CaseOf[ranking[t].run])
    BY <1>1 DEF Closes
  <1>2. ranking[u] # NULL =>
          /\ CaseOf[ranking[u].run] # CaseOf[ranking[t].run]
          /\ ranking[u].run \in Agents
    BY <1>1 DEF Alone, Ranking
  <1> QED BY <1>1, <1>2 DEF Spared

\* The commit of a run and of its row keeps it.
LEMMA FinishRunAgents ==
    ASSUME AgentInv, NEW t \in Threads, FinishRun(t)
    PROVE  AgentInv'
  <1>1. /\ ranking[t] # NULL /\ txn[t] # NULL
        /\ Commit(t)
        /\ ranking' = [ranking EXCEPT ![t] = NULL]
        /\ agent_runs' = [agent_runs EXCEPT ![ranking[t].run] = "COMPLETED"]
        /\ txn' = [txn EXCEPT ![t] = NULL]
        /\ LimitInv /\ RetryOK /\ IndInv
        /\ AgentRowsOK
    BY DEF FinishRun, Finished, Commit, AgentInv, LimitInv
  <1>2. PICK y \in Txn, r \in Agents : /\ y = txn[t]
                                       /\ r = ranking[t].run
                                       /\ y.key = r
                                       /\ y.row = r
    BY <1>1, OwnTool
  <1>3. /\ \A j \in Keys \ {r} : actions'[j] = actions[j]
        /\ \A j \in Keys \ {r} : keys'[j] = keys[j]
        /\ Elsewhere(CaseOf[r])
    BY <1>1, <1>2, CommitSpares
  <1>4. LimitInv' /\ RetryOK'
    <2>1. Next
      BY <1>1 DEF Next, Runners
    <2> QED BY <1>1, <2>1, NextKeepsTools
  <1>5. /\ agent_runs'[r] = "COMPLETED"
        /\ \A q \in Agents \ {r} : agent_runs'[q] = agent_runs[q]
    BY <1>1, <1>2 DEF AgentRowsOK
  <1>6. ThreadsOK' /\ ExecutorAgrees'
    BY <1>1, <1>2, <1>3, <1>5, OthersAreSpared, ClosesKeeps
  <1>7. AgentRowsOK'
    BY <1>1, <1>2 DEF AgentRowsOK, AgentRunStatus
  <1>8. AgentsOK'
    BY <1>3, <1>5, AgentKeys DEF AgentInv, AgentsOK, UnusedOK
  <1> QED BY <1>4, <1>6, <1>7, <1>8 DEF AgentInv

\* So does the rollback of a run, and of its row with it.
LEMMA AbortRunAgents ==
    ASSUME AgentInv, NEW t \in Threads, AbortRun(t)
    PROVE  AgentInv'
  <1>1. /\ ranking[t] # NULL
        /\ ranking' = [ranking EXCEPT ![t] = NULL]
        /\ agent_runs' = agent_runs
        /\ txn[t] = NULL => UNCHANGED vars
        /\ txn[t] # NULL => Abort(t)
        /\ LimitInv /\ RetryOK /\ IndInv
        /\ AgentRowsOK
        /\ TypeOK
    BY DEF AbortRun, AgentInv, LimitInv, IndInv
  <1>2. LimitInv' /\ RetryOK'
    <2>1. [Next]_vars
      BY <1>1 DEF Next, Runners
    <2> QED BY <1>1, <2>1, NextKeepsTools
  <1>3. txn' = [txn EXCEPT ![t] = NULL] /\ UNCHANGED <<clock, rows>>
    <2>1. CASE txn[t] = NULL
      BY <1>1, <2>1 DEF vars, TypeOK
    <2>2. CASE txn[t] # NULL
      BY <1>1, <2>2 DEF Abort
    <2> QED BY <2>1, <2>2
  <1>4. Elsewhere(CaseOf[ranking[t].run])
    <2>1. CASE txn[t] = NULL
      BY <1>1, <2>1 DEF vars, rows, history, Elsewhere
    <2>2. CASE txn[t] # NULL
      <3>1. PICK k \in Keys : k = txn[t].key /\ k = ranking[t].run
        BY <1>1, <2>2, OwnTool, AgentKeys
      <3>2. \A j \in Keys \ {k} : calls'[j] = calls[j] /\ lost'[j] = lost[j]
        BY <1>1, <2>2, <3>1 DEF Abort, TypeOK
      <3> QED BY <1>1, <1>3, <2>2, <3>1, <3>2 DEF Abort, rows, Elsewhere
    <2> QED BY <2>1, <2>2
  <1>5. ThreadsOK' /\ ExecutorAgrees'
    BY <1>1, <1>3, <1>4, OthersAreSpared, ClosesKeeps
  <1>6. AgentRowsOK' /\ AgentsOK'
    BY <1>1, <1>3 DEF AgentInv, AgentRowsOK, AgentsOK, UnusedOK, rows
  <1> QED BY <1>2, <1>5, <1>6 DEF AgentInv

-----------------------------------------------------------------------------
(* The steps of the others *)

\* A step that takes no effect, on a case that no agent run has locked.
LEMMA QuietAgents ==
    ASSUME AgentInv, LimitInv', RetryOK', NEW c \in Cases, Quiet(c), Free(c),
           UNCHANGED <<txn, agentVars>>,
           \A r \in Agents : keys[r].status = "ABSENT" =>
                               keys'[r].status = "ABSENT"
    PROVE  AgentInv'
  <1>1. Elsewhere(c) /\ \A k \in Keys : KeepsRow(k)
    BY DEF Quiet
  <1>2. Closes(c)
    BY DEF Closes, Spared, Free, agentVars
  <1>3. ThreadsOK' /\ ExecutorAgrees'
    BY <1>1, <1>2, ClosesKeeps
  <1>4. AgentsOK'
    <2> SUFFICES ASSUME NEW r \in Agents, agent_runs'[r] # "COMPLETED"
                 PROVE  /\ keys'[r].status = "ABSENT"
                        /\ actions'[r].status = "ABSENT"
      BY DEF AgentsOK, UnusedOK
    <2>1. keys[r].status = "ABSENT" /\ actions[r].status = "ABSENT"
      BY DEF AgentInv, AgentsOK, UnusedOK, agentVars
    <2>2. KeepsRow(r) /\ r \notin Planned
      BY <1>1, AgentKeys
    <2> QED BY <2>1, <2>2 DEF KeepsRow
  <1>5. AgentRowsOK'
    BY DEF AgentInv, AgentRowsOK, agentVars
  <1> QED BY <1>3, <1>4, <1>5 DEF AgentInv

\* A client's run, or the decision on an approval.
LEMMA RunOpens ==
    ASSUME AgentInv, LimitInv', RetryOK', NEW t \in Threads, NEW k \in Keys,
           NEW request, NEW approved, k \in Agents => approved,
           ranking[t] = NULL, Free(CaseOf[k]),
           Begin(t, k, k, request, approved), UNCHANGED agentVars
    PROVE  AgentInv'
  <1>1. /\ UNCHANGED <<clock, rows, history, agent_runs, ranking>>
        /\ txn \in [Threads -> Txn \cup {NULL}]
    BY DEF Begin, agentVars, AgentInv, LimitInv, IndInv, TypeOK
  <1>2. PICK y : /\ txn' = [txn EXCEPT ![t] = y]
                 /\ y.key = k
                 /\ y.row = k
                 /\ y.approved = approved
    <2>1. PICK o : txn' = [txn EXCEPT ![t] =
                             [key |-> k, row |-> k, request |-> request,
                              approved |-> approved, outcome |-> o,
                              settings |-> settings, offers |-> Offers,
                              notified |-> Notified]]
      BY DEF Begin
    <2>2. PICK y : y = [key |-> k, row |-> k, request |-> request,
                        approved |-> approved, outcome |-> o,
                        settings |-> settings, offers |-> Offers,
                        notified |-> Notified]
      OBVIOUS
    <2>3. y.key = k /\ y.row = k /\ y.approved = approved
      BY <2>2
    <2> QED BY <2>1, <2>2, <2>3
  <1>3. txn'[t] = y /\ \A u \in Threads \ {t} : txn'[u] = txn[u]
    BY <1>1, <1>2
  <1>4. AgentRowsOK' /\ AgentsOK'
    BY <1>1 DEF AgentInv, AgentRowsOK, AgentsOK, UnusedOK, rows
  <1>5. ExecutorAgrees'
    BY <1>1, <1>3 DEF AgentInv, ExecutorAgrees, RoundedDown
  <1>6. ASSUME NEW u \in Threads
        PROVE  RankingOK(u)' /\ OwnRows(u)'
    <2>1. CASE u # t
      BY <1>1, <1>3, <2>1, UntouchedKeeps
    <2>2. CASE u = t
      BY <1>1, <1>2, <1>3, <2>2 DEF RankingOK, OwnRows
    <2> QED BY <2>1, <2>2
  <1>7. ASSUME NEW u \in Threads
        PROVE  Alone(u)'
    <2>1. Alone(u)
      BY DEF AgentInv, ThreadsOK
    <2> QED BY <1>1, <1>2, <1>3, <2>1 DEF Alone, Free
  <1> QED BY <1>4, <1>5, <1>6, <1>7 DEF AgentInv, ThreadsOK

\* A commit of a run that is no agent run's: if it is on the key of one, that
\* one is complete, for it has asked for the approval.
LEMMA CommitAgents ==
    ASSUME AgentInv, LimitInv', RetryOK', NEW t \in Threads,
           ranking[t] = NULL, Commit(t), UNCHANGED agentVars
    PROVE  AgentInv'
  <1>1. PICK y \in Txn : y = txn[t] /\ y # NULL
    BY DEF Commit, AgentInv, LimitInv, IndInv, TypeOK
  <1>2. /\ IndInv
        /\ txn \in [Threads -> Txn \cup {NULL}]
        /\ txn' = [txn EXCEPT ![t] = NULL]
        /\ UNCHANGED <<agent_runs, ranking>>
    BY DEF Commit, AgentInv, LimitInv, IndInv, TypeOK, agentVars
  <1>3. /\ \A j \in Keys \ {y.row} : actions'[j] = actions[j]
        /\ \A j \in Keys \ {y.key} : keys'[j] = keys[j]
        /\ Elsewhere(CaseOf[y.key])
        /\ RunOK(y)
    BY <1>1, <1>2, CommitSpares, CommitDoes
  <1>4. /\ y.row = y.key
        /\ y.key \in Agents => y.approved
    BY <1>1 DEF AgentInv, ThreadsOK, OwnRows
  <1>5. y.key \in Agents => agent_runs[y.key] = "COMPLETED"
    BY <1>3, <1>4
    DEF RunOK, Approved, Approvable, AgentInv, AgentsOK, UnusedOK
  <1>6. Closes(CaseOf[y.key])
    <2> SUFFICES ASSUME NEW u \in Threads \ {t}
                 PROVE  Spared(u, CaseOf[y.key])
      BY <1>2 DEF Closes
    <2>1. ranking[u] # NULL => CaseOf[y.key] # CaseOf[ranking[u].run]
      BY <1>1 DEF AgentInv, ThreadsOK, Alone
    <2> QED BY <1>2, <2>1 DEF Spared
  <1>7. ThreadsOK' /\ ExecutorAgrees'
    BY <1>3, <1>6, ClosesKeeps
  <1>8. AgentsOK'
    BY <1>2, <1>3, <1>4, <1>5, AgentKeys DEF AgentInv, AgentsOK, UnusedOK
  <1>9. AgentRowsOK'
    BY <1>2 DEF AgentInv, AgentRowsOK
  <1> QED BY <1>7, <1>8, <1>9 DEF AgentInv

\* The key of a run whose approval is decided was used.
LEMMA RejectSparesUnused ==
    ASSUME AgentInv, NEW k \in Keys, Reject(k)
    PROVE  \A r \in Agents : keys[r].status = "ABSENT" =>
                               keys'[r].status = "ABSENT"
  <1>1. keys \in [Keys -> KeyRow]
    BY DEF AgentInv, LimitInv, IndInv, TypeOK
  <1>2. CASE keys[k].status = "ABSENT"
    BY <1>2 DEF Reject
  <1>3. CASE keys[k].status # "ABSENT"
    <2>1. keys' = [keys EXCEPT ![k].status = "FAILED"]
      BY <1>3 DEF Reject
    <2> QED BY <1>1, <1>3, <2>1, AgentKeys
  <1> QED BY <1>2, <1>3

\* A new policy, or no step at all: open runs go on with what they have read.
LEMMA UntouchedAgents ==
    ASSUME AgentInv, LimitInv', RetryOK',
           UNCHANGED <<clock, rows, txn, history, agentVars>>
    PROVE  AgentInv'
  <1>1. UNCHANGED <<agent_runs, ranking>>
    BY DEF agentVars
  <1>2. \A u \in Threads : RankingOK(u)' /\ OwnRows(u)'
    BY <1>1, UntouchedKeeps
  <1>3. \A u \in Threads : Alone(u)'
    BY <1>1 DEF AgentInv, ThreadsOK, Alone
  <1>4. ExecutorAgrees'
    BY <1>1 DEF AgentInv, ExecutorAgrees, RoundedDown
  <1>5. AgentRowsOK' /\ AgentsOK'
    BY <1>1 DEF AgentInv, AgentRowsOK, AgentsOK, UnusedOK, rows
  <1> QED BY <1>2, <1>3, <1>4, <1>5 DEF AgentInv, ThreadsOK

\* Time passes while no run is open.
LEMMA TickAgents ==
    ASSUME AgentInv, LimitInv', RetryOK', \A t \in Threads : ranking[t] = NULL,
           Tick, UNCHANGED agentVars
    PROVE  AgentInv'
  <1>1. /\ \A t \in Threads : txn'[t] = NULL /\ ranking'[t] = NULL
        /\ UNCHANGED <<rows, agent_runs, ranking>>
    BY DEF Tick, agentVars
  <1>2. ThreadsOK' /\ ExecutorAgrees'
    BY <1>1 DEF ThreadsOK, RankingOK, Alone, OwnRows, ExecutorAgrees
  <1>3. AgentRowsOK' /\ AgentsOK'
    BY <1>1 DEF AgentInv, AgentRowsOK, AgentsOK, UnusedOK, rows
  <1> QED BY <1>2, <1>3 DEF AgentInv

\* Clients, approvers, the verifier, operators and time keep what open agent
\* runs rely on.
LEMMA ToolStepsAgents ==
    ASSUME AgentInv, ToolSteps
    PROVE  AgentInv'
  <1>1. LimitInv' /\ RetryOK'
    BY ToolStepsAreSteps, NextKeepsTools DEF AgentInv
  <1>2. /\ IndInv
        /\ UNCHANGED agentVars
        /\ \A k \in Keys : CaseOf[k] \in Cases
    BY KeysAssumption DEF AgentInv, LimitInv, ToolSteps
  <1>3. ASSUME NEW t \in Threads, NEW k \in Keys, NEW request \in Calls[k],
               ranking[t] = NULL, Free(CaseOf[k]), Execute(t, k, k, request)
        PROVE  AgentInv'
    <2>1. k \notin Agents
      BY AgentKeys
    <2>2. Begin(t, k, k, request, FALSE)
      BY <1>3 DEF Execute
    <2> QED BY <1>1, <1>2, <1>3, <2>1, <2>2, RunOpens
  <1>4. ASSUME NEW t \in Threads, NEW k \in Keys,
               ranking[t] = NULL, Free(CaseOf[k]), Approve(t, k)
        PROVE  AgentInv'
    <2>1. PICK request : Begin(t, k, k, request, TRUE)
      BY <1>4 DEF Approve
    <2> QED BY <1>1, <1>2, <1>4, <2>1, RunOpens
  <1>5. ASSUME NEW t \in Threads, ranking[t] = NULL, Commit(t)
        PROVE  AgentInv'
    BY <1>1, <1>2, <1>5, CommitAgents
  <1>6. ASSUME NEW k \in Keys, Free(CaseOf[k]), ApproveExpired(k)
        PROVE  AgentInv'
    <2>1. Quiet(CaseOf[k]) /\ UNCHANGED <<txn, agentVars, keys>>
      BY <1>2, <1>6, ApproveExpiredQuiet DEF ApproveExpired
    <2> QED BY <1>1, <1>2, <1>6, <2>1, QuietAgents
  <1>7. ASSUME NEW k \in Keys, Free(CaseOf[k]), Reject(k)
        PROVE  AgentInv'
    <2>1. Quiet(CaseOf[k]) /\ UNCHANGED <<txn, agentVars>>
      BY <1>2, <1>7, RejectQuiet DEF Reject
    <2>2. \A r \in Agents : keys[r].status = "ABSENT" =>
                              keys'[r].status = "ABSENT"
      BY <1>7, RejectSparesUnused
    <2> QED BY <1>1, <1>2, <1>7, <2>1, <2>2, QuietAgents
  <1>8. ASSUME NEW c \in Cases, NEW found \in Findings[c], Free(c),
               Verify(c, found)
        PROVE  AgentInv'
    <2>1. Quiet(c) /\ UNCHANGED <<txn, agentVars, keys>>
      BY <1>2, <1>8, ProcessQuiet DEF Verify
    <2> QED BY <1>1, <1>8, <2>1, QuietAgents
  <1>9. ASSUME NEW p \in Policies, UpdatePolicy(p)
        PROVE  AgentInv'
    BY <1>1, <1>2, <1>9, UntouchedAgents DEF UpdatePolicy
  <1>10. ASSUME \A t \in Threads : ranking[t] = NULL, Tick
         PROVE  AgentInv'
    BY <1>1, <1>2, <1>10, TickAgents
  <1> QED BY <1>3, <1>4, <1>5, <1>6, <1>7, <1>8, <1>9, <1>10 DEF ToolSteps

-----------------------------------------------------------------------------
(* What holds with agents *)

\* The invariant holds when the processes start.
LEMMA AgentsInitially ==
    ASSUME AgentInit
    PROVE  AgentInv
  <1>1. /\ Init
        /\ agent_runs = [r \in Agents |-> "ABSENT"]
        /\ ranking = [t \in Threads |-> NULL]
    BY DEF AgentInit
  <1>2. LimitInv
    BY <1>1, LimitsInitially
  <1>3. RetryOK
    BY <1>1 DEF Init, RetryOK, RetriedOK, OneRetryPayment, TookEffect
  <1>4. AgentRowsOK
    BY <1>1 DEF AgentRowsOK, AgentRunStatus
  <1>5. ThreadsOK /\ ExecutorAgrees
    BY <1>1 DEF Init, ThreadsOK, RankingOK, Alone, OwnRows, ExecutorAgrees
  <1>6. AgentsOK
    BY <1>1, AgentKeys DEF Init, AgentsOK, UnusedOK, NoKey, NoAction
  <1> QED BY <1>2, <1>3, <1>4, <1>5, <1>6 DEF AgentInv

\* Every step keeps the invariant.
LEMMA AgentNextKeeps ==
    ASSUME AgentInv, [AgentNext]_allVars
    PROVE  AgentInv'
  <1>1. CASE AgentSteps
    BY <1>1, StepLimitAgents, LeftRunningAgents, RankAgents, ToolLimitAgents,
       ExecuteSelectedAgents, FinishRunAgents, AbortRunAgents DEF AgentSteps
  <1>2. CASE ToolSteps
    BY <1>2, ToolStepsAgents
  <1>3. CASE UNCHANGED allVars
    <2>1. /\ UNCHANGED vars
          /\ UNCHANGED <<clock, rows, txn, history, agentVars>>
      BY <1>3 DEF allVars, vars
    <2>2. LimitInv' /\ RetryOK'
      BY <2>1, NextKeepsTools DEF AgentInv
    <2> QED BY <2>1, <2>2, UntouchedAgents
  <1> QED BY <1>1, <1>2, <1>3 DEF AgentNext

\* The invariant holds in every state that agent runs, clients, approvers, the
\* verifier, operators and time reach together (run_case, _execute_selected,
\* AgentToolGateway.execute).
THEOREM AgentInvariance == AgentSpec => []AgentInv
  BY AgentsInitially, AgentNextKeeps, PTL DEF AgentSpec

\* Agent runs keep the shape of their rows and that of the tools' rows.
THEOREM AgentTypeCorrect == AgentSpec => []AgentTypeOK
  <1>1. AgentInv => AgentTypeOK
    BY DEF AgentInv, AgentRowsOK, AgentTypeOK, LimitInv, IndInv
  <1> QED BY <1>1, AgentInvariance, PTL

\* For every number of runs, threads and limits: a run that exceeded a limit,
\* was left RUNNING or was rolled back has used no key, asked for no approval,
\* taken no effect and called the provider in no transaction that committed
\* (run_case, add_step, add_tool).
THEOREM OnlyCompletedRunsActHolds == AgentSpec => []OnlyCompletedRunsAct
  <1>1. ASSUME AgentInv, NEW r \in Agents, agent_runs[r] # "COMPLETED"
        PROVE  /\ keys[r].status = "ABSENT" /\ actions[r].status = "ABSENT"
               /\ ~(effects[r] > 0) /\ ~(calls[r] > lost[r])
    <2>1. keys[r].status = "ABSENT" /\ actions[r].status = "ABSENT"
      BY <1>1 DEF AgentInv, AgentsOK, UnusedOK
    <2>2. /\ KeyOK(r)
          /\ calls[r] \in Nat /\ lost[r] \in Nat
      BY <1>1, AgentKeys DEF AgentInv, LimitInv, IndInv, KeysOK, TypeOK
    <2>3. effects[r] = 0 /\ calls[r] = lost[r]
      BY <2>1, <2>2, NullAssumption DEF KeyOK, Result
    <2> QED BY <2>1, <2>2, <2>3
  <1>2. AgentInv => OnlyCompletedRunsAct
    BY <1>1 DEF OnlyCompletedRunsAct
  <1> QED BY <1>2, AgentInvariance, PTL

\* For every set of cases, policies, answers of the language model and
\* predicted probabilities: the executor refuses what the optimizer permitted
\* only when what it reads has changed in between, or the discount it offers
\* is not the one that was ranked (_evaluate_policy, _payload_for_action).
THEOREM ExecutorAgreesHolds == AgentSpec => []ExecutorAgrees
  BY AgentInvariance, PTL DEF AgentInv

-----------------------------------------------------------------------------
(* What a step that takes effect may do, with agents *)

\* To keys, effects and answers, a step of an agent run is a step of the tools
\* or none.
LEMMA AgentStepIs ==
    ASSUME AgentInv, [AgentNext]_allVars
    PROVE  [Next]_vars \/ UNCHANGED <<keys, history>>
  <1>1. ASSUME NEW r \in Agents, NEW limits \in Limits,
               StepLimit(r, limits) \/ LeftRunning(r, limits)
        PROVE  UNCHANGED <<keys, history>>
    BY <1>1 DEF StepLimit, LeftRunning, Ends
  <1>2. ASSUME NEW t \in Threads, NEW r \in Agents, NEW limits \in Limits,
               NEW execute \in BOOLEAN, Rank(t, r, limits, execute)
        PROVE  [Next]_vars \/ UNCHANGED <<keys, history>>
    BY <1>2 DEF Rank, Ends
  <1>3. ASSUME NEW t \in Threads, ToolLimit(t) \/ ExecuteSelected(t)
        PROVE  UNCHANGED <<keys, history>>
    BY <1>3 DEF ToolLimit, ExecuteSelected, Begin, rows
  <1>4. ASSUME NEW t \in Threads, FinishRun(t) \/ AbortRun(t)
        PROVE  [Next]_vars
    BY <1>4 DEF FinishRun, AbortRun, Next, Runners
  <1>5. CASE AgentSteps
    BY <1>1, <1>2, <1>3, <1>4, <1>5 DEF AgentSteps
  <1>6. CASE UNCHANGED allVars
    BY <1>6 DEF allVars
  <1> QED BY <1>5, <1>6, ToolStepsAreSteps DEF AgentNext

\* The step that AgentEffectIsBest allows.
BestEffects ==
    \A t \in Threads :
      LET r == ranking[t].run
          ranked == ranking[t].ranked
      IN  /\ ranking[t] # NULL
          /\ effects'[r] # effects[r]
          => \E x \in ranked :
               /\ x.action = last'[r].request.action
               /\ x.allowed
               /\ x.requires_approval =>
                    txn[t].settings # ranking[t].settings
               /\ x.action \in RECOVERY_INTERVENTIONS => x.value >= 0
               /\ \A y \in ranked :
                    /\ y.allowed
                    /\ y.action \in RECOVERY_INTERVENTIONS
                    /\ y.value >= 0
                    => /\ x.action \in RECOVERY_INTERVENTIONS
                       /\ y.value - x.value <= TieEpsilon

\* While an agent run is open, only its own tool takes effect on its key, with
\* the action that was selected and without approval.
LEMMA EffectsAreBest ==
    ASSUME AgentInv, [AgentNext]_allVars
    PROVE  BestEffects
  <1> SUFFICES ASSUME NEW t \in Threads, ranking[t] # NULL,
                      effects'[ranking[t].run] # effects[ranking[t].run]
               PROVE  LET w == ranking[t] IN
                      \E y \in w.ranked :
                        /\ y.action = last'[w.run].request.action
                        /\ y.requires_approval => txn[t].settings # w.settings
                        /\ BestOf(y, w.ranked)
    BY DEF BestEffects, BestOf
  <1>1. PICK w \in Ranking : w = ranking[t]
    BY DEF AgentInv, AgentRowsOK
  <1>2. w.run \in Agents /\ w.run \in Keys
    BY AgentKeys DEF Ranking
  <1>3. IndInv /\ Alone(t)
    BY DEF AgentInv, LimitInv, ThreadsOK
  <1>4. [Next]_vars
    BY <1>1, AgentStepIs DEF history
  <1>5. PICK u \in Threads : /\ Commit(u)
                             /\ txn[u].key = w.run
                             /\ TakesEffect(txn[u])
    BY <1>1, <1>2, <1>3, <1>4, EffectsChange
  <1>6. u = t /\ txn[t] # NULL
    BY <1>1, <1>3, <1>5 DEF Commit, Alone
  <1>7. /\ ~txn[t].approved
        /\ txn[t].key = w.run
        /\ txn[t].request.action = w.selected
        /\ Chosen(w)
    BY <1>1, <1>6, OwnTool
  <1>8. /\ Permitted(txn[t])
        /\ last'[w.run].request = txn[t].request
    BY <1>3, <1>5, <1>6, EffectPermitted
  <1>9. ~NeedsApproval(txn[t].settings, AtRisk[CaseOf[w.run]], w.selected)
    BY <1>7, <1>8 DEF Permitted
  <1> QED BY <1>1, <1>7, <1>8, <1>9 DEF Chosen

\* For every list of candidates a language model answers with, every predicted
\* probability and every cached one: what an agent run does at once was ranked
\* and permitted, needed no approval by the policy it was ranked under unless
\* that was updated since, and no permitted intervention is better by more
\* than the tie epsilon (select_action, evaluate_action, _execute_selected).
THEOREM AgentEffectIsBestHolds == AgentSpec => AgentEffectIsBest
  <1>1. [][AgentNext]_allVars /\ []AgentInv => [][BestEffects]_allVars
    BY EffectsAreBest, PTL
  <1>2. [][BestEffects]_allVars => AgentEffectIsBest
    BY DEF BestEffects, AgentEffectIsBest
  <1> QED BY <1>1, <1>2, AgentInvariance, PTL DEF AgentSpec

\* With agents, too, the provider is called twice for a key only when the run
\* of an earlier call was rolled back (handle_retry_payment,
\* handle_create_payment_link).
THEOREM AgentProviderCalledOnce == AgentSpec => []ProviderCalledOnce
  <1>1. AgentInv => ProviderCalledOnce
    BY DEF AgentInv, LimitInv, IndInv, KeysOK, KeyOK, ProviderCalledOnce
  <1> QED BY <1>1, AgentInvariance, PTL

\* Agents that retry, clients that retry and approved retries together add at
\* most one retried payment to a case (handle_retry_payment).
THEOREM AgentOneRetryPayment == AgentSpec => []OneRetryPayment
  BY AgentInvariance, PTL DEF AgentInv, RetryOK

\* Agents take part in the same count of reminders: more of them in 24 hours
\* than a policy allowed only if two runs counted at the same time
\* (_communications_last_24h).
THEOREM AgentRemindersWithinLimit == AgentSpec => []RemindersWithinLimit
  BY AgentInvariance, PTL DEF AgentInv, LimitInv

\* No agent run takes an effect that needs approval, and an approval asked for
\* by an agent run is decided like any other (_execute_selected,
\* approve_action, _assert_usable_approval).
THEOREM AgentEffectIsApproved == AgentSpec => EffectIsApproved
  <1>1. ASSUME AgentInv, [AgentNext]_allVars
        PROVE  [ApprovedEffects]_vars
    <2>1. CASE [Next]_vars
      BY <1>1, <2>1, EffectsAreApproved DEF AgentInv, LimitInv
    <2>2. CASE UNCHANGED <<keys, history>>
      BY <2>2 DEF history, ApprovedEffects
    <2> QED BY <1>1, <2>1, <2>2, AgentStepIs
  <1>2. [][ApprovedEffects]_vars => EffectIsApproved
    BY DEF ApprovedEffects, EffectIsApproved
  <1> QED BY <1>1, <1>2, AgentInvariance, PTL DEF AgentSpec

\* Once automatic recovery is switched off, an agent run takes an automatic
\* effect only if its tool had read the policy before (evaluate_action,
\* patch_policy).
THEOREM AgentKillSwitchStops == AgentSpec => KillSwitchStops
  <1>1. ASSUME AgentInv, [AgentNext]_allVars
        PROVE  [AutomaticEffects]_vars
    <2>1. CASE [Next]_vars
      BY <1>1, <2>1, SwitchWasOn DEF AgentInv, LimitInv
    <2>2. CASE UNCHANGED <<keys, history>>
      BY <2>2 DEF history, AutomaticEffects
    <2> QED BY <1>1, <2>1, <2>2, AgentStepIs
  <1>2. [][AutomaticEffects]_vars => KillSwitchStops
    BY DEF AutomaticEffects, KillSwitchStops
  <1> QED BY <1>1, <1>2, AgentInvariance, PTL DEF AgentSpec

\* The tools with agents on top implement OnceOnly: the key of an agent run is
\* decided once, by the run or by the approval it asked for, and takes effect
\* once (AgentToolGateway.execute, begin_idempotent_operation).
THEOREM AgentKeyDecidesOnce == AgentSpec => KeyDecidesOnce
  <1>1. ASSUME AgentInv, [AgentNext]_allVars
        PROVE  [Once!Next]_(Once!vars)
    <2>1. Once!Next \/ UNCHANGED <<AllDecided, effects, answers>>
      BY <1>1, AgentStepIs, StepIsOnce, SameDecisions
      DEF AgentInv, LimitInv, history
    <2> QED BY <2>1 DEF Once!vars, AllDecided
  <1>2. AgentInit => Once!Init
    BY OnceInitially DEF AgentInit
  <1> QED BY <1>1, <1>2, AgentInvariance, PTL
          DEF AgentSpec, KeyDecidesOnce, Once!Spec

\* The other limits hold with agents as without, and a case still waits for
\* approval only with a cause (_retry_count, _discount_spent_today,
\* apply_case_outcome).
THEOREM AgentLimitsHold ==
    AgentSpec => [](/\ RetriesWithinLimit
                    /\ DiscountsWithinBudget
                    /\ ApprovedDiscountWaitsForMidnight
                    /\ WaitingHasCause)
  <1>1. AgentInv => /\ RetriesWithinLimit
                    /\ DiscountsWithinBudget
                    /\ ApprovedDiscountWaitsForMidnight
                    /\ WaitingHasCause
    BY DEF AgentInv, LimitInv, IndInv, WaitsOK, Waits, Cause, WaitingHasCause
  <1> QED BY <1>1, AgentInvariance, PTL
=============================================================================
