------------------------- MODULE AgentOrchestration -------------------------
(***************************************************************************)
(* The agent orchestrator (agents/orchestrator.py) on top of the optimizer *)
(* and the tools.  A run goes through triage, diagnosis, strategy,         *)
(* optimization and explanation, each of which costs a step of its budget, *)
(* and may then execute the selected action as a tool, under a key of its  *)
(* own (agent:<run>:<action>), which names the run here.                   *)
(*                                                                         *)
(* A run is one transaction that holds the lock on its case.  The policy   *)
(* is read twice in it, by the optimizer and by the executor, and what it  *)
(* counts is not locked: Rank and ExecuteSelected are two steps.           *)
(*                                                                         *)
(* The language model only ever answers with a list of candidates, or not  *)
(* usefully: then the deterministic fallback is used.                      *)
(***************************************************************************)
EXTENDS ToolExecution, Optimizer

CONSTANTS
    Agents,         \* the keys of the agent runs
    FailureCode,    \* failure_code of the payment of each case
    LlmAnswers,     \* the candidate_actions a language model may answer with
    Predicted,      \* the probability the model gives each action, in percent
    Caches,         \* the unexpired model_predictions rows a run may find
    Malformed,      \* cases whose features the model may refuse
    Limits          \* the AgentSettings a run may be started with

\* The key of a run holds the id of its row, which run_case has just drawn:
\* neither a client nor the processor uses it.
ASSUME AgentsAssumption ==
    /\ Agents \subseteq Keys
    /\ \A r \in Agents : Calls[r] = {}
    /\ \A c \in DOMAIN PlannedKey : PlannedKey[c] \notin Agents
ASSUME FailureAssumption ==
    FailureCode \in [Cases -> {"CUSTOMER_CANCELLED", "MANDATE_FAILURE",
                               "TEMPORARY_BANK_ERROR", "NETWORK_TIMEOUT",
                               "INSUFFICIENT_FUNDS", "EXPIRED_CARD",
                               "DECLINED", "UNKNOWN"}]
ASSUME QuotesAssumption ==
    /\ Predicted \in [RecoveryActionType -> 0..100]
    /\ \A cache \in Caches :
         /\ DOMAIN cache \subseteq RecoveryActionType
         /\ cache \in [DOMAIN cache -> 0..100]
ASSUME MalformedAssumption == Malformed \subseteq Cases
ASSUME LimitsAssumption ==
    Limits \subseteq [max_agent_steps: Nat, max_tool_calls: Nat,
                      max_repeated_tool_calls: Nat]

VARIABLES
    agent_runs,  \* the orchestrator's agent_runs row of each run
    ranking      \* the run each thread has open, between its two steps

agentVars == <<agent_runs, ranking>>
allVars == <<vars, agentVars>>

-----------------------------------------------------------------------------
(* Rows *)

\* status of the orchestrator's AgentRun.
AgentRunStatus == {"ABSENT", "RUNNING", "COMPLETED", "FAILED"}

\* An open run: its limits, what the optimizer ranked and selected, and what
\* it read to do so.
Ranking == [run: Agents, limits: Limits, ranked: SUBSET Candidate,
            selected: RecoveryActionType, settings: Settings,
            offers: [Keys -> Nat], notified: SUBSET Keys]

AgentInit ==
    /\ Init
    /\ agent_runs = [r \in Agents |-> "ABSENT"]
    /\ ranking = [t \in Threads |-> NULL]

\* No run between its two steps has the case locked.
Free(c) == \A t \in Threads : ranking[t] # NULL => CaseOf[ranking[t].run] # c

-----------------------------------------------------------------------------
(* Stages *)

\* fallback_strategy, for the recoverability d of the diagnosis.
fallback_strategy(code, d) ==
    IF \/ d = "UNRECOVERABLE"
       \/ code \in {"CUSTOMER_CANCELLED", "MANDATE_FAILURE"}
    THEN CONTROL_STRATEGIES
    ELSE IF code \in {"TEMPORARY_BANK_ERROR", "NETWORK_TIMEOUT"}
    THEN RecoveryActionType \ {"OFFER_DISCOUNT"}
    ELSE IF code = "INSUFFICIENT_FUNDS"
    THEN RecoveryActionType \ {"RETRY_NOW"}
    ELSE IF code \in {"EXPIRED_CARD", "DECLINED"}
    THEN RecoveryActionType \ RETRY_ACTIONS
    ELSE RecoveryActionType

\* fallback_diagnosis, as far as the strategy reads it.
fallback_diagnosis(code) ==
    IF code \in {"CUSTOMER_CANCELLED", "MANDATE_FAILURE"} THEN "UNRECOVERABLE"
    ELSE "RECOVERABLE"

\* DiagnosisAgent.run: a known failure code decides; otherwise the language
\* model may answer either.
Diagnoses(code) ==
    {fallback_diagnosis(code)}
      \cup {d \in {"UNRECOVERABLE", "RECOVERABLE"} : code = "UNKNOWN"}

\* The validator of StrategyResult.
closed_enum_only(answer) == answer # {} /\ answer \subseteq RecoveryActionType

\* try_llm_model: an answer that validates, or none after its retries.
try_llm_model == {answer \in LlmAnswers : closed_enum_only(answer)}

\* StrategyAgent.run: the answer of the language model, or the fallback.
Strategies(c) ==
    try_llm_model
      \cup {fallback_strategy(FailureCode[c], d) :
               d \in Diagnoses(FailureCode[c])}

\* resolve_probability: a cached prediction that has not expired, or the
\* model's, or that of the model's own fallback.
resolve_probability(cache, action) ==
    IF action \in DOMAIN cache THEN cache[action] ELSE Predicted[action]

\* RecoveryOptimizer.optimize.
optimize(ctx, candidates, cache) ==
    {Scored(settings, ctx, a, resolve_probability(cache, a)) :
        a \in candidates}

\* optimize_case.  The cache is shared with the optimize endpoint, which takes
\* no lock.
Rankings(c, candidates) ==
    {optimize(build_policy_context(c), candidates, cache) : cache \in Caches}

\* _advance: the later of the two statuses on the walk; past it, none.
Position(s) == CHOOSE i \in 1..7 : Walk[i] = s
Advanced(s, target) ==
    IF s \in OnWalk /\ Position(s) < Position(target) THEN target ELSE s

\* The status after so many of the first five steps.
Reached(s, steps) ==
    IF steps = 0 THEN s
    ELSE Advanced(s, <<"TRIAGED", "DIAGNOSED", "DIAGNOSED", "POLICY_CHECK",
                       "POLICY_CHECK">>[steps])

\* _fail_closed.
FailClosed(s) == IF s = "POLICY_CHECK" THEN "ESCALATED" ELSE s

-----------------------------------------------------------------------------
(* run_case *)

Starts(r) ==
    LET c == CaseOf[r] IN
    /\ agent_runs[r] = "ABSENT"
    /\ \A t \in Threads : ranking[t] # NULL => ranking[t].run # r
    /\ \A t \in Threads : txn[t] # NULL => txn[t].key # r
    /\ Unlocked(c)
    /\ Free(c)
    /\ ~is_terminal(cases[c].status)

\* The run ends in this transaction, and leaves the case in status s.
Ends(r, result, s) ==
    /\ agent_runs' = [agent_runs EXCEPT ![r] = result]
    /\ cases' = [cases EXCEPT ![CaseOf[r]].status = s]
    /\ UNCHANGED <<clock, policy, actions, keys, approvals, notifications, txn,
                   runs, history, ranking>>

\* add_step raises before the run has come to execute.
StepLimit(r, limits) ==
    LET s == cases[CaseOf[r]].status
        n == limits.max_agent_steps
    IN  /\ Starts(r)
        /\ n < 5
        /\ n = 0 \/ CanWalk(s)
        /\ Ends(r, "FAILED", FailClosed(Reached(s, n)))

\* An error that is not an AgentError leaves the row RUNNING and is answered
\* by the API, which commits: the case cannot be advanced to TRIAGED, or its
\* features are refused.
LeftRunning(r, limits) ==
    LET c == CaseOf[r]
        s == cases[c].status
    IN  /\ Starts(r)
        /\ \/ ~CanWalk(s) /\ limits.max_agent_steps >= 1
           \/ CanWalk(s) /\ c \in Malformed /\ limits.max_agent_steps >= 4
        /\ Ends(r, "RUNNING", IF CanWalk(s) THEN Reached(s, 3) ELSE s)

\* Mutant: a tool is run although the optimizer selected nothing.
WantsToolAlways(execute, selected) == execute

WantsTool(execute, selected) == execute /\ selected # "NONE"

\* The first five steps.  The run ends here when it is not to execute or
\* nothing was selected.
Rank(t, r, limits, execute) ==
    LET c == CaseOf[r]
        s == cases[c].status
    IN  /\ txn[t] = NULL /\ ranking[t] = NULL
        /\ Starts(r)
        /\ limits.max_agent_steps >= 5
        /\ CanWalk(s)
        /\ \E candidates \in Strategies(c) :
             \E ranked \in Rankings(c, candidates) :
               LET selected == select_action(ranked,
                                 build_policy_context(c).suspicious)
               IN  IF WantsTool(execute, selected)
                   THEN /\ runs < MaxRuns
                        /\ ranking' = [ranking EXCEPT ![t] =
                             [run |-> r, limits |-> limits, ranked |-> ranked,
                              selected |-> selected, settings |-> settings,
                              offers |-> Offers, notified |-> Notified]]
                        /\ UNCHANGED <<vars, agent_runs>>
                   ELSE Ends(r, "COMPLETED", Reached(s, 5))

\* add_step("execute") and add_tool of the one call a run makes.
AllowsTool(limits) ==
    /\ limits.max_agent_steps >= 6
    /\ limits.max_tool_calls >= 1
    /\ limits.max_repeated_tool_calls >= 1

\* A limit stops the run before its tool: fail closed.
ToolLimit(t) ==
    LET x == ranking[t]
        s == cases[CaseOf[x.run]].status
    IN  /\ x # NULL
        /\ ~AllowsTool(x.limits)
        /\ agent_runs' = [agent_runs EXCEPT ![x.run] = "FAILED"]
        /\ cases' = [cases EXCEPT ![CaseOf[x.run]].status =
                       FailClosed(Reached(@, 5))]
        /\ ranking' = [ranking EXCEPT ![t] = NULL]
        /\ UNCHANGED <<clock, policy, actions, keys, approvals, notifications,
                       txn, runs, history>>

\* Mutant: the discount offered is not the one that was ranked.
PayloadDouble(selected) ==
    [action |-> selected,
     percent |-> IF selected = "OFFER_DISCOUNT" THEN 2 * DiscountPercent
                 ELSE 0]

\* _payload_for_action: a discount offers the ranked percentage, but 5 when
\* that is 0.
_payload_for_action(selected) ==
    IF selected = "OFFER_DISCOUNT" /\ DiscountPercent = 0
    THEN [action |-> selected, percent |-> 5]
    ELSE Proposal(selected)

\* _execute_selected: the tool run goes on in the same transaction.
ExecuteSelected(t) ==
    LET x == ranking[t] IN
    /\ x # NULL
    /\ AllowsTool(x.limits)
    /\ Begin(t, x.run, x.run, _payload_for_action(x.selected), FALSE)
    /\ UNCHANGED agentVars

\* Mutant: only a tool that succeeded completes the run.
FinishedIfSucceeded(outcome) ==
    IF outcome = "SUCCEEDED" THEN "COMPLETED" ELSE "RUNNING"

\* complete_agent_run: the run is complete, whatever the tool's result.
Finished(outcome) == "COMPLETED"

\* The tool has returned.
FinishRun(t) ==
    LET x == ranking[t] IN
    /\ x # NULL
    /\ txn[t] # NULL
    /\ Commit(t)
    /\ agent_runs' = [agent_runs EXCEPT ![x.run] =
                         Finished(txn[t].outcome)]
    /\ ranking' = [ranking EXCEPT ![t] = NULL]

\* The transaction of the run rolls back, and its row with it.
AbortRun(t) ==
    /\ ranking[t] # NULL
    /\ IF txn[t] = NULL THEN UNCHANGED vars ELSE Abort(t)
    /\ ranking' = [ranking EXCEPT ![t] = NULL]
    /\ UNCHANGED agent_runs

-----------------------------------------------------------------------------
(* Composition *)

\* The steps of agent runs.
AgentSteps ==
    \/ \E r \in Agents, limits \in Limits :
          StepLimit(r, limits) \/ LeftRunning(r, limits)
    \/ \E t \in Threads, r \in Agents, limits \in Limits, execute \in BOOLEAN :
          Rank(t, r, limits, execute)
    \/ \E t \in Threads :
          ToolLimit(t) \/ ExecuteSelected(t) \/ FinishRun(t) \/ AbortRun(t)

\* What clients, approvers, the verifier, operators and time do meanwhile.
ToolSteps ==
    /\ \/ \E t \in Threads, k \in Keys : \E request \in Calls[k] :
             ranking[t] = NULL /\ Free(CaseOf[k]) /\ Execute(t, k, k, request)
       \/ \E t \in Threads, k \in Keys :
             ranking[t] = NULL /\ Free(CaseOf[k]) /\ Approve(t, k)
       \/ \E t \in Threads : ranking[t] = NULL /\ Commit(t)
       \/ \E k \in Keys : Free(CaseOf[k]) /\ ApproveExpired(k)
       \/ \E k \in Keys : Free(CaseOf[k]) /\ Reject(k)
       \/ \E c \in Cases : \E found \in Findings[c] :
             Free(c) /\ Verify(c, found)
       \/ \E p \in Policies : UpdatePolicy(p)
       \/ (\A t \in Threads : ranking[t] = NULL) /\ Tick
    /\ UNCHANGED agentVars

AgentNext == AgentSteps \/ ToolSteps

AgentSpec == AgentInit /\ [][AgentNext]_allVars

-----------------------------------------------------------------------------
(* Properties *)

\* Rows and open runs have the shape the code gives them, the tools' rows too.
AgentTypeOK ==
    /\ TypeOK
    /\ agent_runs \in [Agents -> AgentRunStatus]
    /\ ranking \in [Threads -> Ranking \cup {NULL}]

\* A run that exceeded a limit or was left RUNNING has touched nothing but the
\* status of its case: its key was never used, so nothing took effect, no
\* approval was asked and the provider was not called; and a run whose tool
\* ran is COMPLETED (run_case, AgentToolGateway.execute).
OnlyCompletedRunsAct ==
    \A r \in Agents :
      (\/ keys[r].status # "ABSENT" \/ actions[r].status # "ABSENT"
       \/ effects[r] > 0 \/ calls[r] > lost[r])
      => agent_runs[r] = "COMPLETED"

\* Whatever candidates a language model proposed and whatever probabilities
\* the model gave, an agent run takes effect at once only with an action that
\* policy permits without approval (unless the policy was updated since it was
\* ranked), and that is worth it: an intervention of value at least zero that
\* no permitted candidate beats by more than the tie epsilon, or a control
\* action when no permitted intervention is worth anything (select_action,
\* evaluate_action).
AgentEffectIsBest ==
    [][\A t \in Threads :
         LET r == ranking[t].run
             ranked == ranking[t].ranked
         IN  /\ ranking[t] # NULL
             /\ effects'[r] # effects[r]
             => \E x \in ranked :
                  /\ x.action = last'[r].request.action
                  /\ x.allowed
                  /\ x.requires_approval =>
                       txn[t].settings # ranking[t].settings
                  /\ x.action \in RECOVERY_INTERVENTIONS => x.value >= 0
                  /\ \A y \in ranked :
                       /\ y.allowed
                       /\ y.action \in RECOVERY_INTERVENTIONS
                       /\ y.value >= 0
                       => /\ x.action \in RECOVERY_INTERVENTIONS
                          /\ y.value - x.value <= TieEpsilon]_allVars

\* The proposed discount is smaller as rounded than as a percentage.
RoundedDown(c, action) ==
    discount_cost(action, AtRisk[c]) * 100
      < AtRisk[c] * Proposal(action).percent

\* The executor evaluates policy again and refuses what the optimizer had
\* permitted only if the policy was updated or a run on another case committed
\* in between, or if the discount was within the budget only as rounded
\* (_evaluate_policy proposes the rounded amount, _proposed_from_payload none)
\* or was ranked with a percentage of 0 and offered with one of 5
\* (_payload_for_action).
ExecutorAgrees ==
    \A t \in Threads :
      (ranking[t] # NULL /\ txn[t] # NULL) =>
        \/ txn[t].outcome # "BLOCKED"
        \/ txn[t].settings # ranking[t].settings
        \/ txn[t].offers # ranking[t].offers
        \/ txn[t].notified # ranking[t].notified
        \/ RoundedDown(CaseOf[txn[t].key], txn[t].request.action)
        \/ txn[t].request.action = "OFFER_DISCOUNT" /\ DiscountPercent = 0
=============================================================================
