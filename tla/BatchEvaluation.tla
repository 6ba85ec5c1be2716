-------------------------- MODULE BatchEvaluation --------------------------
(***************************************************************************)
(* The offline comparison of ReviveX with doing nothing on a batch of      *)
(* simulated cases (batch_evaluation.py).  Both strategies are given the   *)
(* same draw of the case's random number; a case is recovered when the     *)
(* draw is below the simulator's probability for the chosen action.        *)
(*                                                                         *)
(* Money is in its quantum, probabilities and draws in parts of One, and   *)
(* expected values and costs in parts of 20 * One of the quantum, because  *)
(* the discount of 5% is not rounded.                                      *)
(***************************************************************************)
EXTENDS PolicyEngine, Integers, FiniteSets, Functions

CONSTANT One

ASSUME OneAssumption == One \in Nat \ {0}

\* SCORABLE_ACTIONS, by their place in it.
Place == [RETRY_NOW |-> 1, RETRY_LATER |-> 2, SEND_PAYMENT_LINK |-> 3,
          SEND_REMINDER |-> 4, OFFER_DISCOUNT |-> 5, ESCALATE |-> 6,
          DO_NOTHING |-> 7]

Odds == [RecoveryActionType -> 0..One]

\* A generated case.  odds is intervention_recovery_probability; forecast is
\* what the strategy believes: the predictions in ml mode, or odds again in
\* heuristic mode and for predictions that fall back.
BatchCase == [amount: Nat \ {0}, odds: Odds, forecast: Odds, draw: 0..One - 1]

\* Base, communication and risk costs of an action.
FixedCost ==
    [RETRY_NOW |-> 2000, RETRY_LATER |-> 600, SEND_PAYMENT_LINK |-> 1250,
     SEND_REMINDER |-> 1400, OFFER_DISCOUNT |-> 4250, ESCALATE |-> 28000,
     DO_NOTHING |-> 0]

_action_cost(action, amount) ==
    20 * One * FixedCost[action]
      + (IF action = "OFFER_DISCOUNT" THEN One * amount ELSE 0)

erv(case, action) ==
    20 * (case.forecast[action] * case.amount)
      - _action_cost(action, case.amount)

_baseline_strategy(case) == "DO_NOTHING"

\* The loop keeps the first of the best.
_revivex_strategy(case) ==
    CHOOSE a \in RecoveryActionType :
      \A b \in RecoveryActionType :
        \/ erv(case, b) < erv(case, a)
        \/ erv(case, b) = erv(case, a) /\ Place[a] <= Place[b]

\* _simulate_outcome.
Recovers(case, action) == case.draw < case.odds[action]

recovered_amount(case, action) ==
    IF Recovers(case, action) THEN case.amount ELSE 0

final_status(case, action) ==
    IF Recovers(case, action) THEN "RECOVERED"
    ELSE IF action = "ESCALATE" THEN "ESCALATED"
    ELSE IF action = "DO_NOTHING" THEN "STOPPED"
    ELSE "FAILED"

\* _evaluate_case.
Evaluation(case, action) ==
    [recovered_amount |-> recovered_amount(case, action),
     cost |-> _action_cost(action, case.amount),
     final_status |-> final_status(case, action)]

\* _compute_metrics, of the evaluations of the cases of a batch.
_compute_metrics(results) ==
    LET ids == DOMAIN results
        recovered == [i \in ids |-> results[i].recovered_amount]
        cost == [i \in ids |-> results[i].cost]
        count(status) ==
          Cardinality({i \in ids : results[i].final_status = status})
    IN  [total_recovered |-> SumFunction(recovered),
         total_cost |-> SumFunction(cost),
         cases_recovered |-> count("RECOVERED"),
         cases_escalated |-> count("ESCALATED"),
         cases_stopped |-> count("STOPPED")]

\* evaluate_batch, of a function of cases.
incremental_revenue(batch) ==
    LET baseline == [i \in DOMAIN batch |->
                       Evaluation(batch[i], _baseline_strategy(batch[i]))]
        revivex == [i \in DOMAIN batch |->
                      Evaluation(batch[i], _revivex_strategy(batch[i]))]
    IN  _compute_metrics(revivex).total_recovered
          - _compute_metrics(baseline).total_recovered

-----------------------------------------------------------------------------

\* In heuristic mode ReviveX recovers every case that doing nothing recovers:
\* an action is chosen over DO_NOTHING only if its probability is higher by
\* enough to pay its costs, and both are given the same draw
\* (_revivex_strategy, _deterministic_rng).
NeverWorseThanNothing(case) ==
    case.forecast = case.odds =>
      recovered_amount(case, _baseline_strategy(case))
        <= recovered_amount(case, _revivex_strategy(case))
=============================================================================
