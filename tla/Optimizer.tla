------------------------------ MODULE Optimizer ------------------------------
(***************************************************************************)
(* The recovery optimizer (optimizer/): the expected net value (ERV) of    *)
(* each candidate action, which of them policy permits, and the one that   *)
(* is selected.  Probabilities are in percent, money is in its quantum.    *)
(*                                                                         *)
(* Candidates are a set: the code sorts them several times, and always by  *)
(* keys that end in the action, which no two candidates share.             *)
(***************************************************************************)
EXTENDS PolicyEngine, Money

CONSTANTS
    Costs,           \* OptimizerSettings.costs_for
    DiscountPercent, \* default_discount_percent
    TieEpsilon       \* tie_epsilon

\* ActionCostAssumptions.
ActionCosts == [intervention: Nat, communication: Nat, risk: Nat]

ASSUME CostsAssumption ==
    /\ Costs \in [RecoveryActionType -> ActionCosts]
    /\ DiscountPercent \in Nat
    /\ TieEpsilon \in Nat

RECOVERY_INTERVENTIONS == AUTOMATIC_ACTIONS
CONTROL_STRATEGIES == {"ESCALATE", "DO_NOTHING"}

FRICTION_RANK ==
    [DO_NOTHING |-> 0, RETRY_LATER |-> 1, SEND_PAYMENT_LINK |-> 2,
     SEND_REMINDER |-> 3, RETRY_NOW |-> 4, OFFER_DISCOUNT |-> 5,
     ESCALATE |-> 6]

SIMPLICITY_RANK ==
    [DO_NOTHING |-> 0, SEND_REMINDER |-> 1, RETRY_LATER |-> 2,
     SEND_PAYMENT_LINK |-> 3, RETRY_NOW |-> 4, OFFER_DISCOUNT |-> 5,
     ESCALATE |-> 6]

-----------------------------------------------------------------------------
(* Candidates *)

Candidate == [action: RecoveryActionType, value: Int, cost: Nat, risk: Nat,
              allowed: BOOLEAN, requires_approval: BOOLEAN]

\* The proposal of an action: a discount carries the default percentage.
Proposal(action) ==
    [action |-> action,
     percent |-> IF action = "OFFER_DISCOUNT" THEN DiscountPercent ELSE 0]

\* costs_for_action: the concession of a discount.
discount_cost(action, amount) == as_money(amount * Proposal(action).percent)

\* intervention_cost, discount_cost and communication_cost.
DirectCost(action, amount) ==
    Costs[action].intervention + Costs[action].communication
      + discount_cost(action, amount)

expected_recovered_revenue(probability, amount) ==
    as_money(probability * amount)

expected_net_recovery(action, probability, amount) ==
    expected_recovered_revenue(probability, amount)
      - DirectCost(action, amount) - Costs[action].risk

\* _evaluate_policy: the discount is proposed with its rounded amount.
QuotedVerdict(s, ctx, action) ==
    EvaluateOffer(s, ctx, Proposal(action),
                  discount_cost(action, ctx.amount_at_risk) * 100)

\* _candidate_from_quote.  Only callers that override probabilities can leave
\* one missing, and the agents do not.
Scored(s, ctx, action, probability) ==
    LET amount == ctx.amount_at_risk
        verdict == QuotedVerdict(s, ctx, action)
    IN  [action |-> action,
         value |-> expected_net_recovery(action, probability, amount),
         cost |-> DirectCost(action, amount),
         risk |-> Costs[action].risk,
         allowed |-> verdict \in {"ALLOW", "APPROVE"},
         requires_approval |-> verdict = "APPROVE"]

-----------------------------------------------------------------------------
(* select_action *)

\* _tie_key, compared as tuples are.  The first component already differs.
TieBefore(x, y) ==
    LET key(z) == <<FRICTION_RANK[z.action], z.cost, z.risk,
                    SIMPLICITY_RANK[z.action]>>
    IN  \E i \in 1..4 : /\ key(x)[i] < key(y)[i]
                        /\ \A j \in 1..i - 1 : key(x)[j] = key(y)[j]

eligible_candidates(ranked) == {x \in ranked : x.allowed}

\* The members of the pool within epsilon of its best.
Tied(pool) ==
    {x \in pool : \A y \in pool : y.value - x.value <= TieEpsilon}

\* _max_with_ties.
_max_with_ties(pool) ==
    CHOOSE x \in Tied(pool) : \A y \in Tied(pool) \ {x} : TieBefore(x, y)

\* Mutant: the least negative intervention is better than none.
WorthwhileAny(ranked) ==
    {x \in eligible_candidates(ranked) : x.action \in RECOVERY_INTERVENTIONS}

\* non_negative_recovery.
Worthwhile(ranked) ==
    {x \in eligible_candidates(ranked) :
        x.action \in RECOVERY_INTERVENTIONS /\ x.value >= 0}

\* _select_control: the actions it may return, the preferred one first.
ControlOrder(suspicious) ==
    IF suspicious THEN <<"ESCALATE", "DO_NOTHING">>
    ELSE <<"DO_NOTHING", "ESCALATE">>

_select_control(ranked, suspicious) ==
    LET offered == {x.action : x \in eligible_candidates(ranked)}
        order == ControlOrder(suspicious)
    IN  IF order[1] \in offered THEN order[1]
        ELSE IF order[2] \in offered THEN order[2]
        ELSE "NONE"

\* The selected action, or "NONE".
select_action(ranked, suspicious) ==
    IF Worthwhile(ranked) # {} THEN _max_with_ties(Worthwhile(ranked)).action
    ELSE _select_control(ranked, suspicious)
=============================================================================
