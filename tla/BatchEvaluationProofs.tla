----------------------- MODULE BatchEvaluationProofs -----------------------
(***************************************************************************)
(* What the offline comparison shows of the strategy it compares.          *)
(***************************************************************************)
EXTENDS BatchEvaluation, SumTheorems, TLAPS

\* Values of every action can be compared.
LEMMA ErvIsInt ==
    ASSUME NEW case \in BatchCase, NEW a \in RecoveryActionType
    PROVE  /\ erv(case, a) \in Int
           /\ _action_cost(a, case.amount) \in Nat
           /\ case.forecast[a] \in Nat
           /\ case.odds[a] \in Nat
  <1>1. /\ case.amount \in Nat
        /\ case.forecast[a] \in 0..One
        /\ case.odds[a] \in 0..One
    BY DEF BatchCase, Odds
  <1>2. One \in Nat /\ FixedCost[a] \in Nat
    BY OneAssumption DEF FixedCost, RecoveryActionType
  <1>3. /\ 20 * One * FixedCost[a] \in Nat
        /\ One * case.amount \in Nat
        /\ case.forecast[a] * case.amount \in Nat
    BY <1>1, <1>2
  <1>4. _action_cost(a, case.amount) \in Nat
    BY <1>3 DEF _action_cost
  <1> QED BY <1>1, <1>2, <1>3, <1>4 DEF erv

\* Some action is the first of the best: the choice is not arbitrary.
LEMMA BestExists ==
    ASSUME NEW v \in [RecoveryActionType -> Int]
    PROVE  \E a \in RecoveryActionType : \A b \in RecoveryActionType :
             v[b] < v[a] \/ (v[b] = v[a] /\ Place[a] <= Place[b])
  <1> DEFINE Best(S) == \E a \in S : \A b \in S :
               v[b] < v[a] \/ (v[b] = v[a] /\ Place[a] <= Place[b])
  <1>1. Place \in [RecoveryActionType -> Nat]
    BY DEF Place, RecoveryActionType
  <1>2. ASSUME NEW S \in SUBSET RecoveryActionType, Best(S),
               NEW x \in RecoveryActionType
        PROVE  Best(S \cup {x})
    <2>1. PICK a \in S : \A b \in S :
            v[b] < v[a] \/ (v[b] = v[a] /\ Place[a] <= Place[b])
      BY <1>2
    <2>2. CASE v[x] < v[a] \/ (v[x] = v[a] /\ Place[a] <= Place[x])
      BY <2>1, <2>2
    <2>3. CASE v[a] < v[x] \/ (v[a] = v[x] /\ Place[x] < Place[a])
      <3>1. \A b \in S \cup {x} :
              v[b] < v[x] \/ (v[b] = v[x] /\ Place[x] <= Place[b])
        BY <1>1, <2>1, <2>3
      <3> QED BY <3>1
    <2> QED BY <1>1, <2>2, <2>3
  <1>3. Best({"RETRY_NOW"})
    BY <1>1 DEF RecoveryActionType
  <1> HIDE DEF Best
  <1>4. Best({"RETRY_NOW"} \cup {"RETRY_LATER"} \cup {"SEND_PAYMENT_LINK"})
    BY <1>2, <1>3 DEF RecoveryActionType
  <1>5. Best({"RETRY_NOW"} \cup {"RETRY_LATER"} \cup {"SEND_PAYMENT_LINK"}
               \cup {"SEND_REMINDER"} \cup {"OFFER_DISCOUNT"})
    BY <1>2, <1>4 DEF RecoveryActionType
  <1>6. Best({"RETRY_NOW"} \cup {"RETRY_LATER"} \cup {"SEND_PAYMENT_LINK"}
               \cup {"SEND_REMINDER"} \cup {"OFFER_DISCOUNT"}
               \cup {"ESCALATE"} \cup {"DO_NOTHING"})
    BY <1>2, <1>5 DEF RecoveryActionType
  <1>7. {"RETRY_NOW"} \cup {"RETRY_LATER"} \cup {"SEND_PAYMENT_LINK"}
          \cup {"SEND_REMINDER"} \cup {"OFFER_DISCOUNT"}
          \cup {"ESCALATE"} \cup {"DO_NOTHING"} = RecoveryActionType
    BY DEF RecoveryActionType
  <1>8. Best(RecoveryActionType)
    BY <1>6, <1>7
  <1> QED BY <1>8 DEF Best

\* For every amount, every probabilities and every draw, the heuristic mode
\* of _revivex_strategy recovers what the baseline recovers.
THEOREM HeuristicNeverWorse ==
    ASSUME NEW case \in BatchCase
    PROVE  NeverWorseThanNothing(case)
  <1> SUFFICES ASSUME case.forecast = case.odds
               PROVE  recovered_amount(case, "DO_NOTHING")
                        <= recovered_amount(case, _revivex_strategy(case))
    BY DEF NeverWorseThanNothing, _baseline_strategy
  <1> DEFINE a == _revivex_strategy(case)
             n == "DO_NOTHING"
             v == [x \in RecoveryActionType |-> erv(case, x)]
  <1>1. n \in RecoveryActionType
    BY DEF RecoveryActionType
  <1>2. v \in [RecoveryActionType -> Int]
    BY ErvIsInt
  <1>3. /\ a \in RecoveryActionType
        /\ \A b \in RecoveryActionType :
             \/ erv(case, b) < erv(case, a)
             \/ erv(case, b) = erv(case, a) /\ Place[a] <= Place[b]
    <2>1. \E x \in RecoveryActionType : \A b \in RecoveryActionType :
            \/ erv(case, b) < erv(case, x)
            \/ erv(case, b) = erv(case, x) /\ Place[x] <= Place[b]
      BY <1>2, BestExists
    <2> QED BY <2>1 DEF _revivex_strategy
  <1> HIDE DEF a
  <1>4. /\ erv(case, a) \in Int
        /\ erv(case, n) \in Int
        /\ erv(case, n) <= erv(case, a)
    BY <1>1, <1>3, ErvIsInt
  <1>5. /\ case.amount \in Nat \ {0}
        /\ case.draw \in Nat
        /\ case.odds[a] \in Nat
        /\ case.odds[n] \in Nat
    BY <1>1, <1>3, ErvIsInt, OneAssumption DEF BatchCase
  <1>6. erv(case, n) = 20 * (case.odds[n] * case.amount)
    <2>1. _action_cost(n, case.amount) = 0
      BY OneAssumption DEF _action_cost, FixedCost
    <2> QED BY <1>5, <2>1 DEF erv
  <1>7. erv(case, a) <= 20 * (case.odds[a] * case.amount)
    BY <1>3, <1>5, ErvIsInt DEF erv
  <1>8. case.odds[n] * case.amount <= case.odds[a] * case.amount
    BY <1>4, <1>5, <1>6, <1>7
  <1>9. case.odds[n] <= case.odds[a]
    BY <1>5, <1>8
  <1>10. Recovers(case, n) => Recovers(case, a)
    BY <1>5, <1>9 DEF Recovers
  <1> QED BY <1>5, <1>10 DEF recovered_amount, a

\* The recovered amounts that _compute_metrics adds up.
Recovered(batch, strategy) ==
    [i \in DOMAIN batch |-> recovered_amount(batch[i], strategy[i])]

\* The total of a strategy is the sum of what it recovers.
LEMMA TotalIsSum ==
    ASSUME NEW batch, NEW strategy
    PROVE  _compute_metrics([i \in DOMAIN batch |->
                               Evaluation(batch[i], strategy[i])])
             .total_recovered
             = SumFunctionOnSet(Recovered(batch, strategy), DOMAIN batch)
  <1> DEFINE results == [i \in DOMAIN batch |->
                           Evaluation(batch[i], strategy[i])]
             recovered == [i \in DOMAIN results |->
                             results[i].recovered_amount]
  <1>1. DOMAIN results = DOMAIN batch
    OBVIOUS
  <1>2. recovered = Recovered(batch, strategy)
    BY <1>1 DEF Evaluation, Recovered
  <1>3. DOMAIN recovered = DOMAIN batch
    OBVIOUS
  <1>4. _compute_metrics(results).total_recovered = SumFunction(recovered)
    BY DEF _compute_metrics
  <1> HIDE DEF results, recovered
  <1>5. SumFunction(recovered) = SumFunctionOnSet(recovered, DOMAIN batch)
    BY <1>3 DEF SumFunction
  <1> QED BY <1>2, <1>4, <1>5 DEF results

\* For every batch, however large, the heuristic mode never reports a loss of
\* revenue against doing nothing: what _compute_metrics adds up is no smaller
\* for any case (evaluate_batch).
THEOREM HeuristicRevenueNeverNegative ==
    ASSUME NEW batch, IsFiniteSet(DOMAIN batch),
           batch \in [DOMAIN batch -> BatchCase],
           \A i \in DOMAIN batch : batch[i].forecast = batch[i].odds
    PROVE  incremental_revenue(batch) \in Nat
  <1> DEFINE ids == DOMAIN batch
             base == [i \in ids |-> _baseline_strategy(batch[i])]
             best == [i \in ids |-> _revivex_strategy(batch[i])]
             f == Recovered(batch, base)
             g == Recovered(batch, best)
  <1>1. /\ f \in [ids -> Nat]
        /\ g \in [ids -> Nat]
        /\ \A i \in ids : f[i] <= g[i]
    <2> SUFFICES ASSUME NEW i \in ids
                 PROVE  f[i] \in Nat /\ g[i] \in Nat /\ f[i] <= g[i]
      BY DEF Recovered
    <2>1. /\ f[i] = recovered_amount(batch[i], _baseline_strategy(batch[i]))
          /\ g[i] = recovered_amount(batch[i], _revivex_strategy(batch[i]))
      BY DEF Recovered
    <2>2. batch[i] \in BatchCase /\ batch[i].forecast = batch[i].odds
      OBVIOUS
    <2>3. f[i] \in Nat /\ g[i] \in Nat
      BY <2>1, <2>2 DEF recovered_amount, BatchCase
    <2>4. f[i] <= g[i]
      BY <2>1, <2>2, HeuristicNeverWorse DEF NeverWorseThanNothing
    <2> QED BY <2>3, <2>4
  <1>2. incremental_revenue(batch)
          = SumFunctionOnSet(g, ids) - SumFunctionOnSet(f, ids)
    <2>1. [i \in ids |-> Evaluation(batch[i], _baseline_strategy(batch[i]))]
            = [i \in ids |-> Evaluation(batch[i], base[i])]
      OBVIOUS
    <2>2. [i \in ids |-> Evaluation(batch[i], _revivex_strategy(batch[i]))]
            = [i \in ids |-> Evaluation(batch[i], best[i])]
      OBVIOUS
    <2>3. incremental_revenue(batch)
            = _compute_metrics([i \in ids |-> Evaluation(batch[i], best[i])])
                .total_recovered
                - _compute_metrics([i \in ids |->
                                      Evaluation(batch[i], base[i])])
                    .total_recovered
      BY <2>1, <2>2 DEF incremental_revenue
    <2> HIDE DEF base, best
    <2> QED BY <2>3, TotalIsSum
  <1> HIDE DEF f, g, ids
  <1>3. /\ SumFunctionOnSet(f, ids) \in Nat
        /\ SumFunctionOnSet(g, ids) \in Nat
    BY <1>1, SumOfNats DEF ids
  <1>4. SumFunctionOnSet(f, ids) <= SumFunctionOnSet(g, ids)
    <2>1. f \in [ids -> Int]
      BY <1>1
    <2> QED BY <1>1, <2>1, SumMonotone DEF ids
  <1> QED BY <1>2, <1>3, <1>4
=============================================================================
