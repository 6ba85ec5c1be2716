------------------------ MODULE MCAgentOrchestration ------------------------
(***************************************************************************)
(* An instance of AgentOrchestration: a case below the approval threshold  *)
(* with two agent runs and a client's key, and one above it with a run.    *)
(* The offline evaluation of the optimizer is checked on small batches.    *)
(***************************************************************************)
EXTENDS AgentOrchestration, BatchEvaluation, TLC

CONSTANTS t1, t2, c1, c2, k1, r1, r2, r3

CaseAmount == (c1 :> 10) @@ (c2 :> 30)
KeyCase == (k1 :> c1) @@ (r1 :> c1) @@ (r2 :> c1) @@ (r3 :> c2)
NoProcessor == [c \in {} |-> k1]
ProcessorAction == [c \in Cases |-> "RETRY_LATER"]
CaseFindings == (c1 :> {}) @@ (c2 :> {"NONE"})
NoDiscount(action) == [action |-> action, percent |-> 0]
KeyCalls == [k \in Keys |->
               IF k = k1 THEN {NoDiscount("SEND_PAYMENT_LINK")} ELSE {}]

DefaultSettings ==
    [high_value_approval_threshold |-> 40,
     medium_value_approval_threshold |-> 20,
     max_retry_attempts |-> 2, max_discount_percent |-> 15,
     max_daily_discount_budget |-> 4, max_communications_per_day |-> 1,
     quiet_hours_start |-> 1, quiet_hours_end |-> 2,
     automatic_recovery_enabled |-> TRUE, approval_ttl |-> 1,
     blocked_action_types |-> {}]
SwitchedOff == [DefaultSettings EXCEPT !.automatic_recovery_enabled = FALSE]
OperatorPolicies == {SwitchedOff}
NoOverrides == [f \in {} |-> 0]

OneCustomer == [opted_out |-> FALSE, suspicious |-> FALSE,
                discount_eligible |-> TRUE]

\* In the order of the defaults: a discount risks most, an escalation costs
\* most.
Cost(i, c, r) == [intervention |-> i, communication |-> c, risk |-> r]
ActionCost ==
    [RETRY_NOW |-> Cost(1, 0, 2), RETRY_LATER |-> Cost(1, 0, 1),
     SEND_PAYMENT_LINK |-> Cost(1, 1, 1), SEND_REMINDER |-> Cost(0, 1, 1),
     OFFER_DISCOUNT |-> Cost(0, 1, 3), ESCALATE |-> Cost(9, 0, 2),
     DO_NOTHING |-> Cost(0, 0, 0)]
ModelAnswer ==
    [RETRY_NOW |-> 60, RETRY_LATER |-> 15, SEND_PAYMENT_LINK |-> 50,
     SEND_REMINDER |-> 30, OFFER_DISCOUNT |-> 90, ESCALATE |-> 0,
     DO_NOTHING |-> 5]
CachedQuotes == {[a \in {} |-> 0], [SEND_REMINDER |-> 90, RETRY_NOW |-> 10]}
Codes == (c1 :> "TEMPORARY_BANK_ERROR") @@ (c2 :> "UNKNOWN")
Proposals == {{"OFFER_DISCOUNT", "DO_NOTHING"}, {"RETRY_NOW"},
              {"RETRY_NOW", "WRITE_OFF"}, {}}

Deployments == {[max_agent_steps |-> 8, max_tool_calls |-> 12,
                   max_repeated_tool_calls |-> 2],
                  [max_agent_steps |-> 4, max_tool_calls |-> 12,
                   max_repeated_tool_calls |-> 2],
                  [max_agent_steps |-> 8, max_tool_calls |-> 0,
                   max_repeated_tool_calls |-> 2]}

\* The threads are alike, and so are the two runs on c1.
Symmetry == Permutations(Threads) \cup Permutations({r1, r2})
              \cup {p @@ q : p \in Permutations(Threads),
                             q \in Permutations({r1, r2})}

-----------------------------------------------------------------------------
(* Batches of the offline evaluation *)

SomeOdds == [RecoveryActionType -> {0, One \div 4, One}]
SampleCase(amount, odds, forecast) ==
    [amount |-> amount, odds |-> odds, forecast |-> forecast,
     draw |-> One \div 4 - 1]

\* Whatever the probabilities, for cases that pay no action, some or any.
ASSUME SmallCases ==
    \A amount \in {500, 3000, 80000}, odds \in SomeOdds :
      NeverWorseThanNothing(SampleCase(amount, odds, odds))

\* Pairs of cases, of which the first has the certain action f and the second
\* may recover by itself.
ASSUME SmallBatches ==
    \A f \in RecoveryActionType, p \in {0, One \div 4} :
      LET certain == [a \in RecoveryActionType |-> IF a = f THEN One ELSE 0]
          organic == [a \in RecoveryActionType |-> p]
      IN  incremental_revenue(<<SampleCase(80000, certain, certain),
                                SampleCase(3000, organic, organic)>>) >= 0

\* With predictions that are not the simulator's probabilities the comparison
\* can come out below zero.
ASSUME PredictionsMayLose ==
    LET odds == [a \in RecoveryActionType |->
                   IF a = "DO_NOTHING" THEN One \div 4 ELSE 0]
        forecast == [odds EXCEPT !["RETRY_NOW"] = One]
    IN  incremental_revenue(<<SampleCase(80000, odds, forecast)>>) < 0
=============================================================================
