-------------------------- MODULE MCToolExecution --------------------------
(***************************************************************************)
(* An instance of ToolExecution.  Amounts are scaled down: the settings    *)
(* keep the order of the defaults, where the daily discount budget is not  *)
(* above the value from which an approval is needed.                       *)
(***************************************************************************)
EXTENDS ToolExecution, TLC

CONSTANTS t1, t2, c1, c2, p2, k1, k2, k3

\* A case below the approval threshold, and one above it which the processor
\* also works on.
CaseAmount == (c1 :> 4) @@ (c2 :> 6)
KeyCase == (k1 :> c1) @@ (k2 :> c1) @@ (k3 :> c2) @@ (p2 :> c2)
ProcessorKey == c2 :> p2
ProcessorAction == [c \in Cases |-> "RETRY_LATER"]
CaseFindings == (c1 :> {}) @@ (c2 :> {"OTHER"})

Call(action) == [action |-> action,
                 percent |-> IF action = "OFFER_DISCOUNT" THEN 50 ELSE 0]
KeyCalls == [k \in Keys |->
               IF k = p2 THEN {}
               ELSE {Call("OFFER_DISCOUNT")}
                      \cup {r \in {Call("RETRY_NOW"), ReadOnly} : k = k3}]

\* Two retries of the case below the threshold.
RetryCalls == [k \in Keys |-> {r \in {Call("RETRY_NOW")} : k \in {k1, k2}}]

DefaultSettings ==
    [high_value_approval_threshold |-> 6,
     medium_value_approval_threshold |-> 4,
     max_retry_attempts |-> 3, max_discount_percent |-> 50,
     max_daily_discount_budget |-> 3, max_communications_per_day |-> 3,
     quiet_hours_start |-> 1, quiet_hours_end |-> 0,
     automatic_recovery_enabled |-> TRUE, approval_ttl |-> 2,
     blocked_action_types |-> {}]
Overrides == [max_retry_attempts |-> 2, max_communications_per_day |-> 1]

\* The switch, and a body that is refused.
SwitchedOff == [DefaultSettings EXCEPT !.automatic_recovery_enabled = FALSE,
                                       !.max_retry_attempts = 2,
                                       !.max_communications_per_day = 1]
OperatorPolicies ==
    {SwitchedOff,
     [SwitchedOff EXCEPT !.medium_value_approval_threshold = 7]}

OneCustomer == [opted_out |-> FALSE, suspicious |-> FALSE,
                discount_eligible |-> TRUE]

\* The threads are alike, and so are the two keys of c1.
Symmetry == Permutations(Threads) \cup Permutations({k1, k2})
              \cup {p @@ q : p \in Permutations(Threads),
                             q \in Permutations({k1, k2})}
=============================================================================
