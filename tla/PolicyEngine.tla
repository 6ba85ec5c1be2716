---------------------------- MODULE PolicyEngine ----------------------------
(***************************************************************************)
(* The policy engine (policy_engine.py): what it answers for a proposed    *)
(* action, given the merchant's settings (recovery_config.py) and what     *)
(* build_policy_context read from the database (policy_context.py).  It is *)
(* a function: the modules that use it say when its inputs are read and    *)
(* which of them are locked.                                               *)
(*                                                                         *)
(* Money is in its quantum (0.01), percentages are whole numbers, and the  *)
(* hour of the day is any division of the day the using module keeps.      *)
(***************************************************************************)
EXTENDS Naturals

\* RecoveryActionType.
RecoveryActionType ==
    {"RETRY_NOW", "RETRY_LATER", "SEND_PAYMENT_LINK", "SEND_REMINDER",
     "OFFER_DISCOUNT", "ESCALATE", "DO_NOTHING"}

AUTOMATIC_ACTIONS == RecoveryActionType \ {"ESCALATE", "DO_NOTHING"}
COMMUNICATION_ACTIONS == {"SEND_REMINDER", "SEND_PAYMENT_LINK",
                          "OFFER_DISCOUNT"}
RETRY_ACTIONS == {"RETRY_NOW", "RETRY_LATER"}

\* RecoverySettings, and the blocked_action_types and discount rules of the
\* merchant.  The lengths of time are in the ticks of the using module.
Settings ==
    [high_value_approval_threshold: Nat, medium_value_approval_threshold: Nat,
     max_retry_attempts: Nat, max_discount_percent: Nat,
     max_daily_discount_budget: Nat, max_communications_per_day: Nat,
     quiet_hours_start: Nat, quiet_hours_end: Nat,
     automatic_recovery_enabled: BOOLEAN, approval_ttl: Nat,
     blocked_action_types: SUBSET RecoveryActionType]

\* merge_merchant: the merchant's policy section names the settings it
\* overrides; a missing or empty value keeps the default.
merge_merchant(defaults, policy) ==
    [f \in DOMAIN defaults |->
        IF f \in DOMAIN policy THEN policy[f] ELSE defaults[f]]

\* ProposedAction, as _proposed_from_payload builds it.  The percentage is
\* read only for OFFER_DISCOUNT, which names one.
ProposedAction == [action: RecoveryActionType, percent: Nat]

\* PolicyContext.  suspicious stands for suspicious and source_mismatch, which
\* every rule reads together.
Context ==
    [amount_at_risk: Nat, hour: Nat, retry_count: Nat,
     communications_last_24h: Nat, discount_spent_today: Nat,
     customer_opted_out: BOOLEAN, suspicious: BOOLEAN,
     discount_eligible: BOOLEAN]

-----------------------------------------------------------------------------
(* Rules *)

\* _value_risk: the two value rules differ only in the risk they report.
NeedsApproval(s, at_risk, action) ==
    /\ action \in AUTOMATIC_ACTIONS
    /\ \/ at_risk > s.high_value_approval_threshold
       \/ at_risk > s.medium_value_approval_threshold

\* suspicious_source_mismatch, the only rule whose reason names the source.
SourceRule(ctx, action) == ctx.suspicious /\ action \in AUTOMATIC_ACTIONS

\* blocked_action_types and automatic_recovery_kill_switch.
MerchantRules(s, action) ==
    \/ action \in s.blocked_action_types
    \/ ~s.automatic_recovery_enabled /\ action \in AUTOMATIC_ACTIONS

\* Mutant: the attempt that reaches the limit is still allowed.
RetryRuleLate(s, ctx, action) ==
    action \in RETRY_ACTIONS /\ ctx.retry_count > s.max_retry_attempts

\* max_retry_attempts.
RetryRule(s, ctx, action) ==
    action \in RETRY_ACTIONS /\ ctx.retry_count >= s.max_retry_attempts

\* Mutant: the budget is compared with what was spent before this offer.
OverBudgetBefore(s, ctx, offer) ==
    ctx.discount_spent_today > s.max_daily_discount_budget

\* daily_discount_budget.  The offer is in hundredths of the quantum: it is
\* not rounded unless the caller names discount_amount.
OverBudget(s, ctx, offer) ==
    ctx.discount_spent_today * 100 + offer > s.max_daily_discount_budget * 100

\* _discount_rules.
DiscountRules(s, ctx, p, offer) ==
    /\ p.action = "OFFER_DISCOUNT"
    /\ \/ p.percent > s.max_discount_percent
       \/ ~ctx.discount_eligible
       \/ OverBudget(s, ctx, offer)

_in_quiet_hours(s, hour) ==
    IF s.quiet_hours_start <= s.quiet_hours_end
    THEN s.quiet_hours_start <= hour /\ hour < s.quiet_hours_end
    ELSE s.quiet_hours_start <= hour \/ hour < s.quiet_hours_end

\* Mutant: the message that reaches the limit is still allowed.
FrequencyRuleLate(s, ctx) ==
    ctx.communications_last_24h > s.max_communications_per_day

\* communication_frequency.
FrequencyRule(s, ctx) ==
    ctx.communications_last_24h >= s.max_communications_per_day

\* _communication_rules.
CommunicationRules(s, ctx, action) ==
    /\ action \in COMMUNICATION_ACTIONS
    /\ \/ ctx.customer_opted_out
       \/ FrequencyRule(s, ctx)
       \/ action = "SEND_REMINDER" /\ _in_quiet_hours(s, ctx.hour)

Denied(s, ctx, p, offer) ==
    \/ MerchantRules(s, p.action)
    \/ SourceRule(ctx, p.action)
    \/ RetryRule(s, ctx, p.action)
    \/ DiscountRules(s, ctx, p, offer)
    \/ CommunicationRules(s, ctx, p.action)

\* A denial needs no approval; the processor tells apart the denials whose
\* reason names the source.
EvaluateOffer(s, ctx, p, offer) ==
    IF Denied(s, ctx, p, offer)
    THEN IF SourceRule(ctx, p.action) THEN "DENY_SOURCE" ELSE "DENY"
    ELSE IF NeedsApproval(s, ctx.amount_at_risk, p.action) THEN "APPROVE"
    ELSE "ALLOW"

\* evaluate_action of a proposal without discount_amount.
evaluate_action(s, ctx, p) ==
    EvaluateOffer(s, ctx, p, ctx.amount_at_risk * p.percent)
=============================================================================
