SPECIFICATION AgentSpec
CONSTANTS
    Threads = {t1, t2}
    t1 = t1
    t2 = t2
    Cases = {c1, c2}
    c1 = c1
    c2 = c2
    Keys = {k1, r1, r2, r3}
    Agents = {r1, r2, r3}
    k1 = k1
    r1 = r1
    r2 = r2
    r3 = r3
    CaseOf <- KeyCase
    PlannedKey <- NoProcessor
    PlannedAction <- ProcessorAction
    AtRisk <- CaseAmount
    Calls <- KeyCalls
    Defaults <- DefaultSettings
    MerchantPolicy <- NoOverrides
    Policies <- OperatorPolicies
    Customer <- OneCustomer
    Findings <- CaseFindings
    Day = 2
    MaxTime = 1
    MaxRuns = 3
    MaxLost = 1
    NULL = NULL
    Costs <- ActionCost
    DiscountPercent = 15
    TieEpsilon = 1
    FailureCode <- Codes
    LlmAnswers <- Proposals
    Predicted <- ModelAnswer
    Caches <- CachedQuotes
    Malformed = {c2}
    Limits <- Deployments
    One = 20
INVARIANTS AgentTypeOK OnlyCompletedRunsAct ExecutorAgrees
    RemindersWithinLimit ProviderCalledOnce
PROPERTIES AgentEffectIsBest
SYMMETRY Symmetry
CHECK_DEADLOCK FALSE
