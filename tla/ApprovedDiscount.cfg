SPECIFICATION Spec
CONSTANTS
    Threads = {t1, t2}
    t1 = t1
    t2 = t2
    Cases = {c1, c2}
    c1 = c1
    c2 = c2
    Keys = {k1, k2, k3, p2}
    k1 = k1
    k2 = k2
    k3 = k3
    p2 = p2
    CaseOf <- KeyCase
    PlannedKey <- ProcessorKey
    PlannedAction <- ProcessorAction
    AtRisk <- CaseAmount
    Calls <- KeyCalls
    Defaults <- DefaultSettings
    MerchantPolicy <- Overrides
    Policies <- OperatorPolicies
    Customer <- OneCustomer
    Findings <- CaseFindings
    Day = 2
    MaxTime = 2
    MaxRuns = 3
    MaxLost = 1
    NULL = NULL
PROPERTY ApprovedDiscountIsGiven
SYMMETRY Symmetry
CHECK_DEADLOCK FALSE
