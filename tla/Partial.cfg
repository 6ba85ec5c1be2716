SPECIFICATION Spec
CONSTANTS
    Workers = {w1, w2}
    w1 = w1
    w2 = w2
    Payments = {p1, p2, p3}
    p1 = p1
    p2 = p2
    p3 = p3
    Cases = {c1}
    c1 = c1
    Events = {e1, e2, e3}
    e1 = e1
    e2 = e2
    e3 = e3
    customer = customer
    order = order
    Unordered = {p3}
    NULL = NULL
    EventTypes = {"FAILED", "CAPTURED"}
    Amounts = {1, 2}
    CustomerOf <- OneCustomer
    OrderOf <- Orders
    CurrencyOf <- OneCurrency
    Grace = 0
    Window = 1
    Start = 0
    MaxTime = 0
    MaxFaults = 1
INVARIANTS CreditExact CreditFromContext
PROPERTIES SettledIsFinal ImplementsLedger
SYMMETRY Symmetry
CHECK_DEADLOCK FALSE
