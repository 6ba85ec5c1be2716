SPECIFICATION Spec
CONSTANTS
    Workers = {w1, w2}
    w1 = w1
    w2 = w2
    Payments = {p1}
    p1 = p1
    Cases = {c1}
    c1 = c1
    Events = {e1, e2, e3}
    e1 = e1
    e2 = e2
    e3 = e3
    customer = customer
    order = order
    Unordered = {}
    NULL = NULL
    EventTypes = {"AUTHORIZED", "FAILED", "CAPTURED"}
    Amounts = {1}
    CustomerOf <- OneCustomer
    OrderOf <- Orders
    CurrencyOf <- OneCurrency
    Grace = 0
    Window = 1
    Start = 0
    MaxTime = 0
    MaxFaults = 0
PROPERTIES CapturedNotDowngraded
SYMMETRY Symmetry
CHECK_DEADLOCK FALSE
