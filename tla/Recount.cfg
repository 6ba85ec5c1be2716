SPECIFICATION Spec
CONSTANTS
    Workers = {w1}
    w1 = w1
    Payments = {p1, p2}
    p1 = p1
    p2 = p2
    Cases = {c1}
    c1 = c1
    Events = {e1, e2, e3}
    e1 = e1
    e2 = e2
    e3 = e3
    customer = customer
    order = order
    Unordered = {}
    NULL = NULL
    EventTypes = {"FAILED", "CAPTURED"}
    Amounts = {1, 2, 3}
    CustomerOf <- OneCustomer
    OrderOf <- Orders
    CurrencyOf <- OneCurrency
    Grace = 0
    Window = 1
    Start = 0
    MaxTime = 0
    MaxFaults = 0
PROPERTIES RecountAddsNothing
SYMMETRY Symmetry
CHECK_DEADLOCK FALSE
