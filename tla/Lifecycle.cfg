SPECIFICATION Spec
CONSTANTS
    Workers = {w1, w2}
    w1 = w1
    w2 = w2
    Payments = {p1}
    p1 = p1
    Cases = {c1, c2}
    c1 = c1
    c2 = c2
    Events = {e1, e2, e3}
    e1 = e1
    e2 = e2
    e3 = e3
    customer = customer
    order = order
    Unordered = {}
    NULL = NULL
    EventTypes = {"FAILED", "CAPTURED", "REFUNDED", "UNKNOWN"}
    Amounts = {1, 2}
    CustomerOf <- OneCustomer
    OrderOf <- Orders
    CurrencyOf <- OneCurrency
    Grace = 1
    Window = 0
    Start = 1
    MaxTime = 2
    MaxFaults = 0
INVARIANTS TypeOK OneOpenCasePerPayment CreditHasCaptures
PROPERTIES StrandedStaysPut CaptureReachesCase
SYMMETRY Symmetry
CHECK_DEADLOCK FALSE
