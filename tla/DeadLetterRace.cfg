SPECIFICATION Spec
CONSTANTS
    Events = {e1}
    e1 = e1
    Requests = {r1, r2}
    r1 = r1
    r2 = r2
    Workers = {w1, w2}
    w1 = w1
    w2 = w2
    MaxRetries = 0
    MaxQueue = 2
    MaxFaults = 1
    NULL = NULL
PROPERTIES ProcessedStays
