SPECIFICATION FairSpec
CONSTANTS
    Events = {e1}
    e1 = e1
    Requests = {r1}
    r1 = r1
    Workers = {w1}
    w1 = w1
    MaxRetries = 1
    MaxQueue = 1
    MaxFaults = 1
    NULL = NULL
PROPERTIES RetrySettles
