SPECIFICATION FairSpec
CONSTANTS
    Events = {e1}
    e1 = e1
    Requests = {r1, r2}
    r1 = r1
    r2 = r2
    Workers = {w1, w2}
    w1 = w1
    w2 = w2
    MaxRetries = 1
    MaxQueue = 3
    MaxFaults = 3
    NULL = NULL
INVARIANTS TypeOK EffectsOnce
PROPERTIES RedeliverySettles FollowupsHandedOver
