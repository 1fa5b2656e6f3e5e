SPECIFICATION Spec
CONSTANTS
    e1 = e1
    w1 = w1
    w2 = w2
    d1 = d1
    d2 = d2
    t1 = t1
    t2 = t2
    Events = {e1}
    Webhooks = {w1, w2}
    Types = {t1, t2}
    Subscriptions <- MCSubscriptions
    TypeOf <- MCTypeOf
    Dispatchers = {d1, d2}
    EventBatch = 1
    Slots = 1
    Batch = 1
    MaxAttempts = 2
    DisableThreshold = 2
    MaxWebhooks = 1
    Redeliveries <- MCRedeliveries
    MaxEdits = 1
    MaxFaults = 1
INVARIANTS TypeOK OneSender AttemptsCounted NoneForgotten
PROPERTIES PromiseKept EventuallySettled
CHECK_DEADLOCK FALSE
