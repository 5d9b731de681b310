SPECIFICATION StatusSpec
CONSTANTS
    w1 = w1  t1 = t1  t2 = t2  k1 = k1  k2 = k2  p1 = p1
    Workers <- MCWorkers
    Tasks <- MCTasks
    Tokens <- MCTokens
    Payloads <- MCPayloads
    NoTask = NoTask
    NoToken = NoToken
    NoPayload = NoPayload
    TTL = 1
    Retention = 1
    BatchLimit = 1
    MaxClock = 2
    MaxVersion = 1
PROPERTIES
    ReportedExpiredIsNotRevived
CHECK_DEADLOCK FALSE
