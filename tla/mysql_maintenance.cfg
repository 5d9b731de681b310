SPECIFICATION FairSpec
CONSTANTS
    w1 = w1  w2 = w2  t1 = t1  t2 = t2
    k1 = k1  k2 = k2  p1 = p1  p2 = p2
    Workers <- MCWorker
    Tasks <- MCTasks
    Tokens <- MCTokens2
    Payloads <- MCPayload
    NoTask = NoTask
    NoToken = NoToken
    NoPayload = NoPayload
    TTL = 1
    Retention = 1
    BatchLimit = 1
    MaxClock = 2
    MaxVersion = 1
PROPERTIES
    RetentionHonoured
    StuckClaimIsReclaimed
    ExpiredIsPurged
CHECK_DEADLOCK FALSE
