SPECIFICATION Spec
CONSTANTS
    w1 = w1  w2 = w2  t1 = t1  t2 = t2
    k1 = k1  k2 = k2  p1 = p1  p2 = p2
    Workers <- MCWorkers
    Tasks <- MCTasks
    Tokens <- MCTokens2
    Payloads <- MCPayloads
    NoTask = NoTask
    NoToken = NoToken
    NoPayload = NoPayload
    TTL = 2
    Retention = 1
    BatchLimit = 1
    MaxClock = 2
    MaxVersion = 3
SYMMETRY Symmetric
INVARIANTS
    ColumnsAgree
    LedgerIsLegal
    LedgerTellsRow
    HolderSawTheRow
PROPERTIES
    ClaimEndsByHolderOrExpiry
    LeaseNeverShortens
    ImplementsPort
CHECK_DEADLOCK FALSE
