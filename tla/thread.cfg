SPECIFICATION FairBench
CONSTANTS
    w1 = w1  r1 = r1  r2 = r2  th1 = th1  t1 = t1  t2 = t2  Nil = Nil
    Workers <- MCWorkers
    Requests <- MCRequests
    Threads <- MCThreads
    Tasks <- MCTasks
    MaxTaskVersion = 3
    TTL = 2
    MaxClock = 3
INVARIANTS
    OneRunPerBudget
    BenchTypeOK
    ThawedIsSettled
    TabNeverAhead
PROPERTIES
    EndedNeverReopens
    ClaimSettles
    FrozenThaws
CHECK_DEADLOCK FALSE
