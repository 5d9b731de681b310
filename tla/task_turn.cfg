SPECIFICATION Spec
CONSTANTS
    w1 = w1  w2 = w2  t1 = t1  t2 = t2  jul = jul  aug = aug
    Workers <- MCWorker
    Tasks <- MCTasks
    Periods <- MCPeriods
    Texts <- MCTexts
    CommittedTurns = 2
    MaxVersion = 5
    MaxStarts = 1
INVARIANTS
    TypeOK
    WindowTellsHistory
    CorrectionsInvalidate
    ActiveEvidenceIsRequired
CHECK_DEADLOCK FALSE
