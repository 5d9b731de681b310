SPECIFICATION Spec
CONSTANTS
    w1 = w1  w2 = w2  t1 = t1  t2 = t2  jul = jul  aug = aug
    Workers <- MCWorker
    Tasks <- MCTasks
    Periods <- MCPeriods
    Texts <- MCSwitchTexts
    CommittedTurns = 2
    MaxVersion = 3
    MaxStarts = 1
PROPERTIES
    SwitchStartsClean
CHECK_DEADLOCK FALSE
