SPECIFICATION FairSpec
CONSTANTS
    Plans <- MCPlans
    Retries = 1
    Strategies <- MCStrategies
    B4 = TRUE
    MaxTurns = 2
INVARIANTS
    TypeOK
    NoActionTwice
    AttemptsAreCharged
    ProductsAfterQuality
    AnswerIsEarned
    AnswerIsPaid
    ReadyIsShown
    DeadEndsAreKnown
PROPERTIES
    NothingRunsOverdrawn
    LoopEnds
CHECK_DEADLOCK FALSE
