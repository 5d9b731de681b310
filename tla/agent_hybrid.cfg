SPECIFICATION Spec
CONSTANTS
    Plans <- MCHybridPlan
    Retries = 1
    Strategies <- MCStrategies
    B4 = TRUE
    MaxTurns = 2
INVARIANTS
    HybridOwnsItsSql
CHECK_DEADLOCK FALSE
