SPECIFICATION Spec
CONSTANTS
    Workers = {w1, w2}
    Tasks = {t1, t2}
    Tokens = {k1, k2, k3}
    NoToken = NoToken
    TTL = 2
    MaxClock = 4
    MaxVersion = 3
INVARIANTS
    OnlyTimeTakesClaims
PROPERTIES
    ImplementsLenientPort
CHECK_DEADLOCK FALSE
