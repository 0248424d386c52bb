\* One user and a second who registers later, two concurrent calls that may carry
\* one key, one of them fragile, and a reader; fairness for the service.
CONSTANTS
    Wallets = {1, 2}
    r1 = r1
    r2 = r2
    r3 = r3
    k1 = k1
    Requests = {r1, r2}
    Keys = {k1}
    Amounts = {1, 2}
    MaxBalance = 3
    Opening <- MCOpening
    Fragile = {r1}
    Free = Free
    Founder = Founder
    Watched = {1, 2}
    Limits <- MCLimits
SPECIFICATION ReadersSpec
INVARIANTS
    StatementAgrees
    AlarmMeansMovement
PROPERTIES
    EveryCallAnswered
CHECK_DEADLOCK FALSE
