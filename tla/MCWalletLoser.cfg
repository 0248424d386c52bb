\* No faults: two concurrent transfers with one key.
CONSTANTS
    Wallets = {1, 2}
    r1 = r1
    r2 = r2
    r3 = r3
    k1 = k1
    k2 = k2
    Requests = {r1, r2}
    Keys = {k1, k2}
    Amounts = {1, 2}
    MaxBalance = 3
    Opening <- MCOpening
    Fragile = {}
    Free = Free
    Founder = Founder
SPECIFICATION Spec
SYMMETRY Symmetry
PROPERTIES
    LoserGetsWinnersResult
CHECK_DEADLOCK FALSE
