\* No faults, nothing evicted by them: two transfers that carry one key to
\* different recipients.
CONSTANTS
    Wallets = {1, 2, 3}
    r1 = r1
    r2 = r2
    r3 = r3
    k1 = k1
    k2 = k2
    Requests = {r1, r2}
    Keys = {k1}
    Amounts = {1}
    MaxBalance = 3
    Opening <- MCOpeningThree
    Fragile = {}
    Free = Free
    Founder = Founder
SPECIFICATION Spec
SYMMETRY Symmetry
INVARIANTS
    RecipientWasCredited
CHECK_DEADLOCK FALSE
