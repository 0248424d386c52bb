\* One user and a second who registers later, three concurrent calls, two keys
\* that several of them may carry.
CONSTANTS
    Wallets = {1, 2}
    r1 = r1
    r2 = r2
    r3 = r3
    k1 = k1
    k2 = k2
    Requests = {r1, r2, r3}
    Keys = {k1, k2}
    Amounts = {1, 2}
    MaxBalance = 3
    Opening <- MCOpeningLate
    Fragile = {r1, r2, r3}
    Free = Free
    Founder = Founder
SPECIFICATION Spec
SYMMETRY Symmetry
INVARIANTS
    TypeOK
    NoOverdraft
    RunningBalance
    NoDoubleSpend
    AnswersBackedByLedger
    MoneyConserved
    NoLockCycle
PROPERTIES
    RefusalIsCurrent
    ImplementsBook
CHECK_DEADLOCK FALSE
