\* Two orders, two processes, the five attempts of the code.
CONSTANTS
    j1 = j1
    j2 = j2
    w1 = w1
    w2 = w2
    Jobs = {j1, j2}
    Workers = {w1, w2}
    None = None
    Attempts = 5
    MaxStalls = 1
SPECIFICATION FairSpec
INVARIANTS
    TypeOK
    DoneMeansSent
    OneNoticePerRun
    PermanentMeansExhausted
PROPERTIES
    EveryJobSettles
CHECK_DEADLOCK FALSE
