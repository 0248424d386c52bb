\* Any client behaviour and any fault: two users who share two keys, three
\* requests that may overlap, one unit.
CONSTANTS
    alice = alice
    bob = bob
    e1 = e1
    k1 = k1
    k2 = k2
    k3 = k3
    r1 = r1
    r2 = r2
    r3 = r3
    r4 = r4
    Users = {alice, bob}
    Events = {e1}
    Keys = {k1, k2}
    Requests = {r1, r2, r3}
    Stock <- MCStock
    Price <- MCPrice
    Opening <- MCPoor
    MaxBalance <- MCOneEach
    Attempts = 2
    KeysOf <- MCSharedKeys
    Careful = {}
    Spenders = {alice, bob}
    Fragile = {r1, r2, r3}
SPECIFICATION Spec
SYMMETRY Symmetry
INVARIANTS
    TypeOK
    ConfirmedIsPaid
    OneJobPerOrder
    AnswersMatchOrders
    NoUnitInvented
CHECK_DEADLOCK FALSE
