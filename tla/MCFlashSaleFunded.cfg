\* No faults. alice can always pay and her client may send a key several times
\* at once; bob's money comes later and his client resends after the answer.
\* Two units, three requests.
CONSTANTS
    alice = alice
    bob = bob
    e1 = e1
    k1 = k1
    k2 = k2
    k3 = k3
    r1 = r1
    r2 = r2
    r3 = r3
    r4 = r4
    Users = {alice, bob}
    Events = {e1}
    Keys = {k1, k2, k3}
    Requests = {r1, r2, r3}
    Stock <- MCStockTwo
    Price <- MCPrice
    Opening <- MCFunded
    MaxBalance <- MCTwoForAlice
    Attempts = 2
    KeysOf <- MCAliceTwoKeys
    Careful = {k2}
    Spenders = {bob}
    Fragile = {}
SPECIFICATION FairSpec
INVARIANTS
    NoOversell
    StockSettled
PROPERTIES
    ImplementsShop
    EveryPurchaseAnswered
    ConfirmedIsNotified
CHECK_DEADLOCK FALSE
