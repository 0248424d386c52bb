\* No faults, but money arrives between two concurrent requests with one key.
CONSTANTS
    alice = alice
    bob = bob
    e1 = e1
    k1 = k1
    k2 = k2
    k3 = k3
    r1 = r1
    r2 = r2
    r3 = r3
    r4 = r4
    Users = {alice, bob}
    Events = {e1}
    Keys = {k1, k2}
    Requests = {r1, r2}
    Stock <- MCStock
    Price <- MCPrice
    Opening <- MCPoor
    MaxBalance <- MCOneEach
    Attempts = 2
    KeysOf <- MCOwnKeys
    Careful = {}
    Spenders = {}
    Fragile = {}
SPECIFICATION Spec
SYMMETRY Symmetry
INVARIANTS
    NoChargeWithoutStock
CHECK_DEADLOCK FALSE
