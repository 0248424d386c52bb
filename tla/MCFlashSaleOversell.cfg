\* No faults, but a key may be in flight twice while its user cannot pay.
CONSTANTS
    alice = alice
    bob = bob
    e1 = e1
    k1 = k1
    k2 = k2
    k3 = k3
    r1 = r1
    r2 = r2
    r3 = r3
    r4 = r4
    Users = {alice, bob}
    Events = {e1}
    Keys = {k1, k2, k3}
    Requests = {r1, r2, r3, r4}
    Stock <- MCStock
    Price <- MCPrice
    Opening <- MCPoorAlice
    MaxBalance <- MCTwoForBob
    Attempts = 2
    KeysOf <- MCBobTwoKeys
    Careful = {}
    Spenders = {}
    Fragile = {}
SPECIFICATION Spec
SYMMETRY Symmetry
INVARIANTS
    NoOversell
CHECK_DEADLOCK FALSE
