\* No faults: two tabs of one client refresh with the same token.
CONSTANTS
    ann = ann
    bob = bob
    t1 = t1
    t2 = t2
    t3 = t3
    r1 = r1
    r2 = r2
    r3 = r3
    r4 = r4
    Users = {bob}
    Members = {bob}
    Tokens = {t1, t2, t3}
    Requests = {r1, r2, r3, r4}
    Nobody = Nobody
    Careful = {}
    Fragile = {}
    Lifetimes <- MCLifetime
SPECIFICATION Spec
SYMMETRY Symmetry
INVARIANTS
    TokenRotatedOnce
CHECK_DEADLOCK FALSE
