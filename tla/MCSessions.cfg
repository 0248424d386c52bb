\* ann registers and may send a token twice at once; bob is a member and his
\* client waits for each answer.  Four calls, any of which may be cut short.
CONSTANTS
    ann = ann
    bob = bob
    t1 = t1
    t2 = t2
    t3 = t3
    r1 = r1
    r2 = r2
    r3 = r3
    r4 = r4
    Users = {ann, bob}
    Members = {bob}
    Tokens = {t1, t2, t3}
    Requests = {r1, r2, r3, r4}
    Nobody = Nobody
    Careful = {bob}
    Fragile = {r1, r2, r3, r4}
    Lifetimes <- MCLifetimes
SPECIFICATION Spec
SYMMETRY Symmetry
INVARIANTS
    TypeOK
    RegisteredOnce
    RevokedTogether
    SingleUseNeverRevoked
    CarefulRotatedOnce
PROPERTIES
    LogoutIsFinal
CHECK_DEADLOCK FALSE
