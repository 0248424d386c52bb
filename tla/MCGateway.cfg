CONSTANTS
    ann = ann
    bob = bob
    r1 = r1
    r2 = r2
    r3 = r3
    Users = {ann}
    Requests = {r1, r2}
    Called = {"register", "refresh", "createEvent", "me", "health", "board"}
    Traced = {"me"}
    AccessTtl = 2
    DefaultLimit = 1
    MaxTime = 3
    Dates = {1, 2, NotADate}
    Outages <- MCOutages
    ClientId = ClientId
    NoId = NoId
    Unknown = Unknown
    NoUser = NoUser
    NotADate = NotADate
SPECIFICATION Spec
SYMMETRY Symmetry
INVARIANTS
    TypeOK
    TokensTellRoles
    IdsAgree
    HealthTellsOfOutages
    EventsHaveWindow
PROPERTIES
    RightsExpire
CHECK_DEADLOCK FALSE
