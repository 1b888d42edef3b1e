CONSTANTS
    root = root
    bob = bob
    w1 = w1
    w2 = w2
    r1 = r1
    r2 = r2
    r3 = r3
    User = {root, bob}
    Workspace = {w1, w2}
    Request = {r1, r2}
    MaxRequests = 3
    FirstAdmin = root
    SeatRole <- MCSeatRole
    Assignable <- MCAssignable
    Nobody = Nobody
    NoRole = NoRole
    NoEntry = NoEntry
    NoWorkspace = NoWorkspace
    Calls <- AllCalls
    NoCall = NoCall
    Ttl = 1
    MaxTime = 3
    MaxEpoch = 1
SPECIFICATION MCSpec
INVARIANTS StaleGrantsAgeOut EpochIsFinal RosterNeedsSeat
PROPERTIES EscalationNeedsAdmin
ACTION_CONSTRAINT WithinBudget
SYMMETRY RequestSymmetry
CHECK_DEADLOCK FALSE
