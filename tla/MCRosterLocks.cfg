SPECIFICATION Spec
CONSTANTS
    Users = {u1, u2}
    Workspaces = {1, 2}
    Requests = {r1, r2}
    Invitations = {}
    PlatformAdmins = {}
    RolesOffered = {"OWNER"}
    MaxRotations = 0
    Strangers = {}
    Nobody = Nobody
    NoInvitation = NoInvitation
    NotCached = NotCached
    RedisReachable = TRUE
    MayCrash = TRUE
    Operations = {"create", "add", "transferOwnership", "delete", "erase"}
SYMMETRY AllSymmetry
INVARIANTS
    OwnedWhileLive
    OrderedLocksNeverCycle
CHECK_DEADLOCK FALSE
