SPECIFICATION Spec
CONSTANTS
    Users = {u1, u2}
    Workspaces = {1}
    Requests = {r1, r2}
    Invitations = {}
    PlatformAdmins = {u2}
    RolesOffered = {"OWNER", "STAFF"}
    MaxRotations = 0
    Strangers = {u1}
    Nobody = Nobody
    NoInvitation = NoInvitation
    NotCached = NotCached
    RedisReachable = FALSE
    MayCrash = TRUE
    Operations = {"create", "close", "add", "changeRole", "suspend", "reactivate", "remove", "transferOwnership", "delete", "erase", "deactivate", "activate"}
SYMMETRY RequestSymmetry
INVARIANTS
    OwnedWhileLive
PROPERTIES
    SeatsGoToUsableAccounts
CHECK_DEADLOCK FALSE
