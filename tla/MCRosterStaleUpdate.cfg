SPECIFICATION Spec
CONSTANTS
    Users = {u1, u2}
    Workspaces = {1}
    Requests = {r1, r2}
    Invitations = {}
    PlatformAdmins = {u2}
    RolesOffered = {"OWNER"}
    MaxRotations = 0
    Strangers = {}
    Nobody = Nobody
    NoInvitation = NoInvitation
    NotCached = NotCached
    RedisReachable = FALSE
    MayCrash = FALSE
    Operations = {"create", "add", "remove", "deactivate", "activate", "deactivateAgain"}
SYMMETRY RequestSymmetry
INVARIANTS
    OwnedWhileLive
CHECK_DEADLOCK FALSE
