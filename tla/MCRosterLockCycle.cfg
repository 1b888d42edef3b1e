SPECIFICATION Spec
CONSTANTS
    Users = {u1, u2}
    Workspaces = {1}
    Requests = {r1, r2}
    Invitations = {i1}
    PlatformAdmins = {}
    RolesOffered = {"OWNER"}
    MaxRotations = 0
    Strangers = {}
    Nobody = Nobody
    NoInvitation = NoInvitation
    NotCached = NotCached
    RedisReachable = FALSE
    MayCrash = FALSE
    Operations = {"create", "invite", "delete", "accept"}
SYMMETRY RequestSymmetry
INVARIANTS
    NoLockCycle
CHECK_DEADLOCK FALSE
