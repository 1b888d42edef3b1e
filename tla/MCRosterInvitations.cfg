SPECIFICATION Spec
CONSTANTS
    Users = {u1, u2}
    Workspaces = {1}
    Requests = {r1, r2}
    Invitations = {i1, i2}
    PlatformAdmins = {}
    RolesOffered = {"ADMIN"}
    MaxRotations = 1
    Strangers = {}
    Nobody = Nobody
    NoInvitation = NoInvitation
    NotCached = NotCached
    RedisReachable = FALSE
    MayCrash = TRUE
    Operations = {"create", "add", "suspend", "remove", "invite", "revoke", "resend", "accept"}
SYMMETRY InvitationSymmetry
PROPERTIES
    BoundLinkCannotReturn
    SettledInvitations
CHECK_DEADLOCK FALSE
