SPECIFICATION MCSpec
CONSTANTS
    Request = {r1, r2}
    Token = {t1, t2, t3}
    Nobody = Nobody
    NoToken = NoToken
    TicksPerSecond = 2
    RefreshLifetime = 1
    MaxTime = 2
    Operations = {"login", "refresh", "logout", "logoutAll", "ownPassword", "ownEmail", "update", "delete"}
ACTION_CONSTRAINT WithinBudget
SYMMETRY SessionSymmetry
INVARIANTS RevokedFamilyStaysRevoked OneUnconsumedPerFamily
    EndedAccessTokensDie FreshAccessTokensLive OvertakenLoginRefused LiveRowsFollowCutoff
