CONSTANTS
    Attempt = {a1, a2}
    Request = {r1, r2}
    MaxCredentials = 4
    NoAttempt = NoAttempt
    TicksPerSecond = 2
    CodeTtl = 1
    AccessTtl = 1
    RefreshTtl = 2
    MaxTime = 2
    Asker = {k1, k2}
    NotYet = NotYet
    FailureThreshold = 2
    OpenWindow = 2
    AskTimeout = 1
    MaxAsks = 5
    BotClockEnd = 9
    Jti = {t1, t2}
    Logout = {l1}
    NoJti = NoJti
    Unissued = Unissued
    AccessLifetime = 2
    AccessClockEnd = 6
    AppRelease = {v1, v2}
    Editor = {e1, e2}
    Forms <- MCForms
    MaxEdits = 4
    NoAppVersion = NoAppVersion
    Absent = Absent
    Patched = {1, 2}
    Viewer = {u1, u2}
    UrlLifetime = 12
    SigningTimeout = 3
    UrlClockEnd = 8
    Person = {p1, p2, p3}
    Administrator = {p3}
    Registration = {g1, g2}
    Nobody = Nobody
SPECIFICATION MCSpec
INVARIANTS OneRedeemable AccessEndsWithSessions RenewalNeverExtends
    BypassIsBounded LoggedOutStaysOut OneRowPerRelease
    CachedUrlsKeepHalf OwnerIsEntitled
PROPERTIES ImplementsBreaker
ACTION_CONSTRAINT WithinBudget
SYMMETRY Symmetry
CHECK_DEADLOCK FALSE
