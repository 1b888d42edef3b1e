CONSTANTS
    j1 = j1
    j2 = j2
    s1 = s1
    s2 = s2
    s3 = s3
    old = old
    new = new
    Job = {j1, j2}
    Worker = {w1, w2}
    Concurrency = 1
    NoJob = NoJob
    NoSlot = NoSlot
    Limit = 1
    MaxAttempts = 2
    MaxStalled = 1
    Budgets <- MCBudgets
    Scheduler = {s1, s2, s3}
    Release = {old, new}
    NoRelease = NoRelease
    Declared <- MCDeclared
    Installer = {i1, i2}
    MaxBoots = 4
    Caller = {c1, c2}
    MaxVersion = 3
    Users = {u1}
    Files = {f1, f2}
    Requests = {r1, r2}
    Cleaners = {k1}
    MaxUnattached = 1
    BatchSize = 2
    FailureLimit = 1
    MaxFailures = 1
    FailingCalls = {"cleanup"}
    MayCrash = FALSE
    Operations = {"upload", "release", "erase"}
    Nobody = Nobody
    NoFile = NoFile
SPECIFICATION MCSpec
INVARIANTS WithinLimit NoJobOnAClosedPool LoggedOutcomeIsReal
    RegistryIsAuthoritative NeverJobless
    OrphansHaveAnUpload
PROPERTIES JobsEnd ReleasedFilesGo
