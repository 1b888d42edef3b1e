\* The components share the values of their sets, which leaves TLC few symmetries to try.
SPECIFICATION MCSpec
CONSTANTS
    Users = {u1}
    Files = {x1, x2}
    Requests = {r1, r2}
    Cleaners = {c1}
    MaxUnattached = 1
    BatchSize = 2
    FailureLimit = 1
    MaxFailures = 1
    FailingCalls = {"put", "cleanup", "undo"}
    MayCrash = TRUE
    Operations = {"upload", "setPicture", "release", "erase", "delete"}
    Nobody = Nobody
    NoFile = NoFile
    Task = {r1, r2}
    Email = {a, b}
    FirstEmail = a
    Phone = {x1, x2}
    Secret = {s1, s2}
    NoValue = NoValue
    ErasedEmail = ErasedEmail
    AccountOperations = {"update", "updateEmail", "verifyEmail", "resendVerification",
                  "updateInfo", "updatePhoneNumber", "requestPhoneVerification",
                  "verifyPhone", "requestPasswordReset", "resetPassword",
                  "delete", "gdprErase"}
    UpdateForms <- MCUpdateForms
    InfoForms = {x1, x2}
    MaxTasks = 5
    MayRepeatAddress = FALSE
SYMMETRY Symmetry
INVARIANTS EmailWasProven PhoneWasProvenOrTyped NoticeOnlyToProven RedeemedIsGone
    PictureIsServable QuotaOvershootBounded
PROPERTIES ReleaseIsFinal
