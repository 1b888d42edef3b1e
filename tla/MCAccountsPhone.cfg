\* A number is verified, and a form brings another.
CONSTANTS
    Task = {h1}
    Email = {a}
    FirstEmail = a
    Phone = {p, q}
    Secret = {s1}
    NoValue = NoValue
    ErasedEmail = ErasedEmail
    AccountOperations = {"update", "updateInfo", "updatePhoneNumber", "requestPhoneVerification",
                  "verifyPhone"}
    UpdateForms <- MCUpdateForms
    InfoForms = {p, q}
    MaxTasks = 4
    MayRepeatAddress = FALSE
SPECIFICATION AccountsSpec
INVARIANT PhoneWasProven
CHECK_DEADLOCK FALSE
