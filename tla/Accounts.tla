----------------------------- MODULE Accounts -----------------------------
(***************************************************************************)
(* The contact channels of one account: its e-mail address, its phone number *)
(* and the one-time secrets that prove them or reset the password            *)
(* (UsersService, and the jobs of modules/users/jobs that call back into it).*)
(*                                                                          *)
(* No handler here holds a lock over its decision: each reads the row, does   *)
(* something slow (bcrypt, Redis, a mail provider) and then writes it in one   *)
(* statement or one transaction. So a request is a read step, which keeps what *)
(* the later steps use, a write step, and one step per message or job it      *)
(* sends after that. GiveUp ends a request anywhere: a call throws, the send   *)
(* limit refuses, or the process dies.                                       *)
(*                                                                          *)
(* Passwords with the notices about them, names and sessions are not in the  *)
(* state: Sessions has the endings these handlers cause. "history" variables *)
(* are read by properties only.                                             *)
(***************************************************************************)
EXTENDS Naturals

CONSTANTS
    Task,              \* HTTP requests and jobs running at the same time
    Email,             \* addresses people own
    FirstEmail,        \* the address the account signed up with
    Phone,             \* numbers people own
    Secret,            \* bound: the codes and reset tokens that can be minted
    NoValue,           \* null, or a field the form leaves out
    ErasedEmail,       \* deleted-<id>@deleted.invalid
    AccountOperations, \* which of AllAccountOperations clients call
    UpdateForms,       \* bodies of PATCH /users/:id
    InfoForms,         \* phoneNumber of PATCH /users/me, or NoValue
    MayRepeatAddress,  \* may PATCH /users/:id carry the address it already has?
    MaxTasks           \* bound: the requests and jobs that ever start

AllAccountOperations ==
    {"update", "updateEmail", "verifyEmail", "resendVerification", "updateInfo",
     "updatePhoneNumber", "requestPhoneVerification", "verifyPhone", "requestPasswordReset",
     "resetPassword", "delete", "gdprErase"}

(* The fields of UpdateUserDto that this model tells apart. *)
UpdateForm == [email : Email \union {NoValue},
               phoneNumber : Phone \union {NoValue},
               isActive : BOOLEAN \union {NoValue}]

ASSUME AccountsAssumption ==
    /\ FirstEmail \in Email
    /\ ErasedEmail \notin Email
    /\ NoValue \notin Email \union Phone \union Secret \union BOOLEAN
    /\ ErasedEmail # NoValue
    /\ AccountOperations \subseteq AllAccountOperations
    /\ UpdateForms \subseteq UpdateForm
    /\ InfoForms \subseteq Phone \union {NoValue}
    /\ MayRepeatAddress \in BOOLEAN
    /\ MaxTasks \in Nat

VARIABLES
    user,      \* the users row
    task,      \* each request: what it does, where it is, what it read
    jobs,      \* jobs in the queue
    mail,      \* messages delivered: links, codes and notices
    minted,    \* secrets that exist
    started,   \* how many requests and jobs have started
    (* history *)
    followed,  \* addresses whose verification link came back
    proven,    \* numbers whose code came back
    typed,     \* numbers a form put beside the date since it was stamped
    redeemed   \* secrets that reset a password or verified a number

accountVars ==
    <<user, task, jobs, mail, minted, started, followed, proven, typed, redeemed>>

(* The three otp_* columns: a PHONE_VERIFY hash covers the number too. *)
Otp == [purpose : {"PHONE_VERIFY"}, secret : Secret, number : Phone,
        expired : BOOLEAN]
       \union [purpose : {"PASSWORD_RESET"}, secret : Secret,
               number : {NoValue}, expired : BOOLEAN]

UserRow == [email : Email \union {ErasedEmail},
            emailVerifiedAt : BOOLEAN,
            phoneNumber : Phone \union {NoValue},
            phoneNumberVerifiedAt : BOOLEAN,
            otp : Otp \union {NoValue},
            isActive : BOOLEAN,
            deletedAt : BOOLEAN]

Link(e) == [kind |-> "link", to |-> e, secret |-> NoValue]
ResetLink(e, s) == [kind |-> "reset", to |-> e, secret |-> s]
Code(p, s) == [kind |-> "code", to |-> p, secret |-> s]
Notice(e) == [kind |-> "notice", to |-> e, secret |-> NoValue]

Message == {Link(e) : e \in Email} \union {Notice(e) : e \in Email}
           \union {ResetLink(e, s) : e \in Email, s \in Secret}
           \union {Code(p, s) : p \in Phone, s \in Secret}

VerificationJob == [name |-> "verification", to |-> NoValue]
ResetJob == [name |-> "reset", to |-> NoValue]
(* `to` is the previous address, read from the audit row the job names. *)
NoticeJob(e) == [name |-> "notice", to |-> e]

Job == {VerificationJob, ResetJob} \union {NoticeJob(e) : e \in Email}

(* What a request keeps between its steps: the form it was sent, the address *)
(* and the verified flag it read, the number and the secret it works with.  *)
IdleTask == [op |-> "none", at |-> "idle", form |-> NoValue, email |-> NoValue,
         verified |-> FALSE, number |-> NoValue, secret |-> NoValue]

JobOperations == {"deliverEmailVerification", "deliverPasswordReset"}

TaskState == [op : {"none"} \union AllAccountOperations \union JobOperations,
                 at : {"idle", "write", "notice", "verification", "send"},
                 form : UpdateForm \union Email \union {NoValue},
                 email : Email \union {ErasedEmail, NoValue},
                 verified : BOOLEAN,
                 number : Phone \union {NoValue},
                 secret : Secret \union {NoValue}]

AccountsInit ==
    /\ user = [email |-> FirstEmail, emailVerifiedAt |-> FALSE,
               phoneNumber |-> NoValue, phoneNumberVerifiedAt |-> FALSE,
               otp |-> NoValue, isActive |-> TRUE, deletedAt |-> FALSE]
    /\ task = [r \in Task |-> IdleTask]
    /\ jobs = {VerificationJob}
    /\ mail = {} /\ minted = {} /\ started = 0
    /\ followed = {} /\ proven = {} /\ typed = {} /\ redeemed = {}

-----------------------------------------------------------------------------
(* Reads *)

accountHistory == <<followed, proven, typed, redeemed>>

Start(r) ==
    /\ task[r].at = "idle"
    /\ started < MaxTasks
    /\ started' = started + 1

(* findByEmail and findByIdOrNull see live rows only. findById sees deleted  *)
(* ones too, but the caller of a /users/me route was let in as a live account.*)
FindUser(r, op) ==
    /\ Start(r)
    /\ op \in AccountOperations
    /\ ~user.deletedAt

Keep(r, state) == task' = [task EXCEPT ![r] = state]

(* PATCH /users/:id up to the write it chooses; deleted accounts included. *)
ReadUpdate(r) ==
    /\ Start(r)
    /\ "update" \in AccountOperations
    /\ \E form \in UpdateForms :
        /\ MayRepeatAddress \/ form.email # user.email
        /\ Keep(r, [IdleTask EXCEPT !.op = "update", !.at = "write", !.form = form,
                    !.email = user.email, !.verified = user.emailVerifiedAt])
    /\ UNCHANGED <<user, jobs, mail, minted, accountHistory>>

(* PATCH /users/me/email, after the password matched. *)
ReadUpdateEmail(r) ==
    /\ FindUser(r, "updateEmail")
    /\ \E e \in Email :
        Keep(r, [IdleTask EXCEPT !.op = "updateEmail", !.at = "write", !.form = e,
                 !.email = user.email, !.verified = user.emailVerifiedAt])
    /\ UNCHANGED <<user, jobs, mail, minted, accountHistory>>

(* GET /auth/verify-email: the token names the address it was mailed to. *)
ReadVerifyEmail(r) ==
    /\ FindUser(r, "verifyEmail")
    /\ \E e \in Email :
        /\ Link(e) \in mail
        /\ e = user.email
        /\ ~user.emailVerifiedAt
        /\ followed' = followed \union {e}
        /\ Keep(r, [IdleTask EXCEPT !.op = "verifyEmail", !.at = "write",
                    !.email = e])
    /\ UNCHANGED <<user, jobs, mail, minted, proven, typed, redeemed>>

ReadResendVerification(r) ==
    /\ FindUser(r, "resendVerification")
    /\ ~user.emailVerifiedAt
    /\ Keep(r, [IdleTask EXCEPT !.op = "resendVerification", !.at = "verification"])
    /\ UNCHANGED <<user, jobs, mail, minted, accountHistory>>

(* updateInfo and updatePhoneNumber look the account up and keep nothing. *)
ReadPhoneChange(r, op, numbers) ==
    /\ FindUser(r, op)
    /\ \E p \in numbers :
        Keep(r, [IdleTask EXCEPT !.op = op, !.at = "write", !.number = p])
    /\ UNCHANGED <<user, jobs, mail, minted, accountHistory>>

(* The password matched and the number's send budget was reserved. *)
ReadRequestPhoneVerification(r) ==
    ReadPhoneChange(r, "requestPhoneVerification", Phone)

(* mutant: the hash covers the code alone. *)
PhoneCodeMatches_CodeOnly(otp, s, p) == otp.secret = s

(* bcrypt.compare(`${otp}:${phoneNumber}`, otpHash) *)
PhoneCodeMatches(otp, s, p) == otp.secret = s /\ otp.number = p

ReadVerifyPhone(r) ==
    /\ FindUser(r, "verifyPhone")
    /\ user.otp # NoValue
    /\ user.otp.purpose = "PHONE_VERIFY"
    /\ ~user.otp.expired
    /\ \E s \in Secret, to \in Phone, p \in Phone :
        /\ Code(to, s) \in mail
        /\ PhoneCodeMatches(user.otp, s, p)
        /\ proven' = proven \union {to}
        /\ Keep(r, [IdleTask EXCEPT !.op = "verifyPhone", !.at = "write",
                    !.number = p, !.secret = s])
    /\ UNCHANGED <<user, jobs, mail, minted, followed, typed, redeemed>>

ReadRequestPasswordReset(r) ==
    /\ FindUser(r, "requestPasswordReset")
    /\ user.isActive
    /\ jobs' = jobs \union {ResetJob}
    /\ UNCHANGED <<user, task, mail, minted, accountHistory>>

(* POST /users/reset-password: the account is found by the address in the body. *)
ReadResetPassword(r) ==
    /\ FindUser(r, "resetPassword")
    /\ user.isActive
    /\ user.otp # NoValue
    /\ user.otp.purpose = "PASSWORD_RESET"
    /\ ~user.otp.expired
    /\ \E e \in Email, s \in Secret :
        /\ ResetLink(e, s) \in mail
        /\ user.otp.secret = s
        /\ Keep(r, [IdleTask EXCEPT !.op = "resetPassword", !.at = "write",
                    !.secret = s])
    /\ UNCHANGED <<user, jobs, mail, minted, accountHistory>>

ReadRemoval(r, op) ==
    /\ FindUser(r, op)
    /\ Keep(r, [IdleTask EXCEPT !.op = op, !.at = "write"])
    /\ UNCHANGED <<user, jobs, mail, minted, accountHistory>>

-----------------------------------------------------------------------------
(* Writes *)

Writing(r, op) == task[r].op = op /\ task[r].at = "write"

EndTask(r) == Keep(r, IdleTask)

OrElse(value, default) == IF value = NoValue THEN default ELSE value

(* update(): a field the form leaves out keeps its column, phoneNumber comes *)
(* with nothing else, and emailVerifiedAt is cleared by what the read found. *)
(* deactivate() writes the same columns, in the transaction of the Roster.   *)
UpdatedRow(q) ==
    [user EXCEPT !.email = OrElse(q.form.email, @),
                 !.emailVerifiedAt = @ /\ q.form.email \in {NoValue, q.email},
                 !.phoneNumber = OrElse(q.form.phoneNumber, @),
                 !.isActive = OrElse(q.form.isActive, @)]

(* A form's number is written over the column, and the date of verification *)
(* stays as it is. Recorded (history) if there is one.                       *)
WriteNumber(p) ==
    typed' = IF p # NoValue /\ user.phoneNumberVerifiedAt THEN typed \union {p} ELSE typed

Update(r) ==
    /\ Writing(r, "update")
    /\ user' = UpdatedRow(task[r])
    /\ WriteNumber(task[r].form.phoneNumber)
    /\ IF task[r].form.email \in {NoValue, task[r].email}
       THEN EndTask(r)
       ELSE Keep(r, [task[r] EXCEPT !.at = "notice"])
    /\ UNCHANGED <<jobs, mail, minted, started, followed, proven, redeemed>>

(* endAllSessions(userId, userId, { email, emailVerifiedAt: null }) *)
UpdateEmail(r) ==
    /\ Writing(r, "updateEmail")
    /\ user' = [user EXCEPT !.email = task[r].form, !.emailVerifiedAt = FALSE]
    /\ Keep(r, [task[r] EXCEPT !.at = IF task[r].form = task[r].email
                                     THEN "verification" ELSE "notice"])
    /\ UNCHANGED <<jobs, mail, minted, started, accountHistory>>

(* mutant: the update is conditional on the account, not on the address. *)
StillVerifies_AnyAddress(e) == ~user.emailVerifiedAt /\ ~user.deletedAt

(* The row the updateMany of verifyEmailByToken still matches. *)
StillVerifies(e) == user.email = e /\ ~user.emailVerifiedAt /\ ~user.deletedAt

VerifyEmail(r) ==
    /\ Writing(r, "verifyEmail")
    /\ user' = [user EXCEPT !.emailVerifiedAt = @ \/ StillVerifies(task[r].email)]
    /\ EndTask(r)
    /\ UNCHANGED <<jobs, mail, minted, started, accountHistory>>

(* Under the row lock, and only while the account is live. *)
UpdateInfo(r) ==
    /\ Writing(r, "updateInfo")
    /\ IF user.deletedAt
       THEN UNCHANGED <<user, typed>>
       ELSE /\ user' = [user EXCEPT !.phoneNumber = OrElse(task[r].number, @)]
            /\ WriteNumber(task[r].number)
    /\ EndTask(r)
    /\ UNCHANGED <<jobs, mail, minted, started, followed, proven, redeemed>>

UpdatePhoneNumber(r) ==
    /\ Writing(r, "updatePhoneNumber")
    /\ user' = [user EXCEPT !.phoneNumber = task[r].number,
                            !.phoneNumberVerifiedAt = FALSE]
    /\ typed' = {}
    /\ EndTask(r)
    /\ UNCHANGED <<jobs, mail, minted, started, followed, proven, redeemed>>

(* Storing a fresh secret; the message with it is the next step. *)
Mint(r, purpose) ==
    \E s \in Secret \ minted :
        /\ minted' = minted \union {s}
        /\ user' = [user EXCEPT !.otp = [purpose |-> purpose, secret |-> s,
                                         number |-> task[r].number,
                                         expired |-> FALSE]]
        /\ Keep(r, [task[r] EXCEPT !.at = "send", !.secret = s])

RequestPhoneVerification(r) ==
    /\ Writing(r, "requestPhoneVerification")
    /\ Mint(r, "PHONE_VERIFY")
    /\ UNCHANGED <<jobs, mail, started, accountHistory>>

VerifyPhone(r) ==
    /\ Writing(r, "verifyPhone")
    /\ user' = [user EXCEPT !.phoneNumber = task[r].number,
                            !.phoneNumberVerifiedAt = TRUE,
                            !.otp = NoValue]
    /\ redeemed' = redeemed \union {task[r].secret}
    /\ typed' = {}
    /\ EndTask(r)
    /\ UNCHANGED <<jobs, mail, minted, started, followed, proven>>

(* mutant: applyPasswordChange without extraData. *)
ResetPassword_KeepsLink(r) ==
    /\ Writing(r, "resetPassword")
    /\ redeemed' = redeemed \union {task[r].secret}
    /\ EndTask(r)
    /\ UNCHANGED <<user, jobs, mail, minted, started, followed, proven, typed>>

(* applyPasswordChange with the otp columns cleared in the same update. *)
ResetPassword(r) ==
    /\ Writing(r, "resetPassword")
    /\ user' = [user EXCEPT !.otp = NoValue]
    /\ redeemed' = redeemed \union {task[r].secret}
    /\ EndTask(r)
    /\ UNCHANGED <<jobs, mail, minted, started, followed, proven, typed>>

SoftDelete(r) ==
    /\ Writing(r, "delete")
    /\ user' = [user EXCEPT !.deletedAt = TRUE]
    /\ EndTask(r)
    /\ UNCHANGED <<jobs, mail, minted, started, accountHistory>>

(* phone_number_verified_at is not among the columns it overwrites. *)
GdprErase(r) ==
    /\ Writing(r, "gdprErase")
    /\ user' = [user EXCEPT !.email = ErasedEmail, !.emailVerifiedAt = FALSE,
                            !.phoneNumber = NoValue, !.otp = NoValue,
                            !.deletedAt = TRUE]
    /\ EndTask(r)
    /\ UNCHANGED <<jobs, mail, minted, started, accountHistory>>

-----------------------------------------------------------------------------
(* After the write, and the jobs *)

(* mutant: every previous address is told. *)
NoticesOf_Unverified(q) == {NoticeJob(q.email)}

(* recordEmailChange: only an address that was verified is told. *)
NoticesOf(q) == IF q.verified THEN {NoticeJob(q.email)} ELSE {}

RecordEmailChange(r) ==
    /\ task[r].at = "notice"
    /\ \E queued \in {NoticesOf(task[r]), {}} :   \* a failure is only logged
        jobs' = jobs \union queued
    /\ Keep(r, [task[r] EXCEPT !.at = "verification"])
    /\ UNCHANGED <<user, mail, minted, started, accountHistory>>

QueueEmailVerification(r) ==
    /\ task[r].at = "verification"
    /\ jobs' = jobs \union {VerificationJob}
    /\ EndTask(r)
    /\ UNCHANGED <<user, mail, minted, started, accountHistory>>

(* A job the queue hands out may be handed out again: it leaves the queue at *)
(* the end of a run, or stays for another.                                   *)
JobEnds(job) == jobs' \in {jobs, jobs \ {job}}

DeliverEmailVerification(r) ==
    /\ Start(r)
    /\ VerificationJob \in jobs
    /\ IF user.deletedAt \/ user.emailVerifiedAt
       THEN UNCHANGED task
       ELSE Keep(r, [IdleTask EXCEPT !.op = "deliverEmailVerification",
                     !.at = "send", !.email = user.email])
    /\ JobEnds(VerificationJob)
    /\ UNCHANGED <<user, mail, minted, accountHistory>>

DeliverPasswordReset(r) ==
    /\ Start(r)
    /\ ResetJob \in jobs
    /\ IF user.deletedAt \/ ~user.isActive
       THEN UNCHANGED task
       ELSE Keep(r, [IdleTask EXCEPT !.op = "deliverPasswordReset",
                     !.at = "write", !.email = user.email])
    /\ JobEnds(ResetJob)
    /\ UNCHANGED <<user, mail, minted, accountHistory>>

MintPasswordReset(r) ==
    /\ Writing(r, "deliverPasswordReset")
    /\ Mint(r, "PASSWORD_RESET")
    /\ UNCHANGED <<jobs, mail, started, accountHistory>>

(* The message goes where the read said, whatever the row says by now. *)
MessageOf(q) ==
    CASE q.op = "deliverEmailVerification" -> Link(q.email)
      [] q.op = "deliverPasswordReset" -> ResetLink(q.email, q.secret)
      [] q.op = "requestPhoneVerification" -> Code(q.number, q.secret)

Send(r) ==
    /\ task[r].at = "send"
    /\ mail' = mail \union {MessageOf(task[r])}
    /\ EndTask(r)
    /\ UNCHANGED <<user, jobs, minted, started, accountHistory>>

DeliverEmailChangedNotice(e) ==
    /\ NoticeJob(e) \in jobs
    /\ mail' = IF user.deletedAt THEN mail ELSE mail \union {Notice(e)}
    /\ JobEnds(NoticeJob(e))
    /\ UNCHANGED <<user, task, minted, started, accountHistory>>

GiveUp(r) ==
    /\ task[r].at # "idle"
    /\ EndTask(r)
    /\ UNCHANGED <<user, jobs, mail, minted, started, accountHistory>>

(* otp_expires_at passes. *)
ExpireOtp ==
    /\ user.otp # NoValue
    /\ ~user.otp.expired
    /\ user' = [user EXCEPT !.otp.expired = TRUE]
    /\ UNCHANGED <<task, jobs, mail, minted, started, accountHistory>>

ReadRow(r) ==
    \/ ReadUpdate(r)
    \/ ReadUpdateEmail(r)
    \/ ReadVerifyEmail(r)
    \/ ReadResendVerification(r)
    \/ ReadPhoneChange(r, "updateInfo", InfoForms)
    \/ ReadPhoneChange(r, "updatePhoneNumber", Phone)
    \/ ReadRequestPhoneVerification(r)
    \/ ReadVerifyPhone(r)
    \/ ReadRequestPasswordReset(r)
    \/ ReadResetPassword(r)
    \/ ReadRemoval(r, "delete")
    \/ ReadRemoval(r, "gdprErase")

WriteRow(r) ==
    \/ Update(r)
    \/ UpdateEmail(r)
    \/ VerifyEmail(r)
    \/ UpdateInfo(r)
    \/ UpdatePhoneNumber(r)
    \/ RequestPhoneVerification(r)
    \/ VerifyPhone(r)
    \/ ResetPassword(r)
    \/ SoftDelete(r)
    \/ GdprErase(r)
    \/ MintPasswordReset(r)

AccountsNext ==
    \/ \E r \in Task :
        \/ ReadRow(r)
        \/ WriteRow(r)
        \/ RecordEmailChange(r)
        \/ QueueEmailVerification(r)
        \/ DeliverEmailVerification(r)
        \/ DeliverPasswordReset(r)
        \/ Send(r)
        \/ GiveUp(r)
    \/ \E e \in Email : DeliverEmailChangedNotice(e)
    \/ ExpireOtp

AccountsSpec == AccountsInit /\ [][AccountsNext]_accountVars

-----------------------------------------------------------------------------
AccountsTypeOK ==
    /\ user \in UserRow
    /\ task \in [Task -> TaskState]
    /\ jobs \subseteq Job
    /\ mail \subseteq Message
    /\ minted \subseteq Secret
    /\ started \in 0 .. MaxTasks
    /\ followed \subseteq Email
    /\ proven \subseteq Phone
    /\ typed \subseteq Phone
    /\ redeemed \subseteq Secret

(* An address counts as verified only if a link mailed to that very address  *)
(* came back, however many changes of address ran between the mail, the      *)
(* lookup of verifyEmailByToken and its update.                              *)
EmailWasProven == user.emailVerifiedAt => user.email \in followed

NumberVerified == user.phoneNumberVerifiedAt /\ user.phoneNumber # NoValue

(* "stamped only when the OTP flow completes", "Plain phone updates clear the *)
(* verifiedAt" (schema.prisma): phoneNumberVerifiedAt stands beside a number   *)
(* only if a code texted to that number came back.                            *)
PhoneWasProven == NumberVerified => user.phoneNumber \in proven

(* What the code does of it: any other number beside phoneNumberVerifiedAt    *)
(* was put under the date by a form (updateInfo, update) since it was stamped. *)
(* The OTP flow itself stamps no number but the one texted, and a change of   *)
(* number clears the date, whatever codes, changes and forms overtake them.   *)
PhoneWasProvenOrTyped == NumberVerified => user.phoneNumber \in proven \union typed

(* The notice of a changed address only ever goes to an address that was     *)
(* verified: recordEmailChange runs after the row has lost that fact.        *)
NoticeOnlyToProven ==
    \A e \in Email : Notice(e) \in mail \/ NoticeJob(e) \in jobs => e \in followed

(* Once a code or reset link has been redeemed no later request can find it  *)
(* stored: two purposes share the columns, jobs mint again on redelivery and  *)
(* every write is unconditional.                                             *)
RedeemedIsGone == user.otp # NoValue => user.otp.secret \notin redeemed

=============================================================================
