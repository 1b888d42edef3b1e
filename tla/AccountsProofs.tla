--------------------------- MODULE AccountsProofs ---------------------------
(***************************************************************************)
(* Accounts.tla's safety properties for any addresses, numbers, secrets,   *)
(* forms, requests and bounds.                                             *)
(***************************************************************************)
EXTENDS Accounts, TLAPS

(* What a request has read is enough for the steps it still has to take. *)
RequestInv ==
    \A r \in Task :
        /\ task[r].op = "update" => task[r].form \in UpdateForms
        /\ task[r].op = "updateEmail" => task[r].form \in Email
        /\ task[r].op \in {"updatePhoneNumber", "requestPhoneVerification", "verifyPhone"} =>
               task[r].number \in Phone
        /\ task[r].op = "updateInfo" => task[r].number \in InfoForms
        /\ task[r].op \in JobOperations => task[r].number = NoValue /\ task[r].email \in Email
        /\ task[r].verified => task[r].email \in Email
        /\ task[r].op \in {"resetPassword", "verifyPhone"} => task[r].secret \in minted
        /\ task[r].at = "send" =>
               \/ task[r].op = "deliverEmailVerification"
               \/ /\ task[r].op \in {"deliverPasswordReset", "requestPhoneVerification"}
                  /\ task[r].secret \in minted

(* An erased address belongs to a deleted account and is not a verified one. *)
ErasedInv == user.email = ErasedEmail => user.deletedAt /\ ~user.emailVerifiedAt

(* What is stored was minted, and what was redeemed is stored no longer. *)
SecretInv ==
    /\ redeemed \subseteq minted
    /\ user.otp # NoValue => user.otp.secret \in minted /\ user.otp.secret \notin redeemed

(* Whatever speaks of a phone code -- the row, a request about to send it, a  *)
(* message -- says the same number of it.                                    *)
Says(s, n) ==
    \/ user.otp # NoValue /\ user.otp.purpose = "PHONE_VERIFY"
         /\ user.otp.secret = s /\ user.otp.number = n
    \/ \E r \in Task : task[r].at = "send" /\ task[r].op = "requestPhoneVerification"
         /\ task[r].secret = s /\ task[r].number = n
    \/ Code(n, s) \in mail

CodeInv ==
    \A s \in Secret : \A n, m \in Phone : Says(s, n) => s \in minted /\ (Says(s, m) => n = m)

IInv == AccountsTypeOK /\ RequestInv /\ ErasedInv /\ SecretInv /\ CodeInv

(* Administrators' forms as in the run: none repeats the address the account has. *)
NewAddresses == ~MayRepeatAddress

(* What is verified, or was when a request read it, came back. *)
AddressInv ==
    /\ user.emailVerifiedAt => user.email \in followed
    /\ \A r \in Task :
           /\ task[r].verified => task[r].email \in followed
           /\ task[r].op = "verifyEmail" => task[r].email \in followed
           /\ task[r].op = "update" => task[r].form.email # task[r].email
    /\ \A e \in Email : Notice(e) \in mail \/ NoticeJob(e) \in jobs => e \in followed

NumberInv ==
    /\ NumberVerified => user.phoneNumber \in proven \union typed
    /\ \A r \in Task : task[r].op = "verifyPhone" => task[r].number \in proven

-----------------------------------------------------------------------------
(* Types *)

(* What a step of a request keeps is a request. *)
LEMMA RequestWrites ==
    /\ \A op \in AllAccountOperations, form \in UpdateForm \union Email,
          e \in Email \union {ErasedEmail}, v \in BOOLEAN :
           [IdleTask EXCEPT !.op = op, !.at = "write", !.form = form, !.email = e,
                        !.verified = v] \in TaskState
    /\ \A op \in AllAccountOperations \union JobOperations, at \in {"write", "send", "verification"} :
           /\ [IdleTask EXCEPT !.op = op, !.at = at] \in TaskState
           /\ \A e \in Email : [IdleTask EXCEPT !.op = op, !.at = at, !.email = e] \in TaskState
           /\ \A p \in Phone \union {NoValue} :
                  /\ [IdleTask EXCEPT !.op = op, !.at = at, !.number = p] \in TaskState
                  /\ \A s \in Secret : [IdleTask EXCEPT !.op = op, !.at = at, !.number = p,
                                                    !.secret = s] \in TaskState
           /\ \A s \in Secret : [IdleTask EXCEPT !.op = op, !.at = at, !.secret = s] \in TaskState
    /\ IdleTask \in TaskState
<1>1. IdleTask \in TaskState
  BY DEF TaskState, IdleTask
<1>2. ASSUME NEW op \in AllAccountOperations, NEW form \in UpdateForm \union Email,
             NEW e \in Email \union {ErasedEmail}, NEW v \in BOOLEAN
      PROVE  [IdleTask EXCEPT !.op = op, !.at = "write", !.form = form, !.email = e,
                          !.verified = v] \in TaskState
  BY DEF TaskState, IdleTask
<1>3. ASSUME NEW op \in AllAccountOperations \union JobOperations,
             NEW at \in {"write", "send", "verification"}
      PROVE  /\ [IdleTask EXCEPT !.op = op, !.at = at] \in TaskState
             /\ \A e \in Email : [IdleTask EXCEPT !.op = op, !.at = at, !.email = e] \in TaskState
  BY DEF TaskState, IdleTask
<1>4. ASSUME NEW op \in AllAccountOperations \union JobOperations,
             NEW at \in {"write", "send", "verification"}
      PROVE  /\ \A p \in Phone \union {NoValue} :
                    [IdleTask EXCEPT !.op = op, !.at = at, !.number = p] \in TaskState
             /\ \A s \in Secret : [IdleTask EXCEPT !.op = op, !.at = at, !.secret = s] \in TaskState
  BY DEF TaskState, IdleTask
<1>5. ASSUME NEW op \in AllAccountOperations \union JobOperations,
             NEW at \in {"write", "send", "verification"},
             NEW p \in Phone \union {NoValue}, NEW s \in Secret
      PROVE  [IdleTask EXCEPT !.op = op, !.at = at, !.number = p, !.secret = s] \in TaskState
  BY DEF TaskState, IdleTask
<1> QED
  BY <1>1, <1>2, <1>3, <1>4, <1>5

LEMMA RequestMoves ==
    ASSUME NEW q \in TaskState, NEW at \in {"notice", "verification", "send"}
    PROVE  /\ [q EXCEPT !.at = at] \in TaskState
           /\ \A s \in Secret : [q EXCEPT !.at = at, !.secret = s] \in TaskState
BY DEF TaskState

(* What a statement writes to the users row is a users row. *)
LEMMA AddressWrites ==
    ASSUME NEW x \in UserRow
    PROVE  /\ \A e \in Email, p \in Phone \union {NoValue}, v \in BOOLEAN, b \in BOOLEAN :
                  [x EXCEPT !.email = e, !.emailVerifiedAt = v, !.phoneNumber = p,
                            !.isActive = b] \in UserRow
           /\ \A p \in Phone \union {NoValue}, v \in BOOLEAN, b \in BOOLEAN :
                  [x EXCEPT !.email = ErasedEmail, !.emailVerifiedAt = v, !.phoneNumber = p,
                            !.isActive = b] \in UserRow
           /\ \A e \in Email : [x EXCEPT !.email = e, !.emailVerifiedAt = FALSE] \in UserRow
           /\ \A v \in BOOLEAN : [x EXCEPT !.emailVerifiedAt = v] \in UserRow
           /\ [x EXCEPT !.deletedAt = TRUE] \in UserRow
           /\ [x EXCEPT !.email = ErasedEmail, !.emailVerifiedAt = FALSE, !.phoneNumber = NoValue,
                        !.otp = NoValue, !.deletedAt = TRUE] \in UserRow
BY DEF UserRow

LEMMA NumberWrites ==
    ASSUME NEW x \in UserRow
    PROVE  /\ \A p \in Phone \union {NoValue} :
                  /\ [x EXCEPT !.phoneNumber = p] \in UserRow
                  /\ [x EXCEPT !.phoneNumber = p, !.phoneNumberVerifiedAt = FALSE] \in UserRow
                  /\ [x EXCEPT !.phoneNumber = p, !.phoneNumberVerifiedAt = TRUE,
                               !.otp = NoValue] \in UserRow
           /\ \A o \in Otp \union {NoValue} : [x EXCEPT !.otp = o] \in UserRow
BY DEF UserRow

LEMMA ReadTypes ==
    ASSUME IInv, NEW r \in Task, ReadRow(r)
    PROVE  AccountsTypeOK'
<1> USE AccountsAssumption DEF IInv, AccountsTypeOK
<1>1. /\ user.email \in Email \union {ErasedEmail} /\ user.emailVerifiedAt \in BOOLEAN
      /\ user.otp \in Otp \union {NoValue}
  BY DEF UserRow
<1>2. ASSUME NEW q \in TaskState, Keep(r, q)
      PROVE  task' \in [Task -> TaskState]
  BY <1>2 DEF Keep
<1>3. ASSUME Start(r)
      PROVE  started' \in 0 .. MaxTasks
  BY <1>3 DEF Start
<1>4. CASE ReadUpdate(r) \/ ReadUpdateEmail(r)
  <2>1. task' \in [Task -> TaskState]
    <3>1. CASE ReadUpdate(r)
      BY <1>1, <1>2, <3>1, RequestWrites DEF ReadUpdate, AllAccountOperations
    <3>2. CASE ReadUpdateEmail(r)
      BY <1>1, <1>2, <3>2, RequestWrites DEF ReadUpdateEmail, AllAccountOperations
    <3> QED
      BY <1>4, <3>1, <3>2
  <2> QED
    BY <1>3, <1>4, <2>1 DEF ReadUpdate, ReadUpdateEmail, FindUser, accountHistory
<1>5. CASE ReadVerifyEmail(r)
  <2>1. PICK e \in Email : /\ followed' = followed \union {e}
                           /\ Keep(r, [IdleTask EXCEPT !.op = "verifyEmail", !.at = "write",
                                                   !.email = e])
    BY <1>5 DEF ReadVerifyEmail
  <2>2. task' \in [Task -> TaskState]
    BY <1>2, <2>1, RequestWrites DEF AllAccountOperations
  <2> QED
    BY <1>3, <1>5, <2>1, <2>2 DEF ReadVerifyEmail, FindUser
<1>6. CASE ReadResendVerification(r)
  <2>1. task' \in [Task -> TaskState]
    BY <1>2, <1>6, RequestWrites DEF ReadResendVerification, AllAccountOperations
  <2> QED
    BY <1>3, <1>6, <2>1 DEF ReadResendVerification, FindUser, accountHistory
<1>7. ASSUME NEW op \in AllAccountOperations, NEW numbers \in SUBSET (Phone \union {NoValue}),
             ReadPhoneChange(r, op, numbers)
      PROVE  AccountsTypeOK'
  <2>1. task' \in [Task -> TaskState]
    BY <1>2, <1>7, RequestWrites DEF ReadPhoneChange
  <2> QED
    BY <1>3, <1>7, <2>1 DEF ReadPhoneChange, FindUser, accountHistory
<1>8. CASE ReadVerifyPhone(r)
  <2>1. PICK s \in Secret, to \in Phone, p \in Phone :
          /\ proven' = proven \union {to}
          /\ Keep(r, [IdleTask EXCEPT !.op = "verifyPhone", !.at = "write", !.number = p,
                                  !.secret = s])
    BY <1>8 DEF ReadVerifyPhone
  <2>2. task' \in [Task -> TaskState]
    BY <1>2, <2>1, RequestWrites DEF AllAccountOperations
  <2> QED
    BY <1>3, <1>8, <2>1, <2>2 DEF ReadVerifyPhone, FindUser
<1>9. CASE ReadRequestPasswordReset(r)
  BY <1>3, <1>9 DEF ReadRequestPasswordReset, FindUser, accountHistory, Job
<1>10. CASE ReadResetPassword(r)
  <2>1. task' \in [Task -> TaskState]
    BY <1>2, <1>10, RequestWrites DEF ReadResetPassword, AllAccountOperations
  <2> QED
    BY <1>3, <1>10, <2>1 DEF ReadResetPassword, FindUser, accountHistory
<1>11. ASSUME NEW op \in AllAccountOperations, ReadRemoval(r, op)
      PROVE  AccountsTypeOK'
  <2>1. task' \in [Task -> TaskState]
    BY <1>2, <1>11, RequestWrites DEF ReadRemoval
  <2> QED
    BY <1>3, <1>11, <2>1 DEF ReadRemoval, FindUser, accountHistory
<1> QED
  BY <1>4, <1>5, <1>6, <1>7, <1>8, <1>9, <1>10, <1>11
     DEF ReadRow, ReadRequestPhoneVerification, AllAccountOperations

LEMMA MintTypes ==
    ASSUME IInv, NEW r \in Task, NEW purpose,
           \/ purpose = "PHONE_VERIFY" /\ task[r].number \in Phone
           \/ purpose = "PASSWORD_RESET" /\ task[r].number = NoValue,
           Mint(r, purpose)
    PROVE  /\ user' \in UserRow /\ minted' \subseteq Secret
           /\ task' \in [Task -> TaskState]
<1> USE DEF IInv, AccountsTypeOK
<1>1. PICK s \in Secret \ minted :
        /\ minted' = minted \union {s}
        /\ user' = [user EXCEPT !.otp = [purpose |-> purpose, secret |-> s,
                                         number |-> task[r].number, expired |-> FALSE]]
        /\ task' = [task EXCEPT ![r] = [task[r] EXCEPT !.at = "send", !.secret = s]]
  BY DEF Mint, Keep
<1>2. [purpose |-> purpose, secret |-> s, number |-> task[r].number, expired |-> FALSE] \in Otp
  BY DEF Otp
<1>3. user' \in UserRow
  BY <1>1, <1>2, NumberWrites
<1>4. task[r] \in TaskState
  OBVIOUS
<1>5. [task[r] EXCEPT !.at = "send", !.secret = s] \in TaskState
  BY <1>4, RequestMoves
<1> QED
  BY <1>1, <1>3, <1>5

LEMMA WriteTypes ==
    ASSUME IInv, NEW r \in Task, WriteRow(r)
    PROVE  AccountsTypeOK'
<1> USE DEF IInv, AccountsTypeOK
<1>1. /\ task[r] \in TaskState /\ IdleTask \in TaskState
      /\ \A at \in {"notice", "verification", "send"} : [task[r] EXCEPT !.at = at] \in TaskState
  BY RequestWrites, RequestMoves
<1>2. /\ user \in UserRow /\ user.email \in Email \union {ErasedEmail}
      /\ user.emailVerifiedAt \in BOOLEAN /\ user.isActive \in BOOLEAN
      /\ user.phoneNumber \in Phone \union {NoValue}
  BY DEF UserRow
<1>3. ASSUME NEW x \in TaskState, Keep(r, x)
      PROVE  task' \in [Task -> TaskState]
  BY <1>3 DEF Keep
<1>4. EndTask(r) => task' \in [Task -> TaskState]
  BY <1>1, <1>3 DEF EndTask
<1>5. CASE Update(r)
  <2>1. task[r].form \in UpdateForm
    BY <1>5, AccountsAssumption DEF RequestInv, Update, Writing
  <2> DEFINE q == task[r]
             v == user.emailVerifiedAt /\ q.form.email \in {NoValue, q.email}
  <2>2. /\ OrElse(q.form.email, user.email) \in Email \union {ErasedEmail}
        /\ OrElse(q.form.phoneNumber, user.phoneNumber) \in Phone \union {NoValue}
    BY <1>2, <2>1 DEF OrElse, UpdateForm
  <2>3. OrElse(q.form.isActive, user.isActive) \in BOOLEAN
    BY <1>2, <2>1 DEF OrElse, UpdateForm
  <2>4. v \in BOOLEAN
    BY <1>2
  <2>5. user' = [user EXCEPT !.email = OrElse(q.form.email, user.email),
                             !.emailVerifiedAt = v,
                             !.phoneNumber = OrElse(q.form.phoneNumber, user.phoneNumber),
                             !.isActive = OrElse(q.form.isActive, user.isActive)]
    BY <1>5 DEF Update, UpdatedRow
  <2> HIDE DEF v
  <2>6. user' \in UserRow
    BY <1>2, <2>2, <2>3, <2>4, <2>5, AddressWrites
  <2>7. task' \in [Task -> TaskState]
    BY <1>1, <1>3, <1>4, <1>5 DEF Update
  <2>8. typed' \subseteq Phone
    BY <1>5, <2>1 DEF Update, WriteNumber, UpdateForm
  <2> QED
    BY <1>5, <2>6, <2>7, <2>8 DEF Update
<1>6. CASE UpdateEmail(r)
  <2>1. task[r].form \in Email
    BY <1>6 DEF RequestInv, UpdateEmail, Writing
  <2>2. user' \in UserRow
    BY <1>2, <1>6, <2>1, AddressWrites DEF UpdateEmail
  <2>3. task' \in [Task -> TaskState]
    BY <1>1, <1>3, <1>6 DEF UpdateEmail
  <2> QED
    BY <1>6, <2>2, <2>3 DEF UpdateEmail, accountHistory
<1>7. CASE VerifyEmail(r)
  <2>1. (user.emailVerifiedAt \/ StillVerifies(task[r].email)) \in BOOLEAN
    BY <1>2
  <2>2. user' \in UserRow
    BY <1>2, <1>7, <2>1, AddressWrites DEF VerifyEmail
  <2> QED
    BY <1>4, <1>7, <2>2 DEF VerifyEmail, accountHistory
<1>8. CASE UpdateInfo(r)
  <2>1. OrElse(task[r].number, user.phoneNumber) \in Phone \union {NoValue}
    BY <1>1, <1>2 DEF OrElse, TaskState
  <2>2. user' \in UserRow
    BY <1>2, <1>8, <2>1, NumberWrites DEF UpdateInfo
  <2>3. typed' \subseteq Phone
    BY <1>1, <1>8 DEF UpdateInfo, WriteNumber, TaskState
  <2> QED
    BY <1>4, <1>8, <2>2, <2>3 DEF UpdateInfo
<1>9. CASE UpdatePhoneNumber(r) \/ VerifyPhone(r)
  <2>1. task[r].number \in Phone
    BY <1>9 DEF RequestInv, UpdatePhoneNumber, VerifyPhone, Writing
  <2>2. user' \in UserRow
    BY <1>2, <1>9, <2>1, NumberWrites DEF UpdatePhoneNumber, VerifyPhone
  <2>3. VerifyPhone(r) => task[r].secret \in Secret
    BY DEF RequestInv, VerifyPhone, Writing
  <2> QED
    BY <1>4, <1>9, <2>2, <2>3 DEF UpdatePhoneNumber, VerifyPhone, accountHistory
<1>10. CASE RequestPhoneVerification(r) \/ MintPasswordReset(r)
  <2>1. user' \in UserRow /\ minted' \subseteq Secret /\ task' \in [Task -> TaskState]
    <3>1. CASE RequestPhoneVerification(r)
      BY <3>1, MintTypes DEF RequestPhoneVerification, Writing, RequestInv
    <3>2. CASE MintPasswordReset(r)
      BY <3>2, MintTypes DEF MintPasswordReset, Writing, RequestInv, JobOperations
    <3> QED
      BY <1>10, <3>1, <3>2
  <2> QED
    BY <1>10, <2>1 DEF RequestPhoneVerification, MintPasswordReset, accountHistory
<1>11. CASE ResetPassword(r)
  <2>1. task[r].secret \in Secret
    BY <1>11 DEF RequestInv, ResetPassword, Writing
  <2>2. user' \in UserRow
    BY <1>2, <1>11, NumberWrites DEF ResetPassword
  <2> QED
    BY <1>4, <1>11, <2>1, <2>2 DEF ResetPassword
<1>12. CASE SoftDelete(r) \/ GdprErase(r)
  <2>1. user' \in UserRow
    BY <1>2, <1>12, AddressWrites DEF SoftDelete, GdprErase
  <2> QED
    BY <1>4, <1>12, <2>1 DEF SoftDelete, GdprErase, accountHistory
<1> QED
  BY <1>5, <1>6, <1>7, <1>8, <1>9, <1>10, <1>11, <1>12 DEF WriteRow

LEMMA LaterTypes ==
    ASSUME IInv,
           \/ \E r \in Task : \/ RecordEmailChange(r) \/ QueueEmailVerification(r)
                                 \/ DeliverEmailVerification(r) \/ DeliverPasswordReset(r)
                                 \/ Send(r) \/ GiveUp(r)
           \/ \E e \in Email : DeliverEmailChangedNotice(e)
           \/ ExpireOtp
    PROVE  AccountsTypeOK'
<1> USE AccountsAssumption DEF IInv, AccountsTypeOK
<1>1. ASSUME NEW r \in Task, NEW x \in TaskState, Keep(r, x)
      PROVE  task' \in [Task -> TaskState]
  BY <1>1 DEF Keep
<1>2. ASSUME NEW r \in Task, RecordEmailChange(r)
      PROVE  AccountsTypeOK'
  <2>1. NoticesOf(task[r]) \subseteq Job
    BY DEF NoticesOf, RequestInv, Job
  <2>2. [task[r] EXCEPT !.at = "verification"] \in TaskState
    BY RequestMoves
  <2> QED
    BY <1>1, <1>2, <2>1, <2>2 DEF RecordEmailChange, accountHistory
<1>3. ASSUME NEW r \in Task, QueueEmailVerification(r) \/ GiveUp(r)
      PROVE  AccountsTypeOK'
  <2>1. task' \in [Task -> TaskState]
    BY <1>1, <1>3, RequestWrites DEF QueueEmailVerification, GiveUp, EndTask
  <2> QED
    BY <1>3, <2>1 DEF QueueEmailVerification, GiveUp, Job, accountHistory
<1>4. ASSUME NEW r \in Task, DeliverEmailVerification(r) \/ DeliverPasswordReset(r)
      PROVE  AccountsTypeOK'
  <2>1. user.email \in Email \/ user.deletedAt
    BY DEF UserRow, ErasedInv
  <2>2. task' \in [Task -> TaskState]
    BY <1>1, <1>4, <2>1, RequestWrites
       DEF DeliverEmailVerification, DeliverPasswordReset, JobOperations
  <2>3. started' \in 0 .. MaxTasks
    BY <1>4 DEF DeliverEmailVerification, DeliverPasswordReset, Start
  <2> QED
    BY <1>4, <2>2, <2>3 DEF DeliverEmailVerification, DeliverPasswordReset, JobEnds, accountHistory
<1>5. ASSUME NEW r \in Task, Send(r)
      PROVE  AccountsTypeOK'
  <2>1. MessageOf(task[r]) \in Message
    <3>1. CASE task[r].op = "deliverEmailVerification"
      BY <3>1 DEF RequestInv, JobOperations, MessageOf, Message
    <3>2. CASE task[r].op = "deliverPasswordReset"
      BY <1>5, <3>2 DEF Send, RequestInv, JobOperations, MessageOf, Message
    <3>3. CASE task[r].op = "requestPhoneVerification"
      BY <1>5, <3>3 DEF Send, RequestInv, MessageOf, Message
    <3> QED
      BY <1>5, <3>1, <3>2, <3>3 DEF Send, RequestInv
  <2>2. task' \in [Task -> TaskState]
    BY <1>1, <1>5, RequestWrites DEF Send, EndTask
  <2> QED
    BY <1>5, <2>1, <2>2 DEF Send, accountHistory
<1>6. ASSUME NEW e \in Email, DeliverEmailChangedNotice(e)
      PROVE  AccountsTypeOK'
  BY <1>6 DEF DeliverEmailChangedNotice, JobEnds, Message, accountHistory
<1>7. CASE ExpireOtp
  <2>1. /\ user.otp \in Otp
        /\ user' = [user EXCEPT !.otp = [user.otp EXCEPT !.expired = TRUE]]
    BY <1>7 DEF ExpireOtp, UserRow
  <2>2. [user.otp EXCEPT !.expired = TRUE] \in Otp
    BY <2>1 DEF Otp
  <2>3. user' \in UserRow
    BY <2>1, <2>2, NumberWrites
  <2> QED
    BY <1>7, <2>3 DEF ExpireOtp, accountHistory
<1> QED
  BY <1>2, <1>3, <1>4, <1>5, <1>6, <1>7

(* The read of a mail job: a live account's address, or nothing to do. *)
LEMMA JobReads ==
    ASSUME IInv, NEW r \in Task, DeliverEmailVerification(r) \/ DeliverPasswordReset(r)
    PROVE  /\ UNCHANGED <<user, mail, minted, followed, proven, typed, redeemed>>
           /\ jobs' \subseteq jobs
           /\ \A s \in Task \ {r} : task'[s] = task[s]
           /\ \/ task'[r] = task[r]
              \/ /\ task'[r].op \in JobOperations /\ task'[r].at \in {"send", "write"}
                 /\ task'[r].at = "send" => task'[r].op = "deliverEmailVerification"
                 /\ task'[r].email \in Email /\ task'[r].number = NoValue /\ ~task'[r].verified
<1> USE DEF IInv, AccountsTypeOK
<1>1. /\ UNCHANGED <<user, mail, minted, followed, proven, typed, redeemed>>
      /\ jobs' \subseteq jobs
  BY DEF DeliverEmailVerification, DeliverPasswordReset, JobEnds, accountHistory
<1>2. user.email \in Email \/ user.deletedAt
  BY DEF UserRow, ErasedInv
<1>3. CASE task' = task
  BY <1>1, <1>3
<1>4. CASE Keep(r, [IdleTask EXCEPT !.op = "deliverEmailVerification", !.at = "send",
                                !.email = user.email]) /\ ~user.deletedAt
  BY <1>1, <1>2, <1>4 DEF Keep, IdleTask, JobOperations
<1>5. CASE Keep(r, [IdleTask EXCEPT !.op = "deliverPasswordReset", !.at = "write",
                                !.email = user.email]) /\ ~user.deletedAt
  BY <1>1, <1>2, <1>5 DEF Keep, IdleTask, JobOperations
<1> QED
  BY <1>3, <1>4, <1>5 DEF DeliverEmailVerification, DeliverPasswordReset

-----------------------------------------------------------------------------

(* Every step leaves the steps after it what they need. *)
LEMMA RequestKept ==
    ASSUME IInv, AccountsNext
    PROVE  RequestInv'
<1> USE AccountsAssumption DEF IInv, AccountsTypeOK, RequestInv
<1>1. ASSUME NEW r \in Task, ReadUpdate(r)
      PROVE  RequestInv'
  BY <1>1 DEF ReadUpdate, IdleTask, JobOperations, TaskState, UserRow,
     ErasedInv, SecretInv, Keep
<1>2. ASSUME NEW r \in Task, ReadUpdateEmail(r)
      PROVE  RequestInv'
  BY <1>2 DEF ReadUpdateEmail, FindUser, IdleTask, JobOperations, TaskState,
     UserRow, ErasedInv, SecretInv, Keep
<1>3. ASSUME NEW r \in Task, ReadVerifyEmail(r)
      PROVE  RequestInv'
  BY <1>3 DEF ReadVerifyEmail, FindUser, IdleTask, JobOperations, TaskState,
     UserRow, ErasedInv, SecretInv, Keep
<1>4. ASSUME NEW r \in Task, ReadResendVerification(r)
      PROVE  RequestInv'
  BY <1>4 DEF ReadResendVerification, FindUser, IdleTask, JobOperations,
     TaskState, UserRow, ErasedInv, SecretInv, Keep
<1>5. ASSUME NEW r \in Task, ReadPhoneChange(r, "updateInfo", InfoForms)
      PROVE  RequestInv'
  BY <1>5 DEF ReadPhoneChange, FindUser, IdleTask, JobOperations, TaskState,
     UserRow, ErasedInv, SecretInv, Keep
<1>6. ASSUME NEW r \in Task, ReadPhoneChange(r, "updatePhoneNumber", Phone)
      PROVE  RequestInv'
  BY <1>6 DEF ReadPhoneChange, IdleTask, JobOperations, TaskState, UserRow,
     ErasedInv, SecretInv, Keep
<1>7. ASSUME NEW r \in Task, ReadRequestPhoneVerification(r)
      PROVE  RequestInv'
  BY <1>7 DEF ReadRequestPhoneVerification, ReadPhoneChange, IdleTask,
     JobOperations, TaskState, UserRow, ErasedInv, SecretInv, Keep
<1>8. ASSUME NEW r \in Task, ReadVerifyPhone(r)
      PROVE  RequestInv'
  BY <1>8 DEF ReadVerifyPhone, PhoneCodeMatches, IdleTask, JobOperations,
     TaskState, UserRow, ErasedInv, SecretInv, Keep
<1>9. ASSUME NEW r \in Task, ReadResetPassword(r)
      PROVE  RequestInv'
  BY <1>9 DEF ReadResetPassword, IdleTask, JobOperations, TaskState, UserRow,
     ErasedInv, SecretInv, Keep
<1>10. ASSUME NEW r \in Task, ReadRemoval(r, "delete")
      PROVE  RequestInv'
  BY <1>10 DEF ReadRemoval, IdleTask, JobOperations, TaskState, UserRow,
     ErasedInv, SecretInv, Keep
<1>11. ASSUME NEW r \in Task, ReadRemoval(r, "gdprErase")
      PROVE  RequestInv'
  BY <1>11 DEF ReadRemoval, IdleTask, JobOperations, TaskState, UserRow,
     ErasedInv, SecretInv, Keep
<1>12. ASSUME NEW r \in Task, Update(r)
      PROVE  RequestInv'
  BY <1>12 DEF Update, Writing, UpdatedRow, OrElse, EndTask, UpdateForm, IdleTask,
     JobOperations, TaskState, UserRow, ErasedInv, SecretInv, Keep
<1>13. ASSUME NEW r \in Task, UpdateEmail(r)
      PROVE  RequestInv'
  BY <1>13 DEF UpdateEmail, Writing, IdleTask, JobOperations, TaskState,
     UserRow, ErasedInv, SecretInv, Keep
<1>14. ASSUME NEW r \in Task, VerifyEmail(r)
      PROVE  RequestInv'
  BY <1>14 DEF VerifyEmail, Writing, StillVerifies, EndTask, IdleTask, JobOperations,
     TaskState, UserRow, ErasedInv, SecretInv, Keep
<1>15. ASSUME NEW r \in Task, UpdateInfo(r)
      PROVE  RequestInv'
  BY <1>15 DEF UpdateInfo, Writing, OrElse, EndTask, IdleTask, JobOperations,
     TaskState, UserRow, ErasedInv, SecretInv, Keep
<1>16. ASSUME NEW r \in Task, UpdatePhoneNumber(r)
      PROVE  RequestInv'
  BY <1>16 DEF UpdatePhoneNumber, Writing, EndTask, IdleTask, JobOperations,
     TaskState, UserRow, ErasedInv, SecretInv, Keep
<1>17. ASSUME NEW r \in Task, RequestPhoneVerification(r)
      PROVE  RequestInv'
  BY <1>17 DEF RequestPhoneVerification, Writing, Mint, IdleTask, JobOperations,
     TaskState, UserRow, ErasedInv, SecretInv, Keep
<1>18. ASSUME NEW r \in Task, MintPasswordReset(r)
      PROVE  RequestInv'
  BY <1>18 DEF MintPasswordReset, Writing, Mint, IdleTask, JobOperations,
     TaskState, UserRow, ErasedInv, SecretInv, Keep
<1>19. ASSUME NEW r \in Task, VerifyPhone(r)
      PROVE  RequestInv'
  BY <1>19 DEF VerifyPhone, Writing, EndTask, IdleTask, JobOperations, TaskState,
     UserRow, ErasedInv, SecretInv, Keep
<1>20. ASSUME NEW r \in Task, ResetPassword(r)
      PROVE  RequestInv'
  BY <1>20 DEF ResetPassword, Writing, EndTask, IdleTask, JobOperations, TaskState,
     UserRow, ErasedInv, SecretInv, Keep
<1>21. ASSUME NEW r \in Task, SoftDelete(r)
      PROVE  RequestInv'
  BY <1>21 DEF SoftDelete, Writing, EndTask, IdleTask, JobOperations, TaskState,
     UserRow, ErasedInv, SecretInv, Keep
<1>22. ASSUME NEW r \in Task, GdprErase(r)
      PROVE  RequestInv'
  BY <1>22 DEF GdprErase, Writing, EndTask, IdleTask, JobOperations, TaskState,
     UserRow, ErasedInv, SecretInv, Keep
<1>23. ASSUME NEW r \in Task, RecordEmailChange(r)
      PROVE  RequestInv'
  BY <1>23 DEF RecordEmailChange, NoticesOf, IdleTask, JobOperations, TaskState,
     UserRow, ErasedInv, SecretInv, Keep
<1>24. ASSUME NEW r \in Task, QueueEmailVerification(r) \/ GiveUp(r)
      PROVE  RequestInv'
  BY <1>24 DEF QueueEmailVerification, GiveUp, EndTask, IdleTask, JobOperations,
     TaskState, UserRow, ErasedInv, SecretInv, Keep
<1>25. ASSUME NEW r \in Task, DeliverEmailVerification(r) \/
   DeliverPasswordReset(r)
      PROVE  RequestInv'
  BY <1>25, JobReads DEF JobOperations
<1>26. ASSUME NEW r \in Task, Send(r)
      PROVE  RequestInv'
  BY <1>26 DEF Send, MessageOf, EndTask, IdleTask, JobOperations, TaskState,
     UserRow, ErasedInv, SecretInv, Keep
<1>27. CASE UNCHANGED <<task, minted>>
  BY <1>27
<1> QED
  BY <1>1, <1>2, <1>3, <1>4, <1>5, <1>6, <1>7, <1>8, <1>9, <1>10, <1>11, <1>12,
     <1>13, <1>14, <1>15, <1>16, <1>17, <1>18, <1>19, <1>20, <1>21, <1>22,
     <1>23, <1>24, <1>25, <1>26, <1>27 DEF AccountsNext, ReadRow, WriteRow,
     ReadRequestPasswordReset, DeliverEmailChangedNotice, ExpireOtp, accountHistory

(* An erased address is never verified again. *)
LEMMA ErasedKept ==
    ASSUME IInv, AccountsNext
    PROVE  ErasedInv'
<1> USE AccountsAssumption DEF IInv, AccountsTypeOK, ErasedInv
<1>1. ASSUME NEW r \in Task, Update(r)
      PROVE  ErasedInv'
  BY <1>1 DEF Update, Writing, UpdatedRow, OrElse, EndTask, UpdateForm, UserRow,
     RequestInv, Keep
<1>2. ASSUME NEW r \in Task, UpdateEmail(r)
      PROVE  ErasedInv'
  BY <1>2 DEF UpdateEmail, Writing, UserRow, RequestInv, Keep
<1>3. ASSUME NEW r \in Task, VerifyEmail(r)
      PROVE  ErasedInv'
  BY <1>3 DEF VerifyEmail, Writing, StillVerifies, EndTask, UserRow, RequestInv,
     Keep
<1>4. ASSUME NEW r \in Task, UpdateInfo(r)
      PROVE  ErasedInv'
  BY <1>4 DEF UpdateInfo, Writing, OrElse, EndTask, UserRow, RequestInv, Keep
<1>5. ASSUME NEW r \in Task, UpdatePhoneNumber(r)
      PROVE  ErasedInv'
  BY <1>5 DEF UpdatePhoneNumber, Writing, EndTask, UserRow, RequestInv, Keep
<1>6. ASSUME NEW r \in Task, RequestPhoneVerification(r)
      PROVE  ErasedInv'
  BY <1>6 DEF RequestPhoneVerification, Writing, Mint, UserRow, RequestInv,
     Keep
<1>7. ASSUME NEW r \in Task, MintPasswordReset(r)
      PROVE  ErasedInv'
  BY <1>7 DEF MintPasswordReset, Writing, Mint, UserRow, RequestInv, Keep
<1>8. ASSUME NEW r \in Task, VerifyPhone(r)
      PROVE  ErasedInv'
  BY <1>8 DEF VerifyPhone, Writing, EndTask, UserRow, RequestInv, Keep
<1>9. ASSUME NEW r \in Task, ResetPassword(r)
      PROVE  ErasedInv'
  BY <1>9 DEF ResetPassword, Writing, EndTask, UserRow, RequestInv, Keep
<1>10. ASSUME NEW r \in Task, SoftDelete(r)
      PROVE  ErasedInv'
  BY <1>10 DEF SoftDelete, Writing, EndTask, UserRow, RequestInv, Keep
<1>11. ASSUME NEW r \in Task, GdprErase(r)
      PROVE  ErasedInv'
  BY <1>11 DEF GdprErase, Writing, EndTask, UserRow, RequestInv, Keep
<1>12. CASE ExpireOtp
  BY <1>12 DEF ExpireOtp, UserRow, RequestInv
<1>13. CASE UNCHANGED <<user>>
  BY <1>13
<1> QED
  BY <1>1, <1>2, <1>3, <1>4, <1>5, <1>6, <1>7, <1>8, <1>9, <1>10, <1>11, <1>12,
     <1>13 DEF AccountsNext, ReadRow, WriteRow, ReadUpdate, ReadUpdateEmail, ReadVerifyEmail,
     ReadResendVerification, ReadRequestPhoneVerification, ReadPhoneChange,
     ReadVerifyPhone, ReadRequestPasswordReset, ReadResetPassword, ReadRemoval,
     RecordEmailChange, QueueEmailVerification, GiveUp,
     DeliverEmailVerification, DeliverPasswordReset, Send,
     DeliverEmailChangedNotice, accountHistory

(* What is redeemed is cleared with the statement that redeems it, and what   *)
(* is minted next is something else.                                         *)
LEMMA SecretKept ==
    ASSUME IInv, AccountsNext
    PROVE  SecretInv'
<1> USE AccountsAssumption DEF IInv, AccountsTypeOK, SecretInv
<1>1. ASSUME NEW r \in Task, Update(r)
      PROVE  SecretInv'
  BY <1>1 DEF Update, Writing, UpdatedRow, OrElse, EndTask, UpdateForm, UserRow,
     Otp, accountHistory, RequestInv, Keep
<1>2. ASSUME NEW r \in Task, UpdateEmail(r)
      PROVE  SecretInv'
  BY <1>2 DEF UpdateEmail, Writing, UserRow, Otp, accountHistory, RequestInv, Keep
<1>3. ASSUME NEW r \in Task, VerifyEmail(r)
      PROVE  SecretInv'
  BY <1>3 DEF VerifyEmail, Writing, StillVerifies, EndTask, UserRow, Otp, accountHistory,
     RequestInv, Keep
<1>4. ASSUME NEW r \in Task, UpdateInfo(r)
      PROVE  SecretInv'
  BY <1>4 DEF UpdateInfo, Writing, OrElse, EndTask, UserRow, Otp, accountHistory,
     RequestInv, Keep
<1>5. ASSUME NEW r \in Task, UpdatePhoneNumber(r)
      PROVE  SecretInv'
  BY <1>5 DEF UpdatePhoneNumber, Writing, EndTask, UserRow, Otp, accountHistory,
     RequestInv, Keep
<1>6. ASSUME NEW r \in Task, RequestPhoneVerification(r)
      PROVE  SecretInv'
  BY <1>6 DEF RequestPhoneVerification, Writing, Mint, UserRow, Otp, accountHistory,
     RequestInv, Keep
<1>7. ASSUME NEW r \in Task, MintPasswordReset(r)
      PROVE  SecretInv'
  BY <1>7 DEF MintPasswordReset, Writing, Mint, UserRow, Otp, accountHistory,
     RequestInv, Keep
<1>8. ASSUME NEW r \in Task, VerifyPhone(r)
      PROVE  SecretInv'
  BY <1>8 DEF VerifyPhone, Writing, EndTask, UserRow, Otp, accountHistory, RequestInv,
     Keep
<1>9. ASSUME NEW r \in Task, ResetPassword(r)
      PROVE  SecretInv'
  BY <1>9 DEF ResetPassword, Writing, EndTask, UserRow, Otp, accountHistory, RequestInv,
     Keep
<1>10. ASSUME NEW r \in Task, SoftDelete(r)
      PROVE  SecretInv'
  BY <1>10 DEF SoftDelete, Writing, EndTask, UserRow, Otp, accountHistory, RequestInv,
     Keep
<1>11. ASSUME NEW r \in Task, GdprErase(r)
      PROVE  SecretInv'
  BY <1>11 DEF GdprErase, Writing, EndTask, UserRow, Otp, accountHistory, RequestInv,
     Keep
<1>12. CASE ExpireOtp
  BY <1>12 DEF ExpireOtp, UserRow, Otp, accountHistory, RequestInv
<1>13. CASE UNCHANGED <<user, minted, redeemed>>
  BY <1>13
<1> QED
  BY <1>1, <1>2, <1>3, <1>4, <1>5, <1>6, <1>7, <1>8, <1>9, <1>10, <1>11, <1>12,
     <1>13 DEF AccountsNext, ReadRow, WriteRow, ReadUpdate, ReadUpdateEmail, ReadVerifyEmail,
     ReadResendVerification, ReadRequestPhoneVerification, ReadPhoneChange,
     ReadVerifyPhone, ReadRequestPasswordReset, ReadResetPassword, ReadRemoval,
     RecordEmailChange, QueueEmailVerification, GiveUp,
     DeliverEmailVerification, DeliverPasswordReset, Send,
     DeliverEmailChangedNotice, accountHistory

(* A fresh code is texted to the number its hash covers. *)
LEMMA CodeKept ==
    ASSUME IInv, AccountsNext
    PROVE  CodeInv'
<1> USE AccountsAssumption DEF IInv, AccountsTypeOK, CodeInv
<1>1. ASSUME NEW r \in Task, ReadUpdate(r)
      PROVE  CodeInv'
  BY <1>1 DEF ReadUpdate, Says, IdleTask, Code, Link, ResetLink, UserRow, Otp,
     TaskState, RequestInv, SecretInv, Keep
<1>2. ASSUME NEW r \in Task, ReadUpdateEmail(r)
      PROVE  CodeInv'
  BY <1>2 DEF ReadUpdateEmail, FindUser, Says, IdleTask, UserRow, TaskState,
     RequestInv, SecretInv, Keep
<1>3. ASSUME NEW r \in Task, ReadVerifyEmail(r)
      PROVE  CodeInv'
  BY <1>3 DEF ReadVerifyEmail, FindUser, Says, IdleTask, UserRow, TaskState,
     RequestInv, SecretInv, Keep
<1>4. ASSUME NEW r \in Task, ReadResendVerification(r)
      PROVE  CodeInv'
  BY <1>4 DEF ReadResendVerification, FindUser, Says, IdleTask, UserRow,
     TaskState, RequestInv, SecretInv, Keep
<1>5. ASSUME NEW r \in Task, ReadPhoneChange(r, "updateInfo", InfoForms)
      PROVE  CodeInv'
  BY <1>5 DEF ReadPhoneChange, FindUser, Says, IdleTask, UserRow, TaskState,
     RequestInv, SecretInv, Keep
<1>6. ASSUME NEW r \in Task, ReadPhoneChange(r, "updatePhoneNumber", Phone)
      PROVE  CodeInv'
  BY <1>6 DEF ReadPhoneChange, Says, IdleTask, UserRow, TaskState, RequestInv,
     SecretInv, Keep
<1>7. ASSUME NEW r \in Task, ReadRequestPhoneVerification(r)
      PROVE  CodeInv'
  BY <1>7 DEF ReadRequestPhoneVerification, ReadPhoneChange, Says, IdleTask,
     UserRow, TaskState, RequestInv, SecretInv, Keep
<1>8. ASSUME NEW r \in Task, ReadVerifyPhone(r)
      PROVE  CodeInv'
  BY <1>8 DEF ReadVerifyPhone, PhoneCodeMatches, Says, IdleTask, Code, UserRow,
     TaskState, RequestInv, SecretInv, Keep
<1>9. ASSUME NEW r \in Task, ReadResetPassword(r)
      PROVE  CodeInv'
  BY <1>9 DEF ReadResetPassword, Says, IdleTask, UserRow, TaskState, RequestInv,
     SecretInv, Keep
<1>10. ASSUME NEW r \in Task, ReadRemoval(r, "delete")
      PROVE  CodeInv'
  BY <1>10 DEF ReadRemoval, Says, IdleTask, UserRow, TaskState, RequestInv,
     SecretInv, Keep
<1>11. ASSUME NEW r \in Task, ReadRemoval(r, "gdprErase")
      PROVE  CodeInv'
  BY <1>11 DEF ReadRemoval, Says, IdleTask, UserRow, TaskState, RequestInv,
     SecretInv, Keep
<1>12. ASSUME NEW r \in Task, Update(r)
      PROVE  CodeInv'
  BY <1>12 DEF Update, Writing, UpdatedRow, OrElse, EndTask, UpdateForm, Says,
     IdleTask, UserRow, Otp, TaskState, RequestInv, SecretInv, Keep
<1>13. ASSUME NEW r \in Task, UpdateEmail(r)
      PROVE  CodeInv'
  BY <1>13 DEF UpdateEmail, Writing, Says, IdleTask, UserRow, Otp, TaskState,
     RequestInv, SecretInv, Keep
<1>14. ASSUME NEW r \in Task, VerifyEmail(r)
      PROVE  CodeInv'
  BY <1>14 DEF VerifyEmail, Writing, StillVerifies, EndTask, Says, IdleTask, UserRow,
     Otp, TaskState, RequestInv, SecretInv, Keep
<1>15. ASSUME NEW r \in Task, UpdateInfo(r)
      PROVE  CodeInv'
  BY <1>15 DEF UpdateInfo, Writing, OrElse, EndTask, Says, IdleTask, UserRow, Otp,
     TaskState, RequestInv, SecretInv, Keep
<1>16. ASSUME NEW r \in Task, UpdatePhoneNumber(r)
      PROVE  CodeInv'
  BY <1>16 DEF UpdatePhoneNumber, Writing, EndTask, Says, IdleTask, UserRow, Otp,
     TaskState, RequestInv, SecretInv, Keep
<1>17. ASSUME NEW r \in Task, RequestPhoneVerification(r)
      PROVE  CodeInv'
  BY <1>17 DEF RequestPhoneVerification, Writing, Mint, Says, IdleTask, UserRow,
     Otp, TaskState, RequestInv, SecretInv, Keep
<1>18. ASSUME NEW r \in Task, MintPasswordReset(r)
      PROVE  CodeInv'
  BY <1>18 DEF MintPasswordReset, Writing, Mint, Says, IdleTask, UserRow, Otp,
     TaskState, RequestInv, SecretInv, Keep
<1>19. ASSUME NEW r \in Task, VerifyPhone(r)
      PROVE  CodeInv'
  BY <1>19 DEF VerifyPhone, Writing, EndTask, Says, IdleTask, UserRow, Otp,
     TaskState, RequestInv, SecretInv, Keep
<1>20. ASSUME NEW r \in Task, ResetPassword(r)
      PROVE  CodeInv'
  BY <1>20 DEF ResetPassword, Writing, EndTask, Says, IdleTask, UserRow, Otp,
     TaskState, RequestInv, SecretInv, Keep
<1>21. ASSUME NEW r \in Task, SoftDelete(r)
      PROVE  CodeInv'
  BY <1>21 DEF SoftDelete, Writing, EndTask, Says, IdleTask, UserRow, Otp,
     TaskState, RequestInv, SecretInv, Keep
<1>22. ASSUME NEW r \in Task, GdprErase(r)
      PROVE  CodeInv'
  BY <1>22 DEF GdprErase, Writing, EndTask, Says, IdleTask, UserRow, Otp,
     TaskState, RequestInv, SecretInv, Keep
<1>23. ASSUME NEW r \in Task, RecordEmailChange(r)
      PROVE  CodeInv'
  BY <1>23 DEF RecordEmailChange, NoticesOf, Says, IdleTask, UserRow, TaskState,
     RequestInv, SecretInv, Keep
<1>24. ASSUME NEW r \in Task, QueueEmailVerification(r) \/ GiveUp(r)
      PROVE  CodeInv'
  BY <1>24 DEF QueueEmailVerification, GiveUp, EndTask, Says, IdleTask, UserRow,
     TaskState, RequestInv, SecretInv, Keep
<1>25. ASSUME NEW r \in Task, DeliverEmailVerification(r) \/
   DeliverPasswordReset(r)
      PROVE  CodeInv'
  BY <1>25, JobReads DEF Says, JobOperations
<1>26. ASSUME NEW r \in Task, Send(r)
      PROVE  CodeInv'
  BY <1>26 DEF Send, MessageOf, EndTask, Says, IdleTask, Code, Link, ResetLink,
     UserRow, Otp, TaskState, RequestInv, SecretInv, Keep
<1>27. ASSUME NEW e \in Email, DeliverEmailChangedNotice(e)
      PROVE  CodeInv'
  BY <1>27 DEF DeliverEmailChangedNotice, JobEnds, Notice, Code, Says, IdleTask,
     Link, ResetLink, UserRow, TaskState, RequestInv, SecretInv
<1>28. CASE ExpireOtp
  BY <1>28 DEF ExpireOtp, Says, IdleTask, UserRow, Otp, TaskState, RequestInv,
     SecretInv
<1>29. CASE UNCHANGED <<user, task, mail, minted>>
  BY <1>29 DEF Says
<1> QED
  BY <1>1, <1>2, <1>3, <1>4, <1>5, <1>6, <1>7, <1>8, <1>9, <1>10, <1>11, <1>12,
     <1>13, <1>14, <1>15, <1>16, <1>17, <1>18, <1>19, <1>20, <1>21, <1>22,
     <1>23, <1>24, <1>25, <1>26, <1>27, <1>28, <1>29 DEF AccountsNext, ReadRow, WriteRow,
     ReadRequestPasswordReset, accountHistory

(* A link proves the address it was sent to; a change of address starts over. *)
LEMMA AddressKept ==
    ASSUME NewAddresses, AddressInv, IInv, AccountsNext
    PROVE  AddressInv'
<1> USE AccountsAssumption DEF IInv, AccountsTypeOK, AddressInv
<1>1. ASSUME NEW r \in Task, ReadUpdate(r)
      PROVE  AddressInv'
  BY <1>1 DEF ReadUpdate, IdleTask, UserRow, TaskState, accountHistory, RequestInv,
     ErasedInv, Keep, NewAddresses
<1>2. ASSUME NEW r \in Task, ReadUpdateEmail(r)
      PROVE  AddressInv'
  BY <1>2 DEF ReadUpdateEmail, FindUser, IdleTask, UserRow, TaskState, accountHistory,
     RequestInv, ErasedInv, Keep, NewAddresses
<1>3. ASSUME NEW r \in Task, ReadVerifyEmail(r)
      PROVE  AddressInv'
  BY <1>3 DEF ReadVerifyEmail, FindUser, IdleTask, UserRow, TaskState, accountHistory,
     RequestInv, ErasedInv, Keep, NewAddresses
<1>4. ASSUME NEW r \in Task, ReadResendVerification(r)
      PROVE  AddressInv'
  BY <1>4 DEF ReadResendVerification, FindUser, IdleTask, UserRow, TaskState,
     accountHistory, RequestInv, ErasedInv, Keep, NewAddresses
<1>5. ASSUME NEW r \in Task, ReadPhoneChange(r, "updateInfo", InfoForms)
      PROVE  AddressInv'
  BY <1>5 DEF ReadPhoneChange, FindUser, IdleTask, UserRow, TaskState, accountHistory,
     RequestInv, ErasedInv, Keep, NewAddresses
<1>6. ASSUME NEW r \in Task, ReadPhoneChange(r, "updatePhoneNumber", Phone)
      PROVE  AddressInv'
  BY <1>6 DEF ReadPhoneChange, IdleTask, UserRow, TaskState, accountHistory,
     RequestInv, ErasedInv, Keep, NewAddresses
<1>7. ASSUME NEW r \in Task, ReadRequestPhoneVerification(r)
      PROVE  AddressInv'
  BY <1>7 DEF ReadRequestPhoneVerification, ReadPhoneChange, IdleTask, UserRow,
     TaskState, accountHistory, RequestInv, ErasedInv, Keep, NewAddresses
<1>8. ASSUME NEW r \in Task, ReadVerifyPhone(r)
      PROVE  AddressInv'
  BY <1>8 DEF ReadVerifyPhone, PhoneCodeMatches, IdleTask, UserRow, TaskState,
     Code, accountHistory, RequestInv, ErasedInv, Keep, NewAddresses
<1>9. ASSUME NEW r \in Task, ReadRequestPasswordReset(r)
      PROVE  AddressInv'
  BY <1>9 DEF ReadRequestPasswordReset, FindUser, ResetJob, IdleTask, UserRow,
     TaskState, Notice, NoticeJob, VerificationJob, accountHistory, RequestInv,
     ErasedInv, NewAddresses
<1>10. ASSUME NEW r \in Task, ReadResetPassword(r)
      PROVE  AddressInv'
  BY <1>10 DEF ReadResetPassword, IdleTask, UserRow, TaskState, accountHistory,
     RequestInv, ErasedInv, Keep, NewAddresses
<1>11. ASSUME NEW r \in Task, ReadRemoval(r, "delete")
      PROVE  AddressInv'
  BY <1>11 DEF ReadRemoval, IdleTask, UserRow, TaskState, accountHistory, RequestInv,
     ErasedInv, Keep, NewAddresses
<1>12. ASSUME NEW r \in Task, ReadRemoval(r, "gdprErase")
      PROVE  AddressInv'
  BY <1>12 DEF ReadRemoval, IdleTask, UserRow, TaskState, accountHistory, RequestInv,
     ErasedInv, Keep, NewAddresses
<1>13. ASSUME NEW r \in Task, Update(r)
      PROVE  AddressInv'
  BY <1>13 DEF Update, Writing, UpdatedRow, OrElse, EndTask, UpdateForm, IdleTask,
     UserRow, TaskState, accountHistory, RequestInv, ErasedInv, Keep, NewAddresses
<1>14. ASSUME NEW r \in Task, UpdateEmail(r)
      PROVE  AddressInv'
  BY <1>14 DEF UpdateEmail, Writing, IdleTask, UserRow, TaskState, accountHistory,
     RequestInv, ErasedInv, Keep, NewAddresses
<1>15. ASSUME NEW r \in Task, VerifyEmail(r)
      PROVE  AddressInv'
  BY <1>15 DEF VerifyEmail, Writing, StillVerifies, EndTask, IdleTask, UserRow,
     TaskState, accountHistory, RequestInv, ErasedInv, Keep, NewAddresses
<1>16. ASSUME NEW r \in Task, UpdateInfo(r)
      PROVE  AddressInv'
  BY <1>16 DEF UpdateInfo, Writing, OrElse, EndTask, IdleTask, UserRow, TaskState,
     accountHistory, RequestInv, ErasedInv, Keep, NewAddresses
<1>17. ASSUME NEW r \in Task, UpdatePhoneNumber(r)
      PROVE  AddressInv'
  BY <1>17 DEF UpdatePhoneNumber, Writing, EndTask, IdleTask, UserRow, TaskState,
     accountHistory, RequestInv, ErasedInv, Keep, NewAddresses
<1>18. ASSUME NEW r \in Task, RequestPhoneVerification(r)
      PROVE  AddressInv'
  BY <1>18 DEF RequestPhoneVerification, Writing, Mint, IdleTask, UserRow,
     TaskState, accountHistory, RequestInv, ErasedInv, Keep, NewAddresses
<1>19. ASSUME NEW r \in Task, MintPasswordReset(r)
      PROVE  AddressInv'
  BY <1>19 DEF MintPasswordReset, Writing, Mint, IdleTask, UserRow, TaskState,
     accountHistory, RequestInv, ErasedInv, Keep, NewAddresses
<1>20. ASSUME NEW r \in Task, VerifyPhone(r)
      PROVE  AddressInv'
  BY <1>20 DEF VerifyPhone, Writing, EndTask, IdleTask, UserRow, TaskState,
     accountHistory, RequestInv, ErasedInv, Keep, NewAddresses
<1>21. ASSUME NEW r \in Task, ResetPassword(r)
      PROVE  AddressInv'
  BY <1>21 DEF ResetPassword, Writing, EndTask, IdleTask, UserRow, TaskState,
     accountHistory, RequestInv, ErasedInv, Keep, NewAddresses
<1>22. ASSUME NEW r \in Task, SoftDelete(r)
      PROVE  AddressInv'
  BY <1>22 DEF SoftDelete, Writing, EndTask, IdleTask, UserRow, TaskState,
     accountHistory, RequestInv, ErasedInv, Keep, NewAddresses
<1>23. ASSUME NEW r \in Task, GdprErase(r)
      PROVE  AddressInv'
  BY <1>23 DEF GdprErase, Writing, EndTask, IdleTask, UserRow, TaskState, accountHistory,
     RequestInv, ErasedInv, Keep, NewAddresses
<1>24. ASSUME NEW r \in Task, RecordEmailChange(r)
      PROVE  AddressInv'
  BY <1>24 DEF RecordEmailChange, NoticesOf, IdleTask, UserRow, TaskState,
     Notice, NoticeJob, VerificationJob, ResetJob, accountHistory, RequestInv,
     ErasedInv, Keep, NewAddresses
<1>25. ASSUME NEW r \in Task, QueueEmailVerification(r) \/ GiveUp(r)
      PROVE  AddressInv'
  BY <1>25 DEF QueueEmailVerification, GiveUp, EndTask, IdleTask, UserRow,
     TaskState, Notice, NoticeJob, VerificationJob, ResetJob, accountHistory,
     RequestInv, ErasedInv, Keep, NewAddresses
<1>26. ASSUME NEW r \in Task, DeliverEmailVerification(r) \/
   DeliverPasswordReset(r)
      PROVE  AddressInv'
  BY <1>26, JobReads DEF JobOperations
<1>27. ASSUME NEW r \in Task, Send(r)
      PROVE  AddressInv'
  BY <1>27 DEF Send, MessageOf, EndTask, IdleTask, UserRow, TaskState, Notice,
     Link, Code, ResetLink, NoticeJob, VerificationJob, ResetJob, accountHistory,
     RequestInv, ErasedInv, Keep, NewAddresses
<1>28. ASSUME NEW e \in Email, DeliverEmailChangedNotice(e)
      PROVE  AddressInv'
  BY <1>28 DEF DeliverEmailChangedNotice, JobEnds, Notice, Code, IdleTask, UserRow,
     TaskState, Link, ResetLink, NoticeJob, VerificationJob, ResetJob,
     accountHistory, RequestInv, ErasedInv, NewAddresses
<1>29. CASE ExpireOtp
  BY <1>29 DEF ExpireOtp, IdleTask, UserRow, TaskState, accountHistory, RequestInv,
     ErasedInv, NewAddresses
<1> QED
  BY <1>1, <1>2, <1>3, <1>4, <1>5, <1>6, <1>7, <1>8, <1>9, <1>10, <1>11, <1>12,
     <1>13, <1>14, <1>15, <1>16, <1>17, <1>18, <1>19, <1>20, <1>21, <1>22,
     <1>23, <1>24, <1>25, <1>26, <1>27, <1>28, <1>29 DEF AccountsNext, ReadRow, WriteRow

(* A code proves the number its hash covers; a change of number starts over.   *)
LEMMA NumberKept ==
    ASSUME NumberInv, IInv, AccountsNext
    PROVE  NumberInv'
<1> USE AccountsAssumption DEF IInv, AccountsTypeOK, NumberInv, NumberVerified
<1>1. ASSUME NEW r \in Task, ReadUpdate(r)
      PROVE  NumberInv'
  BY <1>1 DEF ReadUpdate, IdleTask, UserRow, TaskState, accountHistory, RequestInv,
     Keep
<1>2. ASSUME NEW r \in Task, ReadUpdateEmail(r)
      PROVE  NumberInv'
  BY <1>2 DEF ReadUpdateEmail, FindUser, IdleTask, UserRow, TaskState, accountHistory,
     RequestInv, Keep
<1>3. ASSUME NEW r \in Task, ReadVerifyEmail(r)
      PROVE  NumberInv'
  BY <1>3 DEF ReadVerifyEmail, FindUser, IdleTask, UserRow, TaskState, accountHistory,
     RequestInv, Keep
<1>4. ASSUME NEW r \in Task, ReadResendVerification(r)
      PROVE  NumberInv'
  BY <1>4 DEF ReadResendVerification, FindUser, IdleTask, UserRow, TaskState,
     accountHistory, RequestInv, Keep
<1>5. ASSUME NEW r \in Task, ReadPhoneChange(r, "updateInfo", InfoForms)
      PROVE  NumberInv'
  BY <1>5 DEF ReadPhoneChange, FindUser, IdleTask, UserRow, TaskState, accountHistory,
     RequestInv, Keep
<1>6. ASSUME NEW r \in Task, ReadPhoneChange(r, "updatePhoneNumber", Phone)
      PROVE  NumberInv'
  BY <1>6 DEF ReadPhoneChange, IdleTask, UserRow, TaskState, accountHistory,
     RequestInv, Keep
<1>7. ASSUME NEW r \in Task, ReadRequestPhoneVerification(r)
      PROVE  NumberInv'
  BY <1>7 DEF ReadRequestPhoneVerification, ReadPhoneChange, IdleTask, UserRow,
     TaskState, accountHistory, RequestInv, Keep
<1>8. ASSUME NEW r \in Task, ReadVerifyPhone(r)
      PROVE  NumberInv'
  <2>1. PICK s \in Secret, to \in Phone, p \in Phone :
          /\ Code(to, s) \in mail /\ user.otp # NoValue /\ user.otp.purpose = "PHONE_VERIFY"
          /\ user.otp.secret = s /\ user.otp.number = p
          /\ proven' = proven \union {to} /\ UNCHANGED <<user, typed>>
          /\ task' = [task EXCEPT ![r] = [IdleTask EXCEPT !.op = "verifyPhone", !.at = "write",
                                                   !.number = p, !.secret = s]]
    BY <1>8 DEF ReadVerifyPhone, PhoneCodeMatches, Keep
  <2>2. p = to
    BY <2>1 DEF CodeInv, Says
  <2>3. task'[r].number = p /\ \A q \in Task \ {r} : task'[q] = task[q]
    BY <2>1 DEF IdleTask
  <2> QED
    BY <2>1, <2>2, <2>3
<1>9. ASSUME NEW r \in Task, ReadResetPassword(r)
      PROVE  NumberInv'
  BY <1>9 DEF ReadResetPassword, IdleTask, UserRow, TaskState, accountHistory,
     RequestInv, Keep
<1>10. ASSUME NEW r \in Task, ReadRemoval(r, "delete")
      PROVE  NumberInv'
  BY <1>10 DEF ReadRemoval, IdleTask, UserRow, TaskState, accountHistory, RequestInv,
     Keep
<1>11. ASSUME NEW r \in Task, ReadRemoval(r, "gdprErase")
      PROVE  NumberInv'
  BY <1>11 DEF ReadRemoval, IdleTask, UserRow, TaskState, accountHistory, RequestInv,
     Keep
<1>12. ASSUME NEW r \in Task, Update(r)
      PROVE  NumberInv'
  BY <1>12 DEF Update, Writing, UpdatedRow, WriteNumber, OrElse, EndTask, UpdateForm, IdleTask,
     UserRow, TaskState, accountHistory, RequestInv, Keep
<1>13. ASSUME NEW r \in Task, UpdateEmail(r)
      PROVE  NumberInv'
  BY <1>13 DEF UpdateEmail, Writing, IdleTask, UserRow, TaskState, accountHistory,
     RequestInv, Keep
<1>14. ASSUME NEW r \in Task, VerifyEmail(r)
      PROVE  NumberInv'
  BY <1>14 DEF VerifyEmail, Writing, StillVerifies, EndTask, IdleTask, UserRow,
     TaskState, accountHistory, RequestInv, Keep
<1>15. ASSUME NEW r \in Task, UpdateInfo(r)
      PROVE  NumberInv'
  BY <1>15 DEF UpdateInfo, Writing, WriteNumber, OrElse, EndTask, IdleTask, UserRow, TaskState,
     accountHistory, RequestInv, Keep
<1>16. ASSUME NEW r \in Task, UpdatePhoneNumber(r)
      PROVE  NumberInv'
  BY <1>16 DEF UpdatePhoneNumber, Writing, EndTask, IdleTask, UserRow, TaskState,
     accountHistory, RequestInv, Keep
<1>17. ASSUME NEW r \in Task, RequestPhoneVerification(r)
      PROVE  NumberInv'
  BY <1>17 DEF RequestPhoneVerification, Writing, Mint, IdleTask, UserRow,
     TaskState, accountHistory, RequestInv, Keep
<1>18. ASSUME NEW r \in Task, MintPasswordReset(r)
      PROVE  NumberInv'
  BY <1>18 DEF MintPasswordReset, Writing, Mint, IdleTask, UserRow, TaskState,
     accountHistory, RequestInv, Keep
<1>19. ASSUME NEW r \in Task, VerifyPhone(r)
      PROVE  NumberInv'
  BY <1>19 DEF VerifyPhone, Writing, EndTask, IdleTask, UserRow, TaskState,
     accountHistory, RequestInv, Keep
<1>20. ASSUME NEW r \in Task, ResetPassword(r)
      PROVE  NumberInv'
  BY <1>20 DEF ResetPassword, Writing, EndTask, IdleTask, UserRow, TaskState,
     accountHistory, RequestInv, Keep
<1>21. ASSUME NEW r \in Task, SoftDelete(r)
      PROVE  NumberInv'
  BY <1>21 DEF SoftDelete, Writing, EndTask, IdleTask, UserRow, TaskState,
     accountHistory, RequestInv, Keep
<1>22. ASSUME NEW r \in Task, GdprErase(r)
      PROVE  NumberInv'
  BY <1>22 DEF GdprErase, Writing, EndTask, IdleTask, UserRow, TaskState, accountHistory,
     RequestInv, Keep
<1>23. ASSUME NEW r \in Task, RecordEmailChange(r)
      PROVE  NumberInv'
  BY <1>23 DEF RecordEmailChange, NoticesOf, IdleTask, UserRow, TaskState,
     accountHistory, RequestInv, Keep
<1>24. ASSUME NEW r \in Task, QueueEmailVerification(r) \/ GiveUp(r)
      PROVE  NumberInv'
  BY <1>24 DEF QueueEmailVerification, GiveUp, EndTask, IdleTask, UserRow,
     TaskState, accountHistory, RequestInv, Keep
<1>25. ASSUME NEW r \in Task, DeliverEmailVerification(r) \/
   DeliverPasswordReset(r)
      PROVE  NumberInv'
  BY <1>25, JobReads DEF JobOperations
<1>26. ASSUME NEW r \in Task, Send(r)
      PROVE  NumberInv'
  BY <1>26 DEF Send, MessageOf, EndTask, IdleTask, UserRow, TaskState, accountHistory,
     RequestInv, Keep
<1>27. CASE ExpireOtp
  BY <1>27 DEF ExpireOtp, IdleTask, UserRow, TaskState, accountHistory, RequestInv
<1>28. CASE UNCHANGED <<user, task, proven, typed>>
  BY <1>28
<1> QED
  BY <1>1, <1>2, <1>3, <1>4, <1>5, <1>6, <1>7, <1>8, <1>9, <1>10, <1>11, <1>12,
     <1>13, <1>14, <1>15, <1>16, <1>17, <1>18, <1>19, <1>20, <1>21, <1>22,
     <1>23, <1>24, <1>25, <1>26, <1>27, <1>28 DEF AccountsNext, ReadRow, WriteRow,
     ReadRequestPasswordReset, DeliverEmailChangedNotice, accountHistory

LEMMA TypesKept ==
    ASSUME IInv, AccountsNext
    PROVE  AccountsTypeOK'
BY ReadTypes, WriteTypes, LaterTypes DEF AccountsNext

LEMMA Initially ==
    AccountsInit => IInv /\ AddressInv /\ NumberInv
<1> SUFFICES ASSUME AccountsInit
             PROVE  IInv /\ AddressInv /\ NumberInv
  OBVIOUS
<1>1. user \in UserRow
  BY AccountsAssumption DEF AccountsInit, UserRow
<1>2. AccountsTypeOK
  <2>1. /\ task \in [Task -> TaskState] /\ jobs \subseteq Job /\ mail \subseteq Message
        /\ minted \subseteq Secret /\ followed \subseteq Email /\ proven \subseteq Phone
        /\ typed \subseteq Phone
        /\ redeemed \subseteq Secret
    BY RequestWrites DEF AccountsInit, Job
  <2>2. started \in 0 .. MaxTasks
    BY AccountsAssumption DEF AccountsInit
  <2> QED
    BY <1>1, <2>1, <2>2 DEF AccountsTypeOK
<1>3. RequestInv /\ ErasedInv /\ SecretInv /\ CodeInv
  BY AccountsAssumption
     DEF AccountsInit, IdleTask, RequestInv, ErasedInv, SecretInv, CodeInv, Says, JobOperations
<1>4. AddressInv /\ NumberInv
  BY AccountsAssumption
     DEF AccountsInit, IdleTask, AddressInv, NumberInv, NumberVerified, Notice, NoticeJob, VerificationJob
<1> QED
  BY <1>2, <1>3, <1>4 DEF IInv

LEMMA Step ==
    IInv /\ [AccountsNext]_accountVars => IInv'
<1>1. ASSUME IInv, AccountsNext
      PROVE  IInv'
  BY <1>1, TypesKept, RequestKept, ErasedKept, SecretKept, CodeKept DEF IInv
<1>2. ASSUME IInv, UNCHANGED accountVars
      PROVE  IInv'
  BY <1>2 DEF accountVars, IInv, AccountsTypeOK, RequestInv, ErasedInv, SecretInv, CodeInv, Says
<1> QED
  BY <1>1, <1>2

(* Every reachable state satisfies the inductive invariant. *)
THEOREM Inductive == AccountsSpec => []IInv
<1>1. AccountsInit => IInv
  BY Initially
<1> QED
  BY <1>1, Step, PTL DEF AccountsSpec

(* Variables stay in their types; no mail or job goes to an erased address.  *)
THEOREM TypeCorrect == AccountsSpec => []AccountsTypeOK
<1>1. IInv => AccountsTypeOK
  BY DEF IInv
<1> QED
  BY <1>1, Inductive, PTL

(* Once a secret has been redeemed no later request finds it stored: the     *)
(* statement that redeems it clears it, and jobs that run again mint another *)
(* (resetPassword, verifyPhone, mintOtp). Two that have read it already may   *)
(* both redeem it.                                                           *)
THEOREM RedeemedStaysGone == AccountsSpec => []RedeemedIsGone
<1>1. IInv => RedeemedIsGone
  BY DEF IInv, SecretInv, RedeemedIsGone
<1> QED
  BY <1>1, Inductive, PTL

(* While forms repeat no address, the previous address that a request read as *)
(* verified is one whose link came back, whatever changed the row between     *)
(* that read and the notice.                                                 *)
LEMMA AddressesProven ==
    ASSUME NewAddresses
    PROVE  AccountsSpec => []AddressInv
<1>1. AccountsInit => AddressInv
  BY Initially
<1>2. IInv /\ AddressInv /\ [AccountsNext]_accountVars => AddressInv'
  <2>1. ASSUME AddressInv, UNCHANGED accountVars
        PROVE  AddressInv'
    BY <2>1 DEF accountVars, AddressInv
  <2> QED
    BY <2>1, AddressKept
<1> QED
  BY <1>1, <1>2, Inductive, PTL DEF AccountsSpec

(* verifyEmailByToken's update is conditional on the address it looked up: while *)
(* forms repeat no address, a verified one is one whose link came back.        *)
THEOREM EmailMeansProven ==
    ASSUME NewAddresses
    PROVE  AccountsSpec => []EmailWasProven
<1>1. AddressInv => EmailWasProven
  BY DEF AddressInv, EmailWasProven
<1> QED
  BY <1>1, AddressesProven, PTL

(* Whatever forms are sent, only a number in a form stands beside a date that   *)
(* is not its own: a code proves the number its hash covers and no other, and   *)
(* a change in flight past the code leaves none.                              *)
THEOREM PhoneMeansProvenOrTyped == AccountsSpec => []PhoneWasProvenOrTyped
<1>1. AccountsInit => NumberInv
  BY Initially
<1>2. IInv /\ NumberInv /\ [AccountsNext]_accountVars => NumberInv'
  <2>1. ASSUME NumberInv, UNCHANGED accountVars
        PROVE  NumberInv'
    BY <2>1 DEF accountVars, NumberInv, NumberVerified
  <2> QED
    BY <2>1, NumberKept
<1>3. NumberInv => PhoneWasProvenOrTyped
  BY DEF NumberInv, PhoneWasProvenOrTyped
<1> QED
  BY <1>1, <1>2, <1>3, Inductive, PTL DEF AccountsSpec

(* recordEmailChange tells the previous address only if it was verified. *)
THEOREM NoticesGoToProven ==
    ASSUME NewAddresses
    PROVE  AccountsSpec => []NoticeOnlyToProven
<1>1. AddressInv => NoticeOnlyToProven
  BY DEF AddressInv, NoticeOnlyToProven
<1> QED
  BY <1>1, AddressesProven, PTL
=============================================================================
