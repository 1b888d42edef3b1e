----------------------------- MODULE Sessions -----------------------------
(***************************************************************************)
(* The sessions of one account: RefreshTokenService, with the parts of      *)
(* AuthService, UsersService and JwtStrategy that start, renew, end or       *)
(* accept a session.                                                        *)
(*                                                                          *)
(* State: the account's row, its refresh_tokens rows, the row lock on the    *)
(* account, and for every HTTP request in flight where it is in its handler. *)
(* A handler's unlocked reads are steps of their own; a transaction is two    *)
(* steps, taking the row lock and then its statements with the commit.       *)
(* lockRefreshTokenFamily is only ever taken by a transaction that already    *)
(* holds the account's lock, so it excludes nothing more here.               *)
(*                                                                          *)
(* Fields named under "history" below are read by properties, never by a     *)
(* guard or a decision of the code.                                          *)
(***************************************************************************)
EXTENDS SessionClock

CONSTANTS
    Request,          \* HTTP requests in flight at the same time
    Token,            \* refresh tokens that can ever be minted
    Nobody,           \* the holder of a lock nobody holds
    NoToken,          \* "no such row"
    RefreshLifetime,  \* jwt.refreshExpiresInDays, in ticks
    MaxTime,          \* bound: the clock stops here
    Operations        \* which of AllOperations clients call

AllOperations == {"login", "refresh", "logout", "logoutAll", "ownPassword",
                  "ownEmail", "update", "delete"}

ASSUME SessionsAssumption ==
    /\ Operations \subseteq AllOperations
    /\ Nobody \notin Request
    /\ NoToken \notin Token
    /\ RefreshLifetime \in Nat \ {0}
    /\ MaxTime \in Nat
    \* the clock can always reach the next whole second
    /\ MaxTime % TicksPerSecond = 0

VARIABLES
    now,      \* the clock
    user,     \* the users row
    rows,     \* the refresh_tokens table, indexed by token
    lock,     \* the request whose transaction holds the users row, or Nobody
    pc,       \* where each request is in its handler
    loc,      \* each request's local variables
    alarms    \* tokens whose presentation was recorded as replay_detected

vars == <<now, user, rows, lock, pc, loc, alarms>>

NotSigned == -1

(* endAllSessions is reached with these row changes folded into it. *)
EndKinds == {"logoutAll", "ownPassword", "ownEmail",
             "deactivate", "delete"}

Stages == {"idle",
           "wait", "issuing", "sign",      \* startSession
           "rotate", "rotating",           \* rotate
           "revoke", "revoking",           \* revokeFamily
           "end", "ending",                \* endAllSessions
           "update"}                       \* UsersService.update, bare write

UserRow == [active : BOOLEAN, deleted : BOOLEAN, verified : BOOLEAN,
            cutoff : Nat]       \* cutoff is the column passwordChangedAt

(* history: ended says whether an endAllSessions committed after the row, and *)
(* if so whether at a later instant; authorised says what happened between    *)
(* the password check and the issue.                                          *)
Row == [state : {"unused", "reserved", "stored", "purged"},
        family : Token, createdAt : Nat,
        consumed : BOOLEAN, revoked : BOOLEAN,
        iat : Nat \cup {NotSigned},
        ended : {"no", "sameInstant", "earlier"},
        authorised : {"fresh", "sameCutoff", "movedCutoff"}]

Local == [token : Token \cup {NoToken},   \* the presented refresh token
          minted : Token \cup {NoToken},  \* the token this request will mint
          cutoff : Nat,                   \* expectedSessionCutoff
          kind : EndKinds,
          replay : BOOLEAN,               \* revokeFamily called by handleReplay
          active : BOOLEAN,               \* dto.isActive
          overtaken : {"fresh", "sameCutoff", "movedCutoff"}]  \* history

TypeOK ==
    /\ now \in 0..MaxTime
    /\ user \in UserRow
    /\ rows \in [Token -> Row]
    /\ lock \in Request \cup {Nobody}
    /\ pc \in [Request -> Stages]
    /\ loc \in [Request -> Local]
    /\ alarms \subseteq Token

-----------------------------------------------------------------------------
(* Reading the tables *)

Stored(t) == rows[t].state = "stored"
Minted(t) == rows[t].state \in {"stored", "purged"}
Live(t) == Stored(t) /\ ~rows[t].consumed /\ ~rows[t].revoked
expiresAt(t) == rows[t].createdAt + RefreshLifetime
Expired(t) == expiresAt(t) <= now
Family(f) == {t \in Token : Stored(t) /\ rows[t].family = f}

(* loadEligibleSessionOwner *)
EligibleOwner == user.active /\ ~user.deleted

(* JwtStrategy.validate, up to the Redis blocklist, for the access token that *)
(* was signed together with refresh token t.                                  *)
Accepts(t) ==
    /\ rows[t].iat # NotSigned
    /\ EligibleOwner
    /\ ~(rows[t].iat < wholeSecond(user.cutoff))

-----------------------------------------------------------------------------
(* Initial state: create() has just stamped the cutoff, unrounded, at some     *)
(* instant of the first second, and the owner has followed the email link.     *)

EmptyRow(t) == [state |-> "unused", family |-> t, createdAt |-> 0,
                consumed |-> FALSE, revoked |-> FALSE, iat |-> NotSigned,
                ended |-> "no", authorised |-> "fresh"]

EmptyLocal == [token |-> NoToken, minted |-> NoToken, cutoff |-> 0,
               kind |-> "logoutAll", replay |-> FALSE, active |-> TRUE,
               overtaken |-> "fresh"]

Init ==
    /\ now \in {t \in 0..MaxTime : t < TicksPerSecond}
    /\ user = [active |-> TRUE, deleted |-> FALSE, verified |-> TRUE,
               cutoff |-> now]
    /\ rows = [t \in Token |-> EmptyRow(t)]
    /\ lock = Nobody
    /\ pc = [r \in Request |-> "idle"]
    /\ loc = [r \in Request |-> EmptyLocal]
    /\ alarms = {}

-----------------------------------------------------------------------------
(* Steps shared by the handlers *)

Goto(r, stage) == pc' = [pc EXCEPT ![r] = stage]

(* SELECT ... FOR UPDATE on the users row, first statement of a transaction. *)
LockUserRow(r, stage) ==
    /\ lock = Nobody
    /\ lock' = r
    /\ Goto(r, stage)
    /\ UNCHANGED <<now, user, rows, loc, alarms>>

(* The request answers, or its transaction rolls back, and is forgotten. A token *)
(* it reserved but did not mint never existed.                                 *)
Release(r) == lock' = IF lock = r THEN Nobody ELSE lock
Unreserved(r) ==
    [t \in Token |-> IF loc[r].minted = t /\ rows[t].state = "reserved"
                       THEN EmptyRow(t) ELSE rows[t]]
Finish(r) ==
    /\ Goto(r, "idle")
    /\ loc' = [loc EXCEPT ![r] = EmptyLocal]
    /\ Release(r)

Refuse(r) ==
    /\ Finish(r)
    /\ rows' = Unreserved(r)
    /\ UNCHANGED <<now, user, alarms>>

(* A name for the row the request may insert. *)
Reserve(t) == rows[t].state = "unused"

-----------------------------------------------------------------------------
(* startSession: login, and the credential changes that keep the caller in *)

(* verifyCredentials read the row, without a lock, and the password matched it. *)
Login(r, t) ==
    /\ pc[r] = "idle"
    /\ EligibleOwner /\ user.verified
    /\ Reserve(t)
    /\ rows' = [rows EXCEPT ![t].state = "reserved"]
    /\ loc' = [loc EXCEPT ![r] = [EmptyLocal EXCEPT !.minted = t,
                                                    !.cutoff = user.cutoff]]
    /\ Goto(r, "wait")
    /\ UNCHANGED <<now, user, lock, alarms>>

(* Mutant of LockForIssue: no wait for the cutoff. *)
LockForIssue_NoWait(r) == pc[r] = "wait" /\ LockUserRow(r, "issuing")

(* waitForSessionCutoff, then the lock of issueForNewSession. *)
LockForIssue(r) ==
    /\ pc[r] = "wait"
    /\ loc[r].cutoff <= now
    /\ LockUserRow(r, "issuing")

(* persist: the new row carries the instant read under the lock. *)
Persist(t, family, authorised) ==
    [rows[t] EXCEPT !.state = "stored", !.family = family, !.createdAt = now,
                    !.authorised = authorised]

(* Mutant of IssueForNewSession: expectedSessionCutoff ignored. *)
IssueForNewSession_NoCompare(r) ==
    LET t == loc[r].minted IN
    /\ pc[r] = "issuing"
    /\ EligibleOwner
    /\ rows' = [rows EXCEPT ![t] = Persist(t, t, loc[r].overtaken)]
    /\ Goto(r, "sign")
    /\ Release(r)
    /\ UNCHANGED <<now, user, loc, alarms>>

(* The compare-and-issue of issueForNewSession, then commit. *)
IssueForNewSession(r) ==
    LET t == loc[r].minted IN
    /\ pc[r] = "issuing"
    /\ EligibleOwner /\ user.cutoff = loc[r].cutoff     \* sameInstant
    /\ rows' = [rows EXCEPT ![t] = Persist(t, t, loc[r].overtaken)]
    /\ Goto(r, "sign")
    /\ Release(r)
    /\ UNCHANGED <<now, user, loc, alarms>>

IssueRefused(r) ==
    /\ pc[r] = "issuing"
    /\ ~(EligibleOwner /\ user.cutoff = loc[r].cutoff)
    /\ Refuse(r)

(* toSessionTokens, after the commit: `iat` is the row's instant, not the clock. *)
toSessionTokens(r) ==
    LET t == loc[r].minted IN
    /\ pc[r] = "sign"
    /\ rows' = [rows EXCEPT ![t].iat = wholeSecond(rows[t].createdAt)]
    /\ Finish(r)
    /\ UNCHANGED <<now, user, alarms>>

-----------------------------------------------------------------------------
(* rotate *)

(* The unlocked findUnique and its early returns. An unknown, revoked or expired *)
(* token is refused on the spot; a consumed one is a replay.                      *)
PresentToken(r, t, fresh) ==
    /\ pc[r] = "idle"
    /\ Stored(t)
    /\ Reserve(fresh)
    /\ ~rows[t].consumed /\ ~rows[t].revoked /\ ~Expired(t)
    /\ rows' = [rows EXCEPT ![fresh].state = "reserved"]
    /\ loc' = [loc EXCEPT ![r] = [EmptyLocal EXCEPT !.token = t,
                                                    !.minted = fresh]]
    /\ Goto(r, "rotate")
    /\ UNCHANGED <<now, user, lock, alarms>>

PresentConsumedToken(r, t) ==
    /\ pc[r] = "idle"
    /\ Stored(t) /\ rows[t].consumed
    /\ loc' = [loc EXCEPT ![r] = [EmptyLocal EXCEPT !.token = t,
                                                    !.replay = TRUE]]
    /\ Goto(r, "revoke")
    /\ UNCHANGED <<now, user, rows, lock, alarms>>

LockForRotate(r) == pc[r] = "rotate" /\ LockUserRow(r, "rotating")

(* The row's createdAt, read before the lock, against the cutoff read under it. *)
PredatesCutoff(t) == rows[t].createdAt < user.cutoff

(* Mutants of Consumable: the checks made before the lock are trusted. *)
Consumable_TrustsRevoked(t) == Stored(t) /\ ~rows[t].consumed /\ expiresAt(t) > now
Consumable_TrustsConsumed(t) == Stored(t) /\ ~rows[t].revoked /\ expiresAt(t) > now

(* The conditional updateMany that consumes the presented token. *)
Consumable(t) == Live(t) /\ expiresAt(t) > now

Rotate(r) ==
    LET old == loc[r].token  new == loc[r].minted IN
    /\ pc[r] = "rotating"
    /\ EligibleOwner /\ ~PredatesCutoff(old) /\ Consumable(old)
    /\ rows' = [rows EXCEPT ![old].consumed = TRUE,
                            ![new] = Persist(new, rows[old].family, "fresh")]
    /\ Goto(r, "sign")
    /\ Release(r)
    /\ UNCHANGED <<now, user, loc, alarms>>

(* SessionOwnerIneligibleError: roll back, then end every session. *)
RotateIneligible(r) ==
    /\ pc[r] = "rotating"
    /\ ~EligibleOwner
    /\ rows' = Unreserved(r)
    /\ loc' = [loc EXCEPT ![r] = EmptyLocal]
    /\ Goto(r, "end")
    /\ Release(r)
    /\ UNCHANGED <<now, user, alarms>>

(* SessionPredatesCutoffError: refuse, nothing more. *)
RotatePredates(r) ==
    /\ pc[r] = "rotating"
    /\ EligibleOwner /\ PredatesCutoff(loc[r].token)
    /\ Refuse(r)

(* ReplayDetectedError: roll back, then handleReplay. *)
RotateLost(r) ==
    LET t == loc[r].token IN
    /\ pc[r] = "rotating"
    /\ EligibleOwner /\ ~PredatesCutoff(t) /\ ~Consumable(t)
    /\ rows' = Unreserved(r)
    /\ loc' = [loc EXCEPT ![r] = [EmptyLocal EXCEPT !.token = t,
                                                    !.replay = TRUE]]
    /\ Goto(r, "revoke")
    /\ Release(r)
    /\ UNCHANGED <<now, user, alarms>>

-----------------------------------------------------------------------------
(* revokeFamily: per-device logout, and handleReplay *)

(* revokeByToken: an unknown token is a no-op, a known one names its family. *)
Logout(r, t) ==
    /\ pc[r] = "idle"
    /\ Stored(t)
    /\ loc' = [loc EXCEPT ![r] = [EmptyLocal EXCEPT !.token = t]]
    /\ Goto(r, "revoke")
    /\ UNCHANGED <<now, user, rows, lock, alarms>>

PresentedFamily(r) == Family(rows[loc[r].token].family)

(* handleReplay records the audit event once the family is revoked. *)
RecordReplay(r) ==
    alarms' = IF loc[r].replay THEN alarms \cup {loc[r].token} ELSE alarms

(* findFirst, in the transaction, finds no row left: nothing to lock. *)
RevokeFamilyGone(r) ==
    /\ pc[r] = "revoke"
    /\ PresentedFamily(r) = {}
    /\ RecordReplay(r)
    /\ Finish(r)
    /\ UNCHANGED <<now, user, rows>>

LockForRevoke(r) ==
    /\ pc[r] = "revoke"
    /\ PresentedFamily(r) # {}
    /\ LockUserRow(r, "revoking")

RevokeFamily(r) ==
    /\ pc[r] = "revoking"
    /\ rows' = [t \in Token |-> IF t \in PresentedFamily(r)
                                  THEN [rows[t] EXCEPT !.revoked = TRUE]
                                  ELSE rows[t]]
    /\ RecordReplay(r)
    /\ Finish(r)
    /\ UNCHANGED <<now, user>>

-----------------------------------------------------------------------------
(* endAllSessions: THE security mutation, with every reason for it *)

(* logoutAll stands for every ending that changes no column read here: logoutAll, *)
(* revokeAllSessions, resetPassword, updatePasswordAsAdmin. delete stands for      *)
(* deleteAccount and gdprErase. No session follows.                                *)
StartEnding(r, kind) ==
    /\ pc[r] = "idle"
    /\ kind \in {"logoutAll", "delete"}
    /\ loc' = [loc EXCEPT ![r] = [EmptyLocal EXCEPT !.kind = kind]]
    /\ Goto(r, "end")
    /\ UNCHANGED <<now, user, rows, lock, alarms>>

(* updateOwnPassword and updateEmail: the caller, whose password was checked   *)
(* against an unlocked read, is given a fresh session afterwards.              *)
StartCredentialChange(r, kind, t) ==
    /\ pc[r] = "idle"
    /\ EligibleOwner
    /\ kind \in {"ownPassword", "ownEmail"}
    /\ Reserve(t)
    /\ rows' = [rows EXCEPT ![t].state = "reserved"]
    /\ loc' = [loc EXCEPT ![r] = [EmptyLocal EXCEPT !.kind = kind,
                                                    !.minted = t]]
    /\ Goto(r, "end")
    /\ UNCHANGED <<now, user, lock, alarms>>

LockForEnding(r) == pc[r] = "end" /\ LockUserRow(r, "ending")

KeepsCaller(r) == loc[r].kind \in {"ownPassword", "ownEmail"}

(* The one users update: the reason's columns and the cutoff together. updateEmail *)
(* always clears the verification, gdprErase does and deleteAccount does not, an   *)
(* admin update that deactivates does when it also moves the email.                *)
EndedUser(kind, verified) ==
    [active |-> IF kind = "deactivate" THEN FALSE ELSE user.active,
     deleted |-> user.deleted \/ kind = "delete",
     verified |-> verified,
     cutoff |-> nextWholeSecond(now)]

VerifiedAfter(kind) ==
    CASE kind = "ownEmail" -> {FALSE}
      [] kind \in {"delete", "deactivate"} -> {user.verified, FALSE}
      [] OTHER -> {user.verified}

(* Mutant of RevokedRows: the cutoff moves and the rows stay. *)
RevokedRows_CutoffOnly == rows

(* The updateMany that revokes every row of the account. *)
RevokedRows ==
    [t \in Token |->
        IF ~Minted(t) THEN rows[t]
        ELSE [rows[t] EXCEPT
                !.revoked = @ \/ Stored(t),
                !.ended = IF rows[t].createdAt < now \/ @ = "earlier"
                            THEN "earlier" ELSE "sameInstant"]]

(* history: the logins whose password check this ending overtakes. *)
Overtake(q) ==
    IF user'.cutoff # user.cutoff THEN "movedCutoff"
    ELSE IF loc[q].overtaken = "fresh" THEN "sameCutoff" ELSE loc[q].overtaken

EndAllSessions(r) ==
    /\ pc[r] = "ending"
    /\ \E v \in VerifiedAfter(loc[r].kind) : user' = EndedUser(loc[r].kind, v)
    /\ rows' = RevokedRows
    /\ loc' = [q \in Request |->
                 IF q = r
                   THEN IF KeepsCaller(r) THEN [loc[r] EXCEPT !.cutoff = user'.cutoff]
                                          ELSE EmptyLocal
                   ELSE IF pc[q] = "wait" THEN [loc[q] EXCEPT !.overtaken = Overtake(q)]
                                          ELSE loc[q]]
    /\ Goto(r, IF KeepsCaller(r) THEN "wait" ELSE "idle")
    /\ Release(r)
    /\ UNCHANGED <<now, alarms>>

-----------------------------------------------------------------------------
(* UsersService.update with dto.isActive, by an administrator *)

(* The unlocked findById decides between deactivate and a bare field write. *)
Update(r, isActive) ==
    /\ pc[r] = "idle"
    /\ IF ~isActive /\ user.active
         THEN /\ loc' = [loc EXCEPT ![r] = [EmptyLocal EXCEPT !.kind = "deactivate"]]
              /\ Goto(r, "end")
         ELSE /\ loc' = [loc EXCEPT ![r] = [EmptyLocal EXCEPT !.active = isActive]]
              /\ Goto(r, "update")
    /\ UNCHANGED <<now, user, rows, lock, alarms>>

(* A single-statement UPDATE waits for the row lock like everyone else. *)
BareUpdate(r) ==
    /\ pc[r] = "update"
    /\ lock = Nobody
    /\ \E v \in {user.verified, FALSE} :
         user' = [user EXCEPT !.active = loc[r].active, !.verified = v]
    /\ Finish(r)
    /\ UNCHANGED <<now, rows, alarms>>

-----------------------------------------------------------------------------
(* The rest of the system *)

(* verifyEmailByToken's conditional update, for a link to the current address. *)
VerifyEmail ==
    /\ lock = Nobody
    /\ ~user.deleted /\ ~user.verified
    /\ user' = [user EXCEPT !.verified = TRUE]
    /\ UNCHANGED <<now, rows, lock, pc, loc, alarms>>

(* purgeExpired, run by the retention job: one deleteMany. It waits for the rows *)
(* a transaction holds through lockRefreshTokenFamily.                           *)
Purgeable == {t \in Token : Stored(t) /\ expiresAt(t) < now}
FamilyLocked(r) == pc[r] \in {"rotating", "revoking"}
PurgeExpired ==
    /\ Purgeable # {}
    /\ \A r \in Request : FamilyLocked(r) => PresentedFamily(r) \cap Purgeable = {}
    /\ rows' = [t \in Token |-> IF t \in Purgeable
                                  THEN [rows[t] EXCEPT !.state = "purged"]
                                  ELSE rows[t]]
    /\ UNCHANGED <<now, user, lock, pc, loc, alarms>>

Tick ==
    /\ now < MaxTime
    /\ now' = now + 1
    /\ UNCHANGED <<user, rows, lock, pc, loc, alarms>>

(* The process serving the request dies: its transaction rolls back. *)
Crash(r) == pc[r] # "idle" /\ Refuse(r)

(* With no request in flight the server may simply wait for the next one. *)
Idle == (\A r \in Request : pc[r] = "idle") /\ UNCHANGED vars

Handle(r) ==
    \/ LockForIssue(r) \/ IssueForNewSession(r) \/ IssueRefused(r)
    \/ toSessionTokens(r)
    \/ LockForRotate(r) \/ Rotate(r) \/ RotateIneligible(r)
    \/ RotatePredates(r) \/ RotateLost(r)
    \/ RevokeFamilyGone(r) \/ LockForRevoke(r) \/ RevokeFamily(r)
    \/ LockForEnding(r) \/ EndAllSessions(r)
    \/ BareUpdate(r)

Arrive(r) ==
    \/ "login" \in Operations /\ \E t \in Token : Login(r, t)
    \/ "refresh" \in Operations /\ \E t \in Token : PresentConsumedToken(r, t)
    \/ "refresh" \in Operations /\ \E t, fresh \in Token : PresentToken(r, t, fresh)
    \/ "logout" \in Operations /\ \E t \in Token : Logout(r, t)
    \/ \E kind \in EndKinds \cap Operations : StartEnding(r, kind)
    \/ \E kind \in EndKinds \cap Operations, t \in Token :
         StartCredentialChange(r, kind, t)
    \/ "update" \in Operations /\ \E isActive \in BOOLEAN : Update(r, isActive)

Next ==
    \/ \E r \in Request : Arrive(r) \/ Handle(r) \/ Crash(r)
    \/ VerifyEmail \/ PurgeExpired \/ Tick \/ Idle

Spec == Init /\ [][Next]_vars

-----------------------------------------------------------------------------
(* Properties *)

(* A revoked family gains no new children: once one row of a session family is  *)
(* revoked, by a logout, a replay or an ending, every row of it is, however      *)
(* rotations of its tokens interleave (rotate against revokeFamily).             *)
RevokedFamilyStaysRevoked ==
    \A t, u \in Token :
        /\ Stored(t) /\ Stored(u)
        /\ rows[t].family = rows[u].family
        /\ rows[t].revoked
        => rows[u].revoked

(* Reuse detection cannot be raced into a fork: two concurrent rotations of the  *)
(* same token never leave two unconsumed tokens in the family (the conditional   *)
(* updateMany in rotate).                                                        *)
OneUnconsumedPerFamily ==
    \A t, u \in Token :
        /\ Stored(t) /\ Stored(u)
        /\ rows[t].family = rows[u].family
        /\ ~rows[t].consumed /\ ~rows[u].consumed
        => t = u

(* Every access token decided at an earlier instant than an endAllSessions is    *)
(* rejected by JwtStrategy from then on, also one that is signed only after the   *)
(* ending committed (nextWholeSecond on the write, issuedAt as `iat`).           *)
EndedAccessTokensDie ==
    \A t \in Token : rows[t].ended = "earlier" => ~Accepts(t)

(* A token pair handed out with no ending since is good: startSession and rotate *)
(* never return an access token that the cutoff already rejects                  *)
(* (waitForSessionCutoff, PredatesCutoff).                                       *)
FreshAccessTokensLive ==
    \A t \in Token :
        /\ rows[t].iat # NotSigned
        /\ rows[t].ended = "no"
        /\ EligibleOwner
        => Accepts(t)

(* No live refresh row was created before the account's cutoff, so rotate's       *)
(* SessionPredatesCutoffError can only refuse a row that is already revoked.      *)
LiveRowsFollowCutoff ==
    \A t \in Token : Live(t) => rows[t].createdAt >= user.cutoff

(* A login whose password check was overtaken by an ending that moved the cutoff *)
(* is never given a session (expectedSessionCutoff in issueForNewSession).        *)
OvertakenLoginRefused ==
    \A t \in Token : Stored(t) => rows[t].authorised # "movedCutoff"

(* A deleted or erased account holds no live refresh row, and none appears, not  *)
(* even from a login or rotation that was under way (deleteAccount, gdprErase).   *)
DeletedAccountHoldsNoSession ==
    user.deleted => \A t \in Token : ~Live(t)

(* Once a replay is recorded for a token, its family never again holds a live    *)
(* row (handleReplay).                                                            *)
ReplayedFamilyIsDead ==
    \A t \in alarms, u \in Token :
        rows[u].family = rows[t].family => ~Live(u)

=============================================================================
