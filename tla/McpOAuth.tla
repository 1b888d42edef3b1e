------------------------------ MODULE McpOAuth ------------------------------
(***************************************************************************)
(* Signing in to the MCP endpoint: one account, the attempts its owner     *)
(* makes in one browser, and the codes, refresh tokens and access tokens   *)
(* they lead to (modules/mcp-oauth, over the library oidc-provider).       *)
(*                                                                         *)
(* An attempt is a password check, a consent and a code; every page the    *)
(* browser visits is a step, and a check is a step apart from the write    *)
(* that follows it. An exchange reads the presented code or refresh token, *)
(* checks the account, consumes the token and stores an access token and a *)
(* refresh token, each a step of its own. The order in which the library   *)
(* makes the two checks, and then the two inserts, is left open. Nothing   *)
(* locks the account: endings of all sessions come in between.             *)
(*                                                                         *)
(* Fields and variables marked "history" are read by properties only.      *)
(***************************************************************************)
EXTENDS SessionClock, FiniteSets

CONSTANTS
    Attempt,        \* bound: the sign-ins that are ever begun
    Request,        \* bound: the exchanges that run at once
    MaxCredentials, \* bound: the codes and tokens that are ever stored
    NoAttempt,
    CodeTtl, AccessTtl, RefreshTtl,   \* in ticks
    MaxTime         \* bound: the clock

ASSUME McpOAuthAssumption ==
    /\ NoAttempt \notin Attempt
    /\ MaxCredentials \in Nat
    /\ CodeTtl \in Nat \ {0} /\ AccessTtl \in Nat \ {0} /\ RefreshTtl \in Nat \ {0}
    /\ MaxTime \in Nat

VARIABLES
    now,
    account,   \* of the users row: may it be used, and the session cutoff
    session,   \* the browser's session: its sign-in and the grant it knows
    attempt,   \* the interactions
    grants,    \* stored rows of the model Grant
    row,       \* stored rows of the models AuthorizationCode, RefreshToken, AccessToken
    req,       \* exchanges in flight
    recent,    \* history: the sign-ins completed and access tokens stored at this instant
    late       \* history: access tokens stored by an exchange that was in flight at
               \* the last ending, or at the revocation of its grant

history == <<recent, late>>
vars == <<now, account, session, attempt, grants, row, req, history>>

Never == -1
Time == 0 .. MaxTime
Instant == Time \union {Never}
Credential == 1 .. MaxCredentials
NoCredential == 0

(* The pages of an attempt: the sign-in form, a password being compared, a *)
(* sign-in handed to the provider, the consent form, a consent whose grant *)
(* is being stored, one handed to the provider, a code about to be stored. *)
Page == {"login", "comparing", "signedIn", "consent", "approved",
         "consented", "granted", "done"}

AttemptState ==
    [page : Page,
     ts : Instant,              \* the sign-in time, in whole seconds
     grant : Attempt \union {NoAttempt},
     ended : BOOLEAN,      \* history: all sessions were ended since, at a later instant
     revoked : BOOLEAN]    \* history: a replay revoked the grant, and no new consent since

Row == [kind : {"none", "code", "refresh", "access"}, stored : BOOLEAN,
        lineage : Attempt \union {NoAttempt},   \* the attempt it descends from
        authTime : Instant, iat : Instant,
        expiresAt : 0 .. MaxTime + CodeTtl + AccessTtl + RefreshTtl,
        consumed : BOOLEAN]

Task == {"account", "consume", "access", "refresh"}

Exchange == [token : Credential \union {NoCredential}, todo : SUBSET Task,
             overtaken : BOOLEAN]   \* history: in flight at an ending or the revocation

TypeOK ==
    /\ now \in Time
    /\ account \in [usable : BOOLEAN, cutoff : Nat]
    /\ session \in [signedInAt : Instant, grant : Attempt \union {NoAttempt}]
    /\ attempt \in [Attempt -> AttemptState]
    /\ grants \subseteq Attempt
    /\ row \in [Credential -> Row]
    /\ req \in [Request -> Exchange]
    /\ recent \subseteq Attempt \union Credential
    /\ late \subseteq Credential

NoSession == [signedInAt |-> Never, grant |-> NoAttempt]

NotBegun == [page |-> "login", ts |-> Never, grant |-> NoAttempt,
             ended |-> FALSE, revoked |-> FALSE]

NoRow == [kind |-> "none", stored |-> FALSE, lineage |-> NoAttempt,
          authTime |-> Never, iat |-> Never, expiresAt |-> 0, consumed |-> FALSE]

Idle == [token |-> NoCredential, todo |-> {}, overtaken |-> FALSE]

Init ==
    /\ now = 0
    /\ account = [usable |-> TRUE, cutoff |-> 0]
    /\ session = NoSession
    /\ attempt = [a \in Attempt |-> NotBegun]
    /\ grants = {}
    /\ row = [c \in Credential |-> NoRow]
    /\ req = [r \in Request |-> Idle]
    /\ recent = {}
    /\ late = {}

----------------------------------------------------------------------------
(* isAccountUsable: t is the sign-in or issue time, in whole seconds. *)
isAccountUsable(t) == account.usable /\ t >= wholeSecond(account.cutoff)

(* The adapter reads an expired row as absent. *)
find(c) == row[c].stored /\ row[c].expiresAt > now

GrantOf(c) == attempt[row[c].lineage].grant

(* upsert of a new row, under an id that was never used (byLate: history). *)
upsert(record, byLate) ==
    \E c \in Credential :
        /\ row[c].kind = "none"
        /\ \A d \in Credential : d < c => row[d].kind # "none"
        /\ row' = [row EXCEPT ![c] = record]
        /\ recent' = IF record.kind = "access" THEN recent \union {c} ELSE recent
        /\ late' = IF byLate THEN late \union {c} ELSE late

Goto(a, page) == attempt' = [attempt EXCEPT ![a].page = page]

(* The provider refuses the account and shows the sign-in form again. *)
AskAgain(a) == attempt' = [attempt EXCEPT ![a] = NotBegun]

----------------------------------------------------------------------------
(* Signing in and consenting: OAuthInteractionController and the provider *)

(* GET /oauth/authorize shows the sign-in form: the policy asks for the     *)
(* password every time. POST login: verifyCredentials reads the row and    *)
(* compares the password.                                                  *)
VerifyCredentials(a) ==
    /\ attempt[a].page = "login"
    /\ account.usable
    /\ Goto(a, "comparing")
    /\ UNCHANGED <<now, account, session, grants, row, req, history>>

(* The password matched: ts is taken and interactionFinished stores it. *)
FinishLogin(a) ==
    /\ attempt[a].page = "comparing"
    /\ attempt' = [attempt EXCEPT ![a].page = "signedIn", ![a].ts = wholeSecond(now),
                                  ![a].ended = FALSE]
    /\ recent' = recent \union {a}
    /\ UNCHANGED <<now, account, session, grants, row, req, late>>

(* The browser comes back to the provider, which signs its session in and  *)
(* asks findAccount: on to the consent form, or to the password again.     *)
ResumeLogin(a) ==
    /\ attempt[a].page = "signedIn"
    /\ session' = [session EXCEPT !.signedInAt = attempt[a].ts]
    /\ IF isAccountUsable(attempt[a].ts) THEN Goto(a, "consent") ELSE AskAgain(a)
    /\ UNCHANGED <<now, account, grants, row, req, history>>

(* POST confirm, approved: judged by when the session signed in, which may *)
(* be another attempt's doing; then a new Grant, or the one the session    *)
(* knows if it is still stored. A missing one is a denial: see Abandon.    *)
Confirm(a) ==
    /\ attempt[a].page = "consent"
    /\ session.signedInAt # Never
    /\ isAccountUsable(session.signedInAt)
    /\ session.grant # NoAttempt => session.grant \in grants
    /\ attempt' = [attempt EXCEPT ![a].page = "approved",
            ![a].grant = IF session.grant = NoAttempt THEN a ELSE session.grant]
    /\ UNCHANGED <<now, account, session, grants, row, req, history>>

(* grant.save() is an upsert: it also brings back one revoked meanwhile. *)
SaveGrant(a) ==
    LET g == attempt[a].grant
    IN  /\ attempt[a].page = "approved"
        /\ grants' = grants \union {g}
        /\ attempt' = [b \in Attempt |->
                [attempt[b] EXCEPT !.page = IF b = a THEN "consented" ELSE @,
                                   !.revoked = @ /\ attempt[b].grant # g]]
        /\ UNCHANGED <<now, account, session, row, req, history>>

(* Back at the provider with both results: the session is signed in with   *)
(* this attempt's ts, and findAccount decides once more.                   *)
ResumeConsent(a) ==
    /\ attempt[a].page = "consented"
    /\ session' = [session EXCEPT !.signedInAt = attempt[a].ts]
    /\ IF isAccountUsable(attempt[a].ts)
       THEN attempt[a].grant \in grants /\ Goto(a, "granted")
       ELSE AskAgain(a)
    /\ UNCHANGED <<now, account, grants, row, req, history>>

IssueCode(a) ==
    /\ attempt[a].page = "granted"
    /\ upsert([kind |-> "code", stored |-> TRUE, lineage |-> a,
               authTime |-> attempt[a].ts, iat |-> Never,
               expiresAt |-> now + CodeTtl, consumed |-> FALSE], FALSE)
    /\ session' = [session EXCEPT !.grant = attempt[a].grant]
    /\ Goto(a, "done")
    /\ UNCHANGED <<now, account, grants, req>>

(* Denied, aborted, expired after ten minutes, or the browser is closed. *)
Abandon(a) ==
    /\ attempt[a].page # "done"
    /\ attempt' = [attempt EXCEPT ![a] = [NotBegun EXCEPT !.page = "done"]]
    /\ UNCHANGED <<now, account, session, grants, row, req, history>>

(* The browser's session expires or is replaced. *)
SessionLapses ==
    /\ session # NoSession
    /\ session' = NoSession
    /\ UNCHANGED <<now, account, attempt, grants, row, req, history>>

----------------------------------------------------------------------------
(* POST /oauth/token *)

(* revokeByGrantId across every model, and the Grant itself. *)
revokeByGrantId(g) ==
    /\ row' = [c \in Credential |->
            [row[c] EXCEPT !.stored = @ /\ GrantOf(c) # g]]
    /\ grants' = grants \ {g}
    /\ attempt' = [a \in Attempt |->
            [attempt[a] EXCEPT !.revoked = @ \/ attempt[a].grant = g]]
    /\ req' = [r \in Request |-> [req[r] EXCEPT !.overtaken =
            @ \/ (req[r] # Idle /\ GrantOf(req[r].token) = g)]]

(* The provider finds the token and its grant. One that is consumed        *)
(* already is a replay: everything of the grant goes.                      *)
Present(r, c) ==
    /\ req[r] = Idle
    /\ row[c].kind \in {"code", "refresh"}
    /\ find(c)
    /\ GrantOf(c) \in grants
    /\ IF row[c].consumed
       THEN revokeByGrantId(GrantOf(c))
       ELSE /\ req' = [req EXCEPT ![r] =
                  [token |-> c, todo |-> Task, overtaken |-> FALSE]]
            /\ UNCHANGED <<attempt, grants, row>>
    /\ UNCHANGED <<now, account, session, history>>

(* A task is done; after the last one the request is over. *)
Done(r, task) ==
    req' = [req EXCEPT ![r] =
              IF req[r].todo = {task} THEN Idle ELSE [req[r] EXCEPT !.todo = @ \ {task}]]

Fail(r) == req' = [req EXCEPT ![r] = Idle]

(* mutant: judged by now, when the new credential is minted. *)
SignInTime_Minted(c) == wholeSecond(now)

(* What findAccount judges a code or refresh token by: its authTime. *)
SignInTime(c) == row[c].authTime

findAccount(r) ==
    /\ "account" \in req[r].todo
    /\ IF isAccountUsable(SignInTime(req[r].token)) THEN Done(r, "account") ELSE Fail(r)
    /\ UNCHANGED <<now, account, session, attempt, grants, row, history>>

(* mutant: updateMany without consumedAt: null. *)
Consumable_Any(c) == row[c].stored

(* The WHERE of consume. *)
Consumable(c) == row[c].stored /\ ~row[c].consumed

(* updateMany; a count of 0 is invalid_grant, without revoking anything. *)
consume(r) ==
    LET c == req[r].token
    IN  /\ "consume" \in req[r].todo
        /\ IF Consumable(c)
           THEN row' = [row EXCEPT ![c].consumed = TRUE] /\ Done(r, "consume")
           ELSE UNCHANGED row /\ Fail(r)
        /\ UNCHANGED <<now, account, session, attempt, grants, history>>

Issuing(r, task) ==
    task \in req[r].todo /\ req[r].todo \intersect {"account", "consume"} = {}

IssueAccessToken(r) ==
    /\ Issuing(r, "access")
    /\ upsert([kind |-> "access", stored |-> TRUE, lineage |-> row[req[r].token].lineage,
               authTime |-> Never, iat |-> wholeSecond(now),
               expiresAt |-> now + AccessTtl, consumed |-> FALSE],
              req[r].overtaken)
    /\ Done(r, "access")
    /\ UNCHANGED <<now, account, session, attempt, grants>>

(* mutant: every renewal starts the lifetime again. *)
RefreshExpiry_Renewed(c) == now + RefreshTtl

(* ttl.RefreshToken: the whole lifetime, or what is left of the rotated one. *)
RefreshExpiry(c) == IF row[c].kind = "refresh" THEN row[c].expiresAt ELSE now + RefreshTtl

IssueRefreshToken(r) ==
    LET c == req[r].token
    IN  /\ Issuing(r, "refresh")
        /\ upsert([kind |-> "refresh", stored |-> TRUE, lineage |-> row[c].lineage,
                   authTime |-> row[c].authTime, iat |-> Never,
                   expiresAt |-> RefreshExpiry(c), consumed |-> FALSE], FALSE)
        /\ Done(r, "refresh")
        /\ UNCHANGED <<now, account, session, attempt, grants>>

(* The process dies under an exchange. *)
Die(r) ==
    /\ req[r] # Idle
    /\ Fail(r)
    /\ UNCHANGED <<now, account, session, attempt, grants, row, history>>

----------------------------------------------------------------------------
(* The account, the retention job and the clock *)

(* Every ending moves the cutoff; some leave the account unusable too. *)
EndSessions(usable) ==
    /\ account' = [usable |-> usable, cutoff |-> nextWholeSecond(now)]
    /\ attempt' = [a \in Attempt |-> [attempt[a] EXCEPT !.ended =
            @ \/ (attempt[a].ts # Never /\ a \notin recent)]]
    /\ req' = [r \in Request |-> [req[r] EXCEPT !.overtaken = req[r] # Idle]]
    /\ late' = recent \intersect Credential
    /\ UNCHANGED <<now, session, grants, row, recent>>

(* An account is activated, or its new address verified. *)
Restore ==
    /\ ~account.usable
    /\ account' = [account EXCEPT !.usable = TRUE]
    /\ UNCHANGED <<now, session, attempt, grants, row, req, history>>

Expired(c) == row[c].stored /\ row[c].expiresAt < now

(* OAuthPayloadRetentionHandler: one DELETE. A Grant lives RefreshTtl. *)
runOnce ==
    /\ \E gone \in {{}, {g \in grants : now > RefreshTtl}} :
        /\ gone # {} \/ \E c \in Credential : Expired(c)
        /\ grants' = grants \ gone
    /\ row' = [c \in Credential |-> [row[c] EXCEPT !.stored = @ /\ ~Expired(c)]]
    /\ UNCHANGED <<now, account, session, attempt, req, history>>

Tick ==
    /\ now < MaxTime
    /\ now' = now + 1
    /\ recent' = {}
    /\ UNCHANGED <<account, session, attempt, grants, row, req, late>>

Next ==
    \/ \E a \in Attempt :
        \/ VerifyCredentials(a) \/ FinishLogin(a) \/ ResumeLogin(a)
        \/ Confirm(a) \/ SaveGrant(a) \/ ResumeConsent(a) \/ IssueCode(a)
        \/ Abandon(a)
    \/ SessionLapses
    \/ \E r \in Request :
        \/ \E c \in Credential : Present(r, c)
        \/ findAccount(r) \/ consume(r) \/ IssueAccessToken(r) \/ IssueRefreshToken(r)
        \/ Die(r)
    \/ \E usable \in {account.usable, FALSE} : EndSessions(usable)
    \/ Restore
    \/ runOnce
    \/ Tick

Spec == Init /\ [][Next]_vars

----------------------------------------------------------------------------
(* Properties *)

(* verifyAccessToken: stored, not expired, and the account usable since iat. *)
verifyAccessToken(c) ==
    row[c].kind = "access" /\ find(c) /\ isAccountUsable(row[c].iat)

(* A sign-in has one code or refresh token to present, or one exchange     *)
(* about to store one: however many exchanges of one token run at once,    *)
(* only the one that flips consumed_at goes on (OAuthPayloadAdapter).      *)
OneRedeemable ==
    \A a \in Attempt :
        LET redeemable == {c \in Credential :
                              /\ row[c].kind \in {"code", "refresh"}
                              /\ row[c].lineage = a
                              /\ Consumable(c)}
            renewing == {r \in Request :
                              /\ req[r] # Idle
                              /\ row[req[r].token].lineage = a
                              /\ "refresh" \in req[r].todo /\ "consume" \notin req[r].todo}
        IN  Cardinality(redeemable) + Cardinality(renewing) <= 1

(* The comment on McpOAuthProviderService: an ending of all sessions ends  *)
(* MCP access without a second revocation list. Of a sign-in that was      *)
(* complete before the ending, or whose grant a replay revoked, only an    *)
(* access token is still honoured that an exchange in flight at that       *)
(* moment has stored since (or one stored at the very instant).            *)
AccessEndsWithSessions ==
    \A c \in Credential :
        /\ verifyAccessToken(c)
        /\ attempt[row[c].lineage].ended \/ attempt[row[c].lineage].revoked
        => c \in late

(* The comment on ttl.RefreshToken: renewing never extends a sign-in. All  *)
(* refresh tokens of one sign-in expire together.                          *)
RenewalNeverExtends ==
    \A c, d \in Credential :
        /\ row[c].kind = "refresh" /\ row[d].kind = "refresh"
        /\ row[c].lineage = row[d].lineage
        => row[c].expiresAt = row[d].expiresAt
=============================================================================
