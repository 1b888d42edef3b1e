----------------------------- MODULE AccessTokens -----------------------------
(***************************************************************************)
(* The sign-out of one device: its refresh family is revoked in PostgreSQL *)
(* and the access token of the request is put on a blocklist in Redis      *)
(* until it expires (AuthService.logout, JwtStrategy.validate). The two    *)
(* writes are separate, Redis may be unreachable, and the device may       *)
(* refresh meanwhile. Sessions models the family; here it is one flag.     *)
(***************************************************************************)
EXTENDS SessionClock, FiniteSets

CONSTANTS
    Jti,               \* bound: the access tokens the family is ever given
    Logout,            \* sign-out requests under way at once
    NoJti, Unissued,
    AccessLifetime,    \* jwt.expiresIn, in seconds
    AccessClockEnd     \* bound: the last instant

ASSUME AccessTokensAssumption ==
    /\ AccessLifetime \in Nat \ {0}
    /\ AccessClockEnd \in Nat
    /\ Unissued \notin Nat

VARIABLES
    accessClock,
    issuedAt,          \* of each access token: the instant its iat is cut from
    blockedUntil,      \* when the token's key leaves Redis
    familyRevokedAt,   \* revokedAt of the family's rows
    redisReachable,
    logout,            \* the sign-outs under way
    loggedOut          \* history: the tokens whose sign-out has answered

accessVars == <<accessClock, issuedAt, blockedUntil, familyRevokedAt, redisReachable,
                logout, loggedOut>>

AccessInstant == 0 .. AccessClockEnd

AccessTypeOK ==
    /\ accessClock \in AccessInstant
    /\ issuedAt \in [Jti -> AccessInstant \union {Unissued}]
    /\ blockedUntil \in [Jti -> 0 .. AccessClockEnd + (AccessLifetime + 1) * TicksPerSecond]
    /\ familyRevokedAt \in AccessInstant \union {Unissued}
    /\ redisReachable \in BOOLEAN
    /\ logout \in [Logout -> [jti : Jti \union {NoJti}, step : {"idle", "revoke", "block"},
                              ttl : 0 .. AccessLifetime]]
    /\ loggedOut \subseteq Jti

IdleLogout == [jti |-> NoJti, step |-> "idle", ttl |-> 0]

(* One device, about to be given its first token. *)
AccessInit ==
    /\ accessClock = 0
    /\ issuedAt = [a \in Jti |-> Unissued]
    /\ blockedUntil = [a \in Jti |-> 0]
    /\ familyRevokedAt = Unissued
    /\ redisReachable = TRUE
    /\ logout = [l \in Logout |-> IdleLogout]
    /\ loggedOut = {}

----------------------------------------------------------------------------

(* The claims of toSessionTokens: iat is a whole second, exp a lifetime on. *)
exp(a) == wholeSecond(issuedAt[a]) + AccessLifetime

(* JwtStrategy: not expired, and not on the blocklist when Redis can be asked. *)
validate(a) ==
    /\ issuedAt[a] # Unissued
    /\ wholeSecond(accessClock) < exp(a)
    /\ redisReachable => accessClock >= blockedUntil[a]

(* mutant: a revoked family goes on rotating. *)
FamilyUsable_Always == TRUE

(* The guard of rotate, under the family's lock. *)
FamilyUsable == familyRevokedAt = Unissued

(* A sign-in's token, and the one of every refresh. *)
rotate(a) ==
    /\ issuedAt[a] = Unissued
    /\ FamilyUsable
    /\ issuedAt' = [issuedAt EXCEPT ![a] = accessClock]
    /\ UNCHANGED <<accessClock, blockedUntil, familyRevokedAt, redisReachable, logout, loggedOut>>

(* mutant: the second under way is counted as over. *)
ttlSeconds_RoundedUp(a) ==
    IF exp(a) - (nextWholeSecond(accessClock) \div TicksPerSecond) > 1
    THEN exp(a) - (nextWholeSecond(accessClock) \div TicksPerSecond) ELSE 1

(* Math.max(1, exp - floor(now)) *)
ttlSeconds(a) ==
    IF exp(a) - wholeSecond(accessClock) > 1 THEN exp(a) - wholeSecond(accessClock) ELSE 1

ToBlock(l, a) ==
    logout' = [logout EXCEPT ![l] = [jti |-> a, step |-> "block", ttl |-> ttlSeconds(a)]]

(* The request is authenticated; sending the refresh token is optional. *)
BeginLogout(l, a) ==
    /\ logout[l].step = "idle"
    /\ validate(a)
    /\ \/ logout' = [logout EXCEPT ![l] = [jti |-> a, step |-> "revoke", ttl |-> 0]]
       \/ ToBlock(l, a)
    /\ UNCHANGED <<accessClock, issuedAt, blockedUntil, familyRevokedAt, redisReachable, loggedOut>>

revokeFamily(l) ==
    /\ logout[l].step = "revoke"
    /\ familyRevokedAt' = IF FamilyUsable THEN accessClock ELSE familyRevokedAt
    /\ ToBlock(l, logout[l].jti)
    /\ UNCHANGED <<accessClock, issuedAt, blockedUntil, redisReachable, loggedOut>>

(* SET key EX ttl, which Redis counts from when it runs it. *)
blocklist(l) ==
    /\ logout[l].step = "block"
    /\ redisReachable
    /\ blockedUntil' = [blockedUntil EXCEPT
            ![logout[l].jti] = accessClock + logout[l].ttl * TicksPerSecond]
    /\ loggedOut' = loggedOut \union {logout[l].jti}
    /\ logout' = [logout EXCEPT ![l] = IdleLogout]
    /\ UNCHANGED <<accessClock, issuedAt, familyRevokedAt, redisReachable>>

(* The transaction fails, or Redis is not there: a 500, and what was done stays. *)
logoutFails(l) ==
    /\ logout[l].step = "revoke" \/ (logout[l].step = "block" /\ ~redisReachable)
    /\ logout' = [logout EXCEPT ![l] = IdleLogout]
    /\ UNCHANGED <<accessClock, issuedAt, blockedUntil, familyRevokedAt, redisReachable, loggedOut>>

RedisChanges ==
    /\ redisReachable' = ~redisReachable
    /\ UNCHANGED <<accessClock, issuedAt, blockedUntil, familyRevokedAt, logout, loggedOut>>

AccessTick ==
    /\ accessClock < AccessClockEnd
    /\ accessClock' = accessClock + 1
    /\ UNCHANGED <<issuedAt, blockedUntil, familyRevokedAt, redisReachable, logout, loggedOut>>

AccessNext ==
    \/ \E a \in Jti : rotate(a)
    \/ \E l \in Logout :
        \/ \E a \in Jti : BeginLogout(l, a)
        \/ revokeFamily(l) \/ blocklist(l) \/ logoutFails(l)
    \/ RedisChanges \/ AccessTick

AccessSpec == AccessInit /\ [][AccessNext]_accessVars

----------------------------------------------------------------------------
(* Properties *)

(* A token whose sign-out has answered is refused as long as Redis can be  *)
(* asked: its key never leaves the blocklist before the token expires,     *)
(* though one counts milliseconds from the SET and the other whole seconds *)
(* ("a TTL matching the token's remaining lifetime"). Redis fails open, a  *)
(* sign-out may fail between its two writes, and a refresh may overtake    *)
(* it: still no token of the device is accepted one lifetime after its     *)
(* family was revoked.                                                     *)
LoggedOutStaysOut ==
    /\ redisReachable => \A a \in loggedOut : ~validate(a)
    /\ familyRevokedAt # Unissued =>
           \A a \in Jti : validate(a) =>
               wholeSecond(accessClock) < wholeSecond(familyRevokedAt) + AccessLifetime
=============================================================================
