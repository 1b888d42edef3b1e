----------------------------- MODULE SignedUrls -----------------------------
(***************************************************************************)
(* The cache of signed read URLs of one stored object                      *)
(* (SignedReadUrlCacheService over FileStorageService). Views that miss    *)
(* the cache sign at the same time; a signature may be slow, and the SET   *)
(* that stores it later still. Redis may fail in every call.               *)
(***************************************************************************)
EXTENDS SessionClock

CONSTANTS
    Viewer,           \* views under way at once
    UrlLifetime,      \* storage.signedUrlTtlSeconds, in ticks
    SigningTimeout,   \* storage.requestTimeoutMs
    UrlClockEnd       \* bound: the last instant

ASSUME SignedUrlsAssumption ==
    /\ UrlLifetime \in Nat \ {0} /\ SigningTimeout \in Nat /\ UrlClockEnd \in Nat

VARIABLES
    urlClock,
    cachedUrl,   \* the key in Redis: the URL's expiry, when the key goes, and
                 \* (history) how long the SET had taken
    viewer       \* the views under way

signedUrlVars == <<urlClock, cachedUrl, viewer>>

UrlInstant == 0 .. UrlClockEnd
UrlExpiry == 0 .. UrlClockEnd + UrlLifetime

SignedUrlsTypeOK ==
    /\ urlClock \in UrlInstant
    /\ cachedUrl \in [expiresAt : UrlExpiry, until : UrlExpiry, lag : UrlInstant]
    /\ viewer \in [Viewer -> [step : {"idle", "signing", "storing"}, since : UrlInstant,
                              expiresAt : UrlExpiry, ttl : 0 .. UrlLifetime]]

NoUrl == [expiresAt |-> 0, until |-> 0, lag |-> 0]
IdleViewer == [step |-> "idle", since |-> 0, expiresAt |-> 0, ttl |-> 0]

SignedUrlsInit ==
    /\ urlClock = 0
    /\ cachedUrl = NoUrl
    /\ viewer = [v \in Viewer |-> IdleViewer]

(* A hit is served and changes nothing; a miss, an entry that cannot be    *)
(* read, or Redis failing leads here. The expiry is stamped before signing. *)
createSignedReadUrl(v) ==
    /\ viewer[v].step = "idle"
    /\ viewer' = [viewer EXCEPT ![v] = [IdleViewer EXCEPT !.step = "signing",
            !.since = urlClock, !.expiresAt = urlClock + UrlLifetime]]
    /\ UNCHANGED <<urlClock, cachedUrl>>

SigningFails(v) ==
    /\ viewer[v].step = "signing"
    /\ viewer' = [viewer EXCEPT ![v] = IdleViewer]
    /\ UNCHANGED <<urlClock, cachedUrl>>

(* mutant: half the full lifetime, however long signing took. *)
cacheTtlSeconds_FullLife(v) == UrlLifetime \div (2 * TicksPerSecond)

(* Half of what is left, in whole seconds. *)
cacheTtlSeconds(v) == (viewer[v].expiresAt - urlClock) \div (2 * TicksPerSecond)

(* Signed: the view stores the URL if any time is left for it. *)
Signed(v) ==
    /\ viewer[v].step = "signing"
    /\ viewer' = [viewer EXCEPT ![v] =
            IF cacheTtlSeconds(v) > 0
            THEN [@ EXCEPT !.step = "storing", !.since = urlClock, !.ttl = cacheTtlSeconds(v)]
            ELSE IdleViewer]
    /\ UNCHANGED <<urlClock, cachedUrl>>

(* SET EX, over whatever another view has stored meanwhile; or Redis fails. *)
storeUrl(v) ==
    /\ viewer[v].step = "storing"
    /\ \/ cachedUrl' = [expiresAt |-> viewer[v].expiresAt,
                        until |-> urlClock + viewer[v].ttl * TicksPerSecond,
                        lag |-> urlClock - viewer[v].since]
       \/ UNCHANGED cachedUrl
    /\ viewer' = [viewer EXCEPT ![v] = IdleViewer]
    /\ UNCHANGED urlClock

(* withTimeout ends a signature that is SigningTimeout old; a key expires. *)
UrlTick ==
    /\ urlClock < UrlClockEnd
    /\ \A v \in Viewer :
        viewer[v].step = "signing" => urlClock < viewer[v].since + SigningTimeout
    /\ urlClock' = urlClock + 1
    /\ cachedUrl' = IF cachedUrl.until <= urlClock + 1 THEN NoUrl ELSE cachedUrl
    /\ UNCHANGED viewer

SignedUrlsNext ==
    \/ \E v \in Viewer :
        createSignedReadUrl(v) \/ Signed(v) \/ SigningFails(v) \/ storeUrl(v)
    \/ UrlTick

SignedUrlsSpec == SignedUrlsInit /\ [][SignedUrlsNext]_signedUrlVars

----------------------------------------------------------------------------
(* "a cached URL always has at least half its validity left when served":  *)
(* half of what was left when it was signed, less the time its SET took,   *)
(* whichever of several views stored it last.                              *)
CachedUrlsKeepHalf ==
    cachedUrl # NoUrl =>
        2 * (cachedUrl.expiresAt - urlClock + cachedUrl.lag) >= UrlLifetime - SigningTimeout
=============================================================================
