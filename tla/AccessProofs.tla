---------------------------- MODULE AccessProofs ----------------------------
(***************************************************************************)
(* Proofs about AccessTokens, SignedUrls, DeviceTokens, Turnstile and      *)
(* AppVersions, for any number of tokens, requests, views, people, calls   *)
(* and releases, any clock resolution, lifetime, window, time-out and      *)
(* horizon.                                                                *)
(***************************************************************************)
EXTENDS AccessTokens, SignedUrls, DeviceTokens, Turnstile, AppVersions, TLAPS

----------------------------------------------------------------------------
(* Clock arithmetic *)

(* A whole second is a natural number and follows the clock.               *)
LEMMA SecondMonotone ==
    /\ \A t \in Nat : wholeSecond(t) \in Nat
    /\ \A t, u \in Nat : t <= u => wholeSecond(t) <= wholeSecond(u)
BY TicksPerSecondAssumption DEF wholeSecond

(* A TTL of the whole seconds that are left reaches the expiry.            *)
LEMMA TtlReachesExpiry ==
    ASSUME NEW t \in Nat, NEW e \in Nat, NEW n \in Nat, e - wholeSecond(t) <= n
    PROVE  e * TicksPerSecond <= t + n * TicksPerSecond
<1>1. wholeSecond(t) \in Nat /\ wholeSecond(t) * TicksPerSecond <= t
  BY TicksPerSecondAssumption DEF wholeSecond
<1>2. e <= n + wholeSecond(t)
  BY <1>1
<1>3. e * TicksPerSecond <= (n + wholeSecond(t)) * TicksPerSecond
  BY <1>1, <1>2, TicksPerSecondAssumption
<1>4. (n + wholeSecond(t)) * TicksPerSecond
          = n * TicksPerSecond + wholeSecond(t) * TicksPerSecond
  BY <1>1, TicksPerSecondAssumption
<1> QED
  BY <1>1, <1>3, <1>4, TicksPerSecondAssumption

(* Before the second of an expiry is before its first instant.             *)
LEMMA SecondBeforeExpiry ==
    ASSUME NEW t \in Nat, NEW e \in Nat, wholeSecond(t) < e
    PROVE  t < e * TicksPerSecond
BY TicksPerSecondAssumption DEF wholeSecond

(* Half of what is left, in whole seconds, is at most half of it.          *)
LEMMA HalfInSeconds ==
    ASSUME NEW d \in Int
    PROVE  2 * ((d \div (2 * TicksPerSecond)) * TicksPerSecond) <= d
<1> DEFINE q == d \div (2 * TicksPerSecond)
<1>1. q \in Int /\ q * (2 * TicksPerSecond) <= d
  BY TicksPerSecondAssumption
<1> HIDE DEF q
<1>2. q * (2 * TicksPerSecond) = 2 * (q * TicksPerSecond)
  BY <1>1, TicksPerSecondAssumption
<1> QED
  BY <1>1, <1>2 DEF q

----------------------------------------------------------------------------
(* AccessTokens *)

AccessTypes ==
    /\ accessClock \in Nat
    /\ issuedAt \in [Jti -> Nat \union {Unissued}]
    /\ blockedUntil \in [Jti -> Nat]
    /\ familyRevokedAt \in Nat \union {Unissued}
    /\ logout \in [Logout -> [jti : Jti \union {NoJti}, step : {"idle", "revoke", "block"},
                              ttl : Nat]]
    /\ loggedOut \subseteq Jti

(* Nothing lies in the future, and a family that is revoked got its tokens *)
(* before.                                                                 *)
IssueInv ==
    /\ \A a \in Jti : issuedAt[a] # Unissued => issuedAt[a] <= accessClock
    /\ familyRevokedAt # Unissued =>
           \A a \in Jti : issuedAt[a] # Unissued => issuedAt[a] <= familyRevokedAt

(* The instant at which a token issued at i expires.                       *)
ExpiryOf(i) == (wholeSecond(i) + AccessLifetime) * TicksPerSecond

(* A sign-out under way is of a token that was issued; once it is to block *)
(* it, the key it sets will outlive the token, however late it sets it.    *)
LogoutOK(out, issued, clock) ==
    out.step # "idle" =>
        /\ out.jti \in Jti /\ issued[out.jti] # Unissued
        /\ out.step = "block" =>
               ExpiryOf(issued[out.jti]) <= clock + out.ttl * TicksPerSecond

(* So does the key of every token whose sign-out has answered.             *)
BlockInv ==
    /\ \A a \in loggedOut : issuedAt[a] # Unissued /\ ExpiryOf(issuedAt[a]) <= blockedUntil[a]
    /\ \A l \in Logout : LogoutOK(logout[l], issuedAt, accessClock)

AccessIInv == AccessTypes /\ IssueInv /\ BlockInv

LEMMA ExpiryTyped == \A i \in Nat : ExpiryOf(i) \in Nat
BY SecondMonotone, AccessTokensAssumption, TicksPerSecondAssumption DEF ExpiryOf

LEMMA AccessInitIInv == AccessInit => AccessIInv
BY AccessTokensAssumption
   DEF AccessInit, AccessIInv, AccessTypes, IssueInv, BlockInv, LogoutOK, IdleLogout

(* ToBlock takes the lifetime that is left, and at least a second.         *)
LEMMA ToBlockTtl ==
    ASSUME AccessTypes, NEW a \in Jti, issuedAt[a] # Unissued
    PROVE  /\ ttlSeconds(a) \in Nat
           /\ ExpiryOf(issuedAt[a]) <= accessClock + ttlSeconds(a) * TicksPerSecond
<1>1. issuedAt[a] \in Nat /\ accessClock \in Nat /\ wholeSecond(accessClock) \in Nat
  BY SecondMonotone DEF AccessTypes
<1>2. exp(a) \in Nat /\ ExpiryOf(issuedAt[a]) = exp(a) * TicksPerSecond
  BY <1>1, SecondMonotone, AccessTokensAssumption DEF exp, ExpiryOf
<1>3. ttlSeconds(a) \in Nat /\ exp(a) - wholeSecond(accessClock) <= ttlSeconds(a)
  BY <1>1, <1>2 DEF ttlSeconds
<1> QED
  BY <1>1, <1>2, <1>3, TtlReachesExpiry

(* The steps that change one sign-out and neither tokens nor keys.         *)
LEMMA LogoutMoves ==
    ASSUME AccessIInv, NEW l \in Logout, NEW out,
           out \in [jti : Jti \union {NoJti}, step : {"idle", "revoke", "block"}, ttl : Nat],
           LogoutOK(out, issuedAt, accessClock),
           logout' = [logout EXCEPT ![l] = out],
           UNCHANGED <<accessClock, issuedAt, blockedUntil, loggedOut>>,
           familyRevokedAt' \in {familyRevokedAt, accessClock}
    PROVE  AccessIInv'
<1>1. AccessTypes'
  BY DEF AccessIInv, AccessTypes
<1>2. IssueInv'
  BY DEF AccessIInv, AccessTypes, IssueInv
<1>3. \A k \in Logout : logout'[k] = IF k = l THEN out ELSE logout[k]
  BY DEF AccessIInv, AccessTypes
<1>4. BlockInv'
  BY <1>3 DEF AccessIInv, BlockInv
<1> QED
  BY <1>1, <1>2, <1>4 DEF AccessIInv

LEMMA ToBlockIInv ==
    ASSUME AccessIInv, NEW l \in Logout, NEW a \in Jti, issuedAt[a] # Unissued,
           ToBlock(l, a),
           UNCHANGED <<accessClock, issuedAt, blockedUntil, loggedOut>>,
           familyRevokedAt' \in {familyRevokedAt, accessClock}
    PROVE  AccessIInv'
<1>1. /\ ttlSeconds(a) \in Nat
      /\ ExpiryOf(issuedAt[a]) <= accessClock + ttlSeconds(a) * TicksPerSecond
  BY ToBlockTtl DEF AccessIInv
<1> DEFINE out == [jti |-> a, step |-> "block", ttl |-> ttlSeconds(a)]
<1>2. LogoutOK(out, issuedAt, accessClock)
  BY <1>1 DEF LogoutOK
<1>3. out \in [jti : Jti \union {NoJti}, step : {"idle", "revoke", "block"}, ttl : Nat]
  BY <1>1
<1>4. logout' = [logout EXCEPT ![l] = out]
  BY DEF ToBlock
<1> HIDE DEF out
<1> QED
  BY <1>2, <1>3, <1>4, LogoutMoves

(* An idle sign-out has nothing to keep.                                   *)
LEMMA IdleTyped ==
    /\ IdleLogout \in [jti : Jti \union {NoJti}, step : {"idle", "revoke", "block"}, ttl : Nat]
    /\ LogoutOK(IdleLogout, issuedAt, accessClock)
BY DEF IdleLogout, LogoutOK

LEMMA AccessNextIInv == AccessIInv /\ [AccessNext]_accessVars => AccessIInv'
<1> SUFFICES ASSUME AccessIInv, [AccessNext]_accessVars
             PROVE  AccessIInv'
  OBVIOUS
<1> USE DEF AccessIInv
<1>1. ASSUME NEW a \in Jti, rotate(a)
      PROVE  AccessIInv'
  <2>1. AccessTypes' /\ IssueInv'
    BY <1>1, AccessTokensAssumption DEF rotate, FamilyUsable, AccessTypes, IssueInv
  <2>2. \A b \in Jti : issuedAt[b] # Unissued => issuedAt'[b] = issuedAt[b]
    BY <1>1 DEF rotate, AccessTypes
  <2>3. \A b \in loggedOut :
            issuedAt'[b] # Unissued /\ ExpiryOf(issuedAt'[b]) <= blockedUntil[b]
    BY <2>2 DEF AccessTypes, BlockInv
  <2>4. ASSUME NEW l \in Logout
        PROVE  LogoutOK(logout[l], issuedAt', accessClock)
    <3>1. LogoutOK(logout[l], issuedAt, accessClock)
      BY DEF BlockInv
    <3> QED
      BY <2>2, <3>1 DEF LogoutOK
  <2> QED
    BY <1>1, <2>1, <2>3, <2>4 DEF rotate, BlockInv
<1>2. ASSUME NEW l \in Logout, NEW a \in Jti, BeginLogout(l, a)
      PROVE  AccessIInv'
  <2>1. issuedAt[a] # Unissued
    BY <1>2 DEF BeginLogout, validate
  <2>2. CASE ToBlock(l, a)
    BY <1>2, <2>1, <2>2, ToBlockIInv DEF BeginLogout
  <2>3. CASE logout' = [logout EXCEPT ![l] = [jti |-> a, step |-> "revoke", ttl |-> 0]]
    <3> DEFINE out == [jti |-> a, step |-> "revoke", ttl |-> 0]
    <3>1. out \in [jti : Jti \union {NoJti}, step : {"idle", "revoke", "block"}, ttl : Nat]
      OBVIOUS
    <3>2. LogoutOK(out, issuedAt, accessClock)
      BY <2>1 DEF LogoutOK
    <3>3. logout' = [logout EXCEPT ![l] = out]
      BY <2>3
    <3> HIDE DEF out
    <3> QED
      BY <1>2, <3>1, <3>2, <3>3, LogoutMoves DEF BeginLogout
  <2> QED
    BY <1>2, <2>2, <2>3 DEF BeginLogout
<1>3. ASSUME NEW l \in Logout, revokeFamily(l)
      PROVE  AccessIInv'
  <2>1. logout[l].jti \in Jti /\ issuedAt[logout[l].jti] # Unissued
    BY <1>3 DEF revokeFamily, BlockInv, LogoutOK
  <2> QED
    BY <1>3, <2>1, ToBlockIInv DEF revokeFamily
<1>4. ASSUME NEW l \in Logout, blocklist(l)
      PROVE  AccessIInv'
  <2> DEFINE a == logout[l].jti
             until == accessClock + logout[l].ttl * TicksPerSecond
  <2>1. a \in Jti /\ issuedAt[a] # Unissued /\ ExpiryOf(issuedAt[a]) <= until
    BY <1>4 DEF blocklist, BlockInv, LogoutOK
  <2>2. until \in Nat
    BY TicksPerSecondAssumption DEF AccessTypes
  <2>3. /\ blockedUntil' = [blockedUntil EXCEPT ![a] = until]
        /\ loggedOut' = loggedOut \union {a}
        /\ logout' = [logout EXCEPT ![l] = IdleLogout]
        /\ UNCHANGED <<accessClock, issuedAt, familyRevokedAt>>
    BY <1>4 DEF blocklist
  <2> HIDE DEF a, until
  <2>4. AccessTypes' /\ IssueInv'
    BY <2>1, <2>2, <2>3, IdleTyped DEF AccessTypes, IssueInv
  <2>5. \A b \in loggedOut' : issuedAt'[b] # Unissued /\ ExpiryOf(issuedAt'[b]) <= blockedUntil'[b]
    BY <2>1, <2>3 DEF AccessTypes, BlockInv
  <2>6. \A k \in Logout : LogoutOK(logout'[k], issuedAt', accessClock')
    BY <2>3, IdleTyped DEF AccessTypes, BlockInv
  <2> QED
    BY <2>4, <2>5, <2>6 DEF BlockInv
<1>5. ASSUME NEW l \in Logout, logoutFails(l)
      PROVE  AccessIInv'
  BY <1>5, IdleTyped, LogoutMoves DEF logoutFails
<1>6. CASE RedisChanges
  BY <1>6 DEF RedisChanges, AccessTypes, IssueInv, BlockInv
<1>7. CASE AccessTick
  <2>1. accessClock' = accessClock + 1
        /\ UNCHANGED <<issuedAt, blockedUntil, familyRevokedAt, logout, loggedOut>>
    BY <1>7 DEF AccessTick
  <2>2. AccessTypes' /\ IssueInv'
    BY <2>1 DEF AccessTypes, IssueInv
  <2>3. ASSUME NEW l \in Logout
        PROVE  LogoutOK(logout[l], issuedAt, accessClock + 1)
    <3>1. ASSUME logout[l].step # "idle"
          PROVE  /\ ExpiryOf(issuedAt[logout[l].jti]) \in Nat
                 /\ logout[l].ttl * TicksPerSecond \in Nat /\ accessClock \in Nat
      BY <3>1, ExpiryTyped, TicksPerSecondAssumption DEF BlockInv, LogoutOK, AccessTypes
    <3> QED
      BY <3>1 DEF BlockInv, LogoutOK
  <2> QED
    BY <2>1, <2>2, <2>3 DEF BlockInv
<1>8. CASE UNCHANGED accessVars
  BY <1>8 DEF accessVars, AccessTypes, IssueInv, BlockInv
<1> QED
  BY <1>1, <1>2, <1>3, <1>4, <1>5, <1>6, <1>7, <1>8 DEF AccessNext

(* A signed-out token is refused while Redis can be asked, and no token of *)
(* the device outlives the revocation of its family by a lifetime          *)
(* (auth.service.ts: logout).                                              *)
THEOREM SignOutHolds == AccessSpec => []LoggedOutStaysOut
<1>1. AccessIInv => LoggedOutStaysOut
  <2> SUFFICES ASSUME AccessIInv
               PROVE  LoggedOutStaysOut
    OBVIOUS
  <2> USE DEF AccessIInv
  <2>1. ASSUME redisReachable, NEW a \in loggedOut, validate(a)
        PROVE  FALSE
    <3>1. /\ a \in Jti /\ issuedAt[a] \in Nat /\ accessClock \in Nat
          /\ blockedUntil[a] \in Nat /\ ExpiryOf(issuedAt[a]) <= blockedUntil[a]
      BY DEF AccessTypes, BlockInv
    <3>2. exp(a) \in Nat /\ ExpiryOf(issuedAt[a]) = exp(a) * TicksPerSecond
      BY <3>1, SecondMonotone, AccessTokensAssumption DEF exp, ExpiryOf
    <3>3. accessClock < exp(a) * TicksPerSecond
      BY <2>1, <3>1, <3>2, SecondBeforeExpiry DEF validate
    <3>4. accessClock >= blockedUntil[a]
      BY <2>1 DEF validate
    <3>5. exp(a) * TicksPerSecond \in Nat
      BY <3>2, TicksPerSecondAssumption
    <3> QED
      BY <3>1, <3>2, <3>3, <3>4, <3>5
  <2>2. ASSUME familyRevokedAt # Unissued, NEW a \in Jti, validate(a)
        PROVE  wholeSecond(accessClock) < wholeSecond(familyRevokedAt) + AccessLifetime
    <3>1. /\ issuedAt[a] \in Nat /\ familyRevokedAt \in Nat /\ accessClock \in Nat
          /\ issuedAt[a] <= familyRevokedAt
      BY <2>2 DEF validate, AccessTypes, IssueInv
    <3>2. /\ wholeSecond(issuedAt[a]) \in Nat /\ wholeSecond(familyRevokedAt) \in Nat
          /\ wholeSecond(accessClock) \in Nat
          /\ wholeSecond(issuedAt[a]) <= wholeSecond(familyRevokedAt)
      BY <3>1, SecondMonotone
    <3>3. wholeSecond(accessClock) < wholeSecond(issuedAt[a]) + AccessLifetime
      BY <2>2 DEF validate, exp
    <3> QED
      BY <3>2, <3>3, AccessTokensAssumption
  <2> QED
    BY <2>1, <2>2 DEF LoggedOutStaysOut
<1> QED
  BY <1>1, AccessInitIInv, AccessNextIInv, PTL DEF AccessSpec

----------------------------------------------------------------------------
(* SignedUrls *)

ViewerRecord == [step : {"idle", "signing", "storing"}, since : Nat, expiresAt : Nat, ttl : Nat]

(* A view that signs has not timed out; one that stores has a TTL of at    *)
(* most half of what was left of its URL when it was signed.               *)
ViewerOK(w, clock) ==
    /\ w.step \in {"signing", "storing"} => w.since <= clock
    /\ w.step = "signing" =>
           clock <= w.since + SigningTimeout /\ w.expiresAt = w.since + UrlLifetime
    /\ w.step = "storing" =>
           /\ UrlLifetime - SigningTimeout <= w.expiresAt - w.since
           /\ 2 * (w.ttl * TicksPerSecond) <= w.expiresAt - w.since

(* When its key goes, a cached URL still has half of that.                 *)
UrlOK(url, clock) ==
    url # NoUrl =>
        /\ clock <= url.until
        /\ UrlLifetime - SigningTimeout <= 2 * (url.expiresAt - url.until + url.lag)

SignedUrlsIInv ==
    /\ urlClock \in Nat
    /\ cachedUrl \in [expiresAt : Nat, until : Nat, lag : Nat]
    /\ viewer \in [Viewer -> ViewerRecord]
    /\ UrlOK(cachedUrl, urlClock)
    /\ \A v \in Viewer : ViewerOK(viewer[v], urlClock)

LEMMA SignedUrlsInitIInv == SignedUrlsInit => SignedUrlsIInv
BY DEF SignedUrlsInit, SignedUrlsIInv, ViewerRecord, ViewerOK, UrlOK, NoUrl, IdleViewer

(* The steps that change one view and not the cache.                       *)
LEMMA ViewerMoves ==
    ASSUME SignedUrlsIInv, NEW v \in Viewer, NEW w \in ViewerRecord,
           ViewerOK(w, urlClock), viewer' = [viewer EXCEPT ![v] = w],
           UNCHANGED <<urlClock, cachedUrl>>
    PROVE  SignedUrlsIInv'
BY DEF SignedUrlsIInv

LEMMA IdleViewerOK ==
    /\ IdleViewer \in ViewerRecord
    /\ \A c \in Nat : ViewerOK(IdleViewer, c)
BY DEF IdleViewer, ViewerRecord, ViewerOK

LEMMA SignedUrlsNextIInv ==
    SignedUrlsIInv /\ [SignedUrlsNext]_signedUrlVars => SignedUrlsIInv'
<1> SUFFICES ASSUME SignedUrlsIInv, [SignedUrlsNext]_signedUrlVars
             PROVE  SignedUrlsIInv'
  OBVIOUS
<1> USE SignedUrlsAssumption, TicksPerSecondAssumption DEF SignedUrlsIInv
<1>1. ASSUME NEW v \in Viewer, createSignedReadUrl(v)
      PROVE  SignedUrlsIInv'
  <2> DEFINE w == [IdleViewer EXCEPT !.step = "signing", !.since = urlClock,
                                     !.expiresAt = urlClock + UrlLifetime]
  <2>1. w \in ViewerRecord /\ ViewerOK(w, urlClock)
    <3>1. urlClock \in Nat /\ urlClock + UrlLifetime \in Nat
      OBVIOUS
    <3>2. w \in ViewerRecord
      BY <3>1, IdleViewerOK DEF ViewerRecord
    <3>3. /\ w.step = "signing" /\ w.since = urlClock
          /\ w.expiresAt = urlClock + UrlLifetime
      BY <3>1, IdleViewerOK DEF ViewerRecord
    <3> HIDE DEF w
    <3> QED
      BY <3>2, <3>3 DEF ViewerOK
  <2>2. viewer' = [viewer EXCEPT ![v] = w] /\ UNCHANGED <<urlClock, cachedUrl>>
    BY <1>1 DEF createSignedReadUrl
  <2> HIDE DEF w
  <2> QED
    BY <2>1, <2>2, ViewerMoves
<1>2. ASSUME NEW v \in Viewer, SigningFails(v)
      PROVE  SignedUrlsIInv'
  BY <1>2, ViewerMoves, IdleViewerOK DEF SigningFails
<1>3. ASSUME NEW v \in Viewer, Signed(v)
      PROVE  SignedUrlsIInv'
  <2> DEFINE n == cacheTtlSeconds(v)
             d == viewer[v].expiresAt - urlClock
             w == [viewer[v] EXCEPT !.step = "storing", !.since = urlClock, !.ttl = n]
  <2>1. /\ viewer[v] \in ViewerRecord /\ viewer[v].step = "signing"
        /\ ViewerOK(viewer[v], urlClock) /\ UNCHANGED <<urlClock, cachedUrl>>
    BY <1>3 DEF Signed
  <2>2. viewer[v].expiresAt \in Nat /\ viewer[v].since \in Nat /\ d \in Int
    BY <2>1 DEF ViewerRecord
  <2>3. UrlLifetime - SigningTimeout <= d
    BY <2>1, <2>2 DEF ViewerOK
  <2>4. n \in Int /\ 2 * (n * TicksPerSecond) <= d
    <3>1. n = d \div (2 * TicksPerSecond)
      BY DEF cacheTtlSeconds
    <3> HIDE DEF n, d
    <3>2. n \in Int
      BY <2>2, <3>1
    <3> QED
      BY <2>2, <3>1, <3>2, HalfInSeconds
  <2>5. viewer' = [viewer EXCEPT ![v] = IF n > 0 THEN w ELSE IdleViewer]
    BY <1>3 DEF Signed
  <2>6. ASSUME n > 0
        PROVE  w \in ViewerRecord /\ ViewerOK(w, urlClock)
    <3>1. n \in Nat
      BY <2>4, <2>6
    <3>2. /\ w \in ViewerRecord
          /\ w.step = "storing" /\ w.since = urlClock /\ w.ttl = n
          /\ w.expiresAt = viewer[v].expiresAt
      BY <2>1, <3>1 DEF ViewerRecord
    <3> HIDE DEF w, n
    <3> QED
      BY <2>3, <2>4, <3>2 DEF ViewerOK
  <2> HIDE DEF n, d, w
  <2>7. CASE n > 0
    BY <2>1, <2>5, <2>6, <2>7, ViewerMoves
  <2>8. CASE ~(n > 0)
    BY <2>1, <2>5, <2>8, ViewerMoves, IdleViewerOK
  <2> QED
    BY <2>7, <2>8
<1>4. ASSUME NEW v \in Viewer, storeUrl(v)
      PROVE  SignedUrlsIInv'
  <2> DEFINE s == viewer[v].ttl * TicksPerSecond
             url == [expiresAt |-> viewer[v].expiresAt, until |-> urlClock + s,
                     lag |-> urlClock - viewer[v].since]
  <2>1. /\ viewer[v] \in ViewerRecord /\ viewer[v].step = "storing"
        /\ ViewerOK(viewer[v], urlClock)
    BY <1>4 DEF storeUrl
  <2>2. /\ viewer[v].expiresAt \in Nat /\ viewer[v].since \in Nat /\ s \in Nat
        /\ viewer[v].since <= urlClock
        /\ UrlLifetime - SigningTimeout <= viewer[v].expiresAt - viewer[v].since
        /\ 2 * s <= viewer[v].expiresAt - viewer[v].since
    BY <2>1 DEF ViewerRecord, ViewerOK
  <2>3. /\ cachedUrl' \in {url, cachedUrl}
        /\ viewer' = [viewer EXCEPT ![v] = IdleViewer] /\ urlClock' = urlClock
    BY <1>4 DEF storeUrl
  <2> HIDE DEF s
  <2>4. url \in [expiresAt : Nat, until : Nat, lag : Nat] /\ UrlOK(url, urlClock)
    BY <2>2 DEF UrlOK
  <2> HIDE DEF url
  <2> QED
    BY <2>3, <2>4, IdleViewerOK
<1>5. CASE UrlTick
  <2>1. /\ urlClock' = urlClock + 1 /\ viewer' = viewer
        /\ cachedUrl' = IF cachedUrl.until <= urlClock + 1 THEN NoUrl ELSE cachedUrl
    BY <1>5 DEF UrlTick
  <2>2. UrlOK(cachedUrl', urlClock') /\ cachedUrl' \in [expiresAt : Nat, until : Nat, lag : Nat]
    BY <2>1 DEF UrlOK, NoUrl
  <2>3. ASSUME NEW v \in Viewer
        PROVE  ViewerOK(viewer[v], urlClock + 1)
    <3>1. viewer[v] \in ViewerRecord /\ ViewerOK(viewer[v], urlClock)
      OBVIOUS
    <3>2. viewer[v].step = "signing" => urlClock < viewer[v].since + SigningTimeout
      BY <1>5 DEF UrlTick
    <3> QED
      BY <3>1, <3>2 DEF ViewerOK, ViewerRecord
  <2> QED
    BY <2>1, <2>2, <2>3
<1>6. CASE UNCHANGED signedUrlVars
  BY <1>6 DEF signedUrlVars
<1> QED
  BY <1>1, <1>2, <1>3, <1>4, <1>5, <1>6 DEF SignedUrlsNext

(* Whichever of several views stored it last, a cached URL is served with  *)
(* half of what was left when it was signed, less the time its SET took    *)
(* (signed-read-url-cache.service.ts).                                     *)
THEOREM UrlsKeepHalf == SignedUrlsSpec => []CachedUrlsKeepHalf
<1>1. SignedUrlsIInv => CachedUrlsKeepHalf
  BY SignedUrlsAssumption DEF SignedUrlsIInv, UrlOK, CachedUrlsKeepHalf
<1> QED
  BY <1>1, SignedUrlsInitIInv, SignedUrlsNextIInv, PTL DEF SignedUrlsSpec

----------------------------------------------------------------------------
(* DeviceTokens *)

(* Whoever is about to update without being an administrator was entitled  *)
(* when the row was looked up, still is, and can only name themselves.     *)
UpdatesOK ==
    \A r \in Registration :
        LET by == registration[r]
        IN  /\ by.step = "create" => by.userId \in Person
            /\ by.step = "update" =>
                   /\ deviceRow.state # "absent"
                   /\ by.actor \notin Administrator =>
                          by.actor \in entitled /\ by.userId \in {Nobody, by.actor}

DeviceTokensIInv == DeviceTokensTypeOK /\ UpdatesOK /\ OwnerIsEntitled

LEMMA DeviceTokensInitIInv == DeviceTokensInit => DeviceTokensIInv
BY DEF DeviceTokensInit, DeviceTokensIInv, DeviceTokensTypeOK, UpdatesOK, OwnerIsEntitled,
       IdleRegistration

LEMMA DeviceTokensNextIInv ==
    DeviceTokensIInv /\ [DeviceTokensNext]_deviceTokenVars => DeviceTokensIInv'
<1> SUFFICES ASSUME DeviceTokensIInv, [DeviceTokensNext]_deviceTokenVars
             PROVE  DeviceTokensIInv'
  OBVIOUS
<1> USE DeviceTokensAssumption DEF DeviceTokensIInv, DeviceTokensTypeOK
<1>1. ASSUME NEW r \in Registration, NEW actor \in Person, NEW userId \in Person,
             beginCreate(r, actor, userId)
      PROVE  DeviceTokensIInv'
  BY <1>1 DEF beginCreate, Register, UpdatesOK, OwnerIsEntitled
<1>2. ASSUME NEW r \in Registration, NEW actor \in Person, NEW userId \in Person \union {Nobody},
             beginUpdate(r, actor, userId)
      PROVE  DeviceTokensIInv'
  BY <1>2 DEF beginUpdate, Register, Reaches, UpdatesOK, OwnerIsEntitled
<1>3. ASSUME NEW r \in Registration, NEW actor \in Person, beginRemove(r, actor)
      PROVE  DeviceTokensIInv'
  BY <1>3 DEF beginRemove, Register, UpdatesOK, OwnerIsEntitled
<1>4. ASSUME NEW r \in Registration, createToken(r)
      PROVE  DeviceTokensIInv'
  BY <1>4 DEF createToken, Answer, IdleRegistration, UpdatesOK, OwnerIsEntitled
<1>5. ASSUME NEW r \in Registration, updateToken(r)
      PROVE  DeviceTokensIInv'
  BY <1>5 DEF updateToken, Answer, IdleRegistration, UpdatesOK, OwnerIsEntitled
<1>6. ASSUME NEW r \in Registration, removeToken(r)
      PROVE  DeviceTokensIInv'
  BY <1>6 DEF removeToken, Answer, IdleRegistration, UpdatesOK, OwnerIsEntitled
<1>7. CASE UNCHANGED deviceTokenVars
  BY <1>7 DEF deviceTokenVars, UpdatesOK, OwnerIsEntitled
<1> QED
  BY <1>1, <1>2, <1>3, <1>4, <1>5, <1>6, <1>7 DEF DeviceTokensNext

(* Notifications only ever go to someone who registered the token or was   *)
(* given it by an administrator, however lookups and writes of the row     *)
(* interleave (device-tokens.service.ts: update).                          *)
THEOREM OwnersEntitled == DeviceTokensSpec => [](DeviceTokensTypeOK /\ OwnerIsEntitled)
<1>1. DeviceTokensIInv => DeviceTokensTypeOK /\ OwnerIsEntitled
  BY DEF DeviceTokensIInv
<1> QED
  BY <1>1, DeviceTokensInitIInv, DeviceTokensNextIInv, PTL DEF DeviceTokensSpec

----------------------------------------------------------------------------
(* The bot check and its circuit breaker *)

(* A breaker that is not closed has counted FailureThreshold no-answers,   *)
(* and nothing it remembers lies in the future but the end of its window.  *)
BreakerOK(b, now) ==
    /\ b.failures \in Nat
    /\ b.lastFailure \in Nat \union {NotYet}
    /\ b.openUntil \in Nat \union {NotYet}
    /\ b.lastFailure # NotYet => b.lastFailure <= now
    /\ b.openUntil # NotYet =>
           /\ b.lastFailure # NotYet
           /\ b.openUntil <= now + OpenWindow
           /\ FailureThreshold <= b.failures

(* No call outlives its time-out. *)
CallsOK(asked, now) ==
    /\ asked \in [Asker -> Nat \union {NotYet}]
    /\ \A r \in Asker : asked[r] # NotYet => asked[r] <= now /\ now <= asked[r] + AskTimeout

(* No window outlasts a recovery by more than a call's time-out. *)
RecoveryOK(b, healthy, waived, now) ==
    /\ healthy \in Nat \union {NotYet}
    /\ waived \in Nat \union {NotYet}
    /\ healthy # NotYet => healthy <= now
    /\ waived # NotYet => waived <= now
    /\ (healthy # NotYet /\ waived # NotYet) => waived < healthy + AskTimeout + OpenWindow
    /\ (healthy # NotYet /\ b.openUntil # NotYet) =>
           b.openUntil <= healthy + AskTimeout + OpenWindow

TurnstileIInv ==
    /\ botClock \in Nat
    /\ BreakerOK(breaker, botClock)
    /\ CallsOK(askedAt, botClock)
    /\ RecoveryOK(breaker, healthySince, waivedAt, botClock)

(* The constants' types, and what NotYet is not. *)
LEMMA TurnstileConstants ==
    /\ FailureThreshold \in Nat \ {0}
    /\ OpenWindow \in Nat \ {0}
    /\ AskTimeout \in Nat \ {0}
    /\ NotYet \notin Nat
BY TurnstileAssumption

LEMMA TurnstileInitIInv == TurnstileInit => TurnstileIInv
BY TurnstileConstants DEF TurnstileInit, TurnstileIInv, BreakerOK, CallsOK, RecoveryOK, Closed

(* What recordProviderFailure leaves: a breaker that opened for a whole     *)
(* window, or one that is still closed. An open breaker never starts over. *)
LEMMA FailureRecorded ==
    ASSUME TurnstileIInv, recordProviderFailure
    PROVE  /\ BreakerOK(breaker', botClock)
           /\ breaker'.openUntil = IF Opens(breaker'.failures) THEN botClock + OpenWindow
                                   ELSE NotYet
           /\ \/ breaker'.failures = breaker.failures + 1
              \/ breaker'.failures = 1 /\ ~shouldBypass
<1>1. botClock \in Nat /\ BreakerOK(breaker, botClock)
  BY DEF TurnstileIInv
<1>2. breaker' = [failures |-> Remembered.failures + 1, lastFailure |-> botClock,
                  openUntil |-> IF Opens(Remembered.failures + 1) THEN botClock + OpenWindow
                                ELSE Remembered.openUntil]
  BY DEF recordProviderFailure, OpenUntil
<1>3. CASE Remembered = breaker
  BY <1>1, <1>2, <1>3, TurnstileConstants DEF BreakerOK, Opens
<1>4. CASE Remembered = Closed /\ Remembered # breaker
  <2>1. breaker.lastFailure # NotYet /\ botClock - LastEvidence > FailureMemory
    BY <1>4 DEF Remembered
  <2>2. FailureMemory \in Nat
    BY TurnstileConstants DEF FailureMemory
  <2>3. ~shouldBypass
    BY <1>1, <2>1, <2>2, TurnstileConstants DEF LastEvidence, shouldBypass, BreakerOK
  <2>4. Remembered.failures = 0 /\ Remembered.openUntil = NotYet
    BY <1>4 DEF Closed
  <2> QED
    BY <1>1, <1>2, <2>3, <2>4, TurnstileConstants DEF BreakerOK, Opens
<1> QED
  BY <1>3, <1>4 DEF Remembered

LEMMA TurnstileNextIInv == TurnstileIInv /\ [TurnstileNext]_turnstileVars => TurnstileIInv'
<1> SUFFICES ASSUME TurnstileIInv, [TurnstileNext]_turnstileVars
             PROVE  TurnstileIInv'
  OBVIOUS
<1> USE TurnstileConstants DEF TurnstileIInv
<1>1. CASE RefuseToken
  BY <1>1 DEF RefuseToken
<1>2. CASE Bypass
  BY <1>2 DEF Bypass, recordBypass, shouldBypass, RecoveryOK, BreakerOK
<1>3. ASSUME NEW r \in Asker, callSiteverify(r)
      PROVE  TurnstileIInv'
  BY <1>3 DEF callSiteverify, CallsOK
<1>4. ASSUME NEW r \in Asker, Answered(r)
      PROVE  TurnstileIInv'
  <2>1. BreakerOK(breaker', botClock) /\ breaker'.openUntil = NotYet
    BY <1>4 DEF Answered, recordProviderSuccess, Closed, BreakerOK
  <2>2. CallsOK(askedAt', botClock)
    BY <1>4 DEF Answered, CallsOK
  <2> QED
    BY <1>4, <2>1, <2>2 DEF Answered, RecoveryOK
<1>5. ASSUME NEW r \in Asker, handleNoAnswer(r)
      PROVE  TurnstileIInv'
  <2>1. BreakerOK(breaker', botClock) /\ breaker'.openUntil \in {NotYet, botClock + OpenWindow}
    BY <1>5, FailureRecorded DEF handleNoAnswer
  <2>2. CallsOK(askedAt', botClock)
    BY <1>5 DEF handleNoAnswer, CallsOK
  <2>3. healthySince # NotYet => botClock <= healthySince + AskTimeout
    BY <1>5 DEF handleNoAnswer, CallsOK, RecoveryOK
  <2>4. waivedAt' \in {waivedAt, botClock} /\ healthySince' = healthySince
    BY <1>5 DEF handleNoAnswer, recordBypass
  <2>5. RecoveryOK(breaker', healthySince', waivedAt', botClock)
    BY <2>1, <2>3, <2>4 DEF RecoveryOK
  <2> QED
    BY <1>5, <2>1, <2>2, <2>5 DEF handleNoAnswer
<1>6. CASE ProviderFails
  BY <1>6 DEF ProviderFails, RecoveryOK
<1>7. CASE ProviderRecovers
  BY <1>7 DEF ProviderRecovers, RecoveryOK, BreakerOK
<1>8. CASE BotTick
  BY <1>8 DEF BotTick, BreakerOK, CallsOK, RecoveryOK
<1>9. CASE UNCHANGED turnstileVars
  BY <1>9 DEF turnstileVars
<1> QED
  BY <1>1, <1>2, <1>3, <1>4, <1>5, <1>6, <1>7, <1>8, <1>9 DEF TurnstileNext

LEMMA TurnstileInvariance == TurnstileSpec => []TurnstileIInv
BY TurnstileInitIInv, TurnstileNextIInv, PTL DEF TurnstileSpec

(* No request passes unchecked a window and a time-out after the provider  *)
(* is back, whatever calls of the outage fail late (turnstile.service.ts:   *)
(* the fail-open path).                                                    *)
THEOREM BypassBounded == TurnstileSpec => []BypassIsBounded
<1>1. TurnstileIInv => BypassIsBounded
  BY DEF TurnstileIInv, RecoveryOK, BypassIsBounded
<1> QED
  BY <1>1, TurnstileInvariance, PTL

----------------------------------------------------------------------------
(* Refinement. The abstract state that Breaker, the instance of             *)
(* CircuitBreaker in Turnstile, is given.                                  *)
Phase == IF breaker.openUntil = NotYet THEN "closed"
         ELSE IF botClock < breaker.openUntil THEN "open" ELSE "halfOpen"

Failures == IF breaker.failures < FailureThreshold THEN breaker.failures
            ELSE FailureThreshold

LEMMA BreakerInitRefines == TurnstileInit => Breaker!Init
BY TurnstileConstants DEF TurnstileInit, Closed, Breaker!Init

(* A no-answer is Fail, or FailAfterQuiet where the breaker starts over.   *)
LEMMA NoAnswerRefines ==
    ASSUME TurnstileIInv, NEW r \in Asker, handleNoAnswer(r)
    PROVE  Breaker!Fail \/ Breaker!FailAfterQuiet
<1>1. /\ botClock \in Nat /\ botClock' = botClock
      /\ BreakerOK(breaker, botClock) /\ BreakerOK(breaker', botClock)
      /\ breaker'.openUntil = IF Opens(breaker'.failures) THEN botClock + OpenWindow ELSE NotYet
  BY FailureRecorded DEF TurnstileIInv, handleNoAnswer
<1>2. IF Opens(breaker'.failures) THEN decision' \in {"waived", "refused"}
      ELSE decision' = "refused"
  BY DEF handleNoAnswer, recordBypass
<1>3. IF Failures' = FailureThreshold
      THEN Phase' = "open" /\ decision' \in {"waived", "refused"}
      ELSE Phase' = "closed" /\ decision' = "refused"
  BY <1>1, <1>2, TurnstileConstants DEF Phase, Failures, Opens, BreakerOK
<1>4. CASE breaker'.failures = breaker.failures + 1
  <2>1. Failures' = IF Failures + 1 < FailureThreshold THEN Failures + 1 ELSE FailureThreshold
    BY <1>1, <1>4, TurnstileConstants DEF Failures, BreakerOK
  <2> QED
    BY <1>3, <2>1 DEF Phase, Failures, Breaker!Fail, Breaker!OneMore
<1>5. CASE breaker'.failures = 1 /\ ~shouldBypass
  <2>1. Failures' = 1
    BY <1>5, TurnstileConstants DEF Failures
  <2>2. Phase # "open"
    BY <1>5 DEF Phase, shouldBypass
  <2> QED
    BY <1>3, <2>1, <2>2 DEF Phase, Failures, Breaker!FailAfterQuiet
<1> QED
  BY <1>4, <1>5, FailureRecorded DEF handleNoAnswer

LEMMA BreakerNextRefines ==
    TurnstileIInv /\ [TurnstileNext]_turnstileVars
        => [Breaker!Next]_<<Phase, Failures, decision>>
<1> SUFFICES ASSUME TurnstileIInv, [TurnstileNext]_turnstileVars
             PROVE  Breaker!Next \/ UNCHANGED <<Phase, Failures, decision>>
  OBVIOUS
<1>1. CASE RefuseToken
  BY <1>1 DEF RefuseToken, Breaker!Next, Breaker!Refuse
<1>2. CASE Bypass
  BY <1>2 DEF Bypass, recordBypass, shouldBypass, Breaker!Next, Breaker!Waive
<1>3. ASSUME NEW r \in Asker, callSiteverify(r)
      PROVE  UNCHANGED <<Phase, Failures, decision>>
  BY <1>3 DEF callSiteverify, Phase, Failures
<1>4. ASSUME NEW r \in Asker, Answered(r)
      PROVE  Breaker!Next
  BY <1>4, TurnstileConstants
     DEF Answered, recordProviderSuccess, Closed, Breaker!Next, Breaker!Verdict
<1>5. ASSUME NEW r \in Asker, handleNoAnswer(r)
      PROVE  Breaker!Next
  BY <1>5, NoAnswerRefines DEF Breaker!Next
<1>6. CASE ProviderFails \/ ProviderRecovers
  BY <1>6 DEF ProviderFails, ProviderRecovers, Phase, Failures
<1>7. CASE BotTick
  <2>1. botClock \in Nat /\ botClock' = botClock + 1 /\ UNCHANGED <<breaker, decision>>
    BY <1>7 DEF BotTick, TurnstileIInv
  <2>2. Failures' = Failures /\ (Phase' = Phase \/ (Phase = "open" /\ Phase' = "halfOpen"))
    BY <2>1 DEF Phase, Failures, TurnstileIInv, BreakerOK
  <2> QED
    BY <2>1, <2>2 DEF Phase, Failures, Breaker!Next, Breaker!Elapse
<1>8. CASE UNCHANGED turnstileVars
  BY <1>8 DEF turnstileVars, Phase, Failures
<1> QED
  BY <1>1, <1>2, <1>3, <1>4, <1>5, <1>6, <1>7, <1>8 DEF TurnstileNext

(* The breaker with its timestamps, its memory and its late calls does     *)
(* what its header promises: every behaviour of Turnstile is one of        *)
(* CircuitBreaker (turnstile-circuit-breaker.ts).                          *)
THEOREM BreakerRefined == TurnstileSpec => ImplementsBreaker
BY BreakerInitRefines, BreakerNextRefines, TurnstileInvariance, PTL
   DEF TurnstileSpec, ImplementsBreaker, Breaker!Spec, Phase, Failures

----------------------------------------------------------------------------
(* The releases clients are told about *)

(* AppVersions: a request under way, by its kind, and what it has checked. A  *)
(* request no other overlapped is alone, and the row it read is the row.      *)
EditOK(e) ==
    LET w == edit[e]
    IN  /\ w.step # "idle" => w.row \in AppRelease /\ w.kind # "none"
        /\ w.step = "check" => w.kind # "remove"
        /\ w.step # "idle" /\ w.kind # "remove" => w.form \in Forms
        /\ w.step # "idle" /\ w.kind = "create" =>
               /\ w.form.platform # Absent /\ w.form.version # Absent
               /\ TrainAccepted(w.form.platform, w.form.deviceOs)
        /\ w.step # "idle" /\ w.kind = "update" =>
               /\ w.existing # NoAppVersion
               /\ isReleaseTrainAffected(w.form) =>
                      TrainAccepted(Given(w.form.platform, w.existing.platform), w.form.deviceOs)

AloneOK(e) ==
    LET w == edit[e]
    IN  w.step # "idle" /\ ~w.crossed =>
            /\ \A d \in Editor \ {e} : edit[d].step = "idle"
            /\ w.existing = appVersion[w.row]
            /\ w.step = "write" /\ w.kind # "remove" => ~Clashes(e)

AppVersionsIInv ==
    /\ AppVersionsTypeOK
    /\ \A e \in Editor : EditOK(e)
    /\ \A e \in Editor : AloneOK(e)
    /\ OneRowPerRelease

(* There is nothing to begin with. *)
LEMMA AppVersionsBegin == AppVersionsInit => AppVersionsIInv
BY AppVersionsAssumption
DEF AppVersionsInit, AppVersionsIInv, AppVersionsTypeOK, EditOK, AloneOK, OneRowPerRelease,
    IdleEdit

(* The row a request works with, and the row it stores, are rows. *)
LEMMA RowsTyped ==
    ASSUME AppVersionsIInv, NEW e \in Editor, edit[e].step = "write", edit[e].kind # "remove"
    PROVE  /\ Written(e) \in AppVersionRow
           /\ edit[e].kind = "update" /\ appVersion[edit[e].row] # NoAppVersion
                  => Stored(e) \in AppVersionRow
           /\ edit[e].kind = "create" => Stored(e) = Written(e)
<1> DEFINE w == edit[e]
<1>1. /\ w.form \in Form /\ w.kind \in {"create", "update"} /\ w.row \in AppRelease
      /\ w.form.platform \in Platform \union {Absent}
      /\ w.form.deviceOs \in DeviceOs \union {Absent}
      /\ w.form.version \in Patched \union {Absent}
  BY FormsAssumption DEF AppVersionsIInv, AppVersionsTypeOK, EditOK, Form
<1>2. CASE w.kind = "create"
  BY <1>1, <1>2 DEF AppVersionsIInv, EditOK, Written, Stored, resolveDeviceOs, AppVersionRow
<1>3. CASE w.kind = "update"
  <2>1. w.existing \in AppVersionRow
    BY <1>3 DEF AppVersionsIInv, AppVersionsTypeOK, EditOK
  <2>2. Written(e) \in AppVersionRow
    BY <1>1, <1>3, <2>1 DEF Written, Effective, Given, resolveDeviceOs, AppVersionRow
  <2>3. ASSUME appVersion[w.row] # NoAppVersion
        PROVE  Stored(e) \in AppVersionRow
    <3>1. appVersion[w.row] \in AppVersionRow
      BY <1>1, <2>3 DEF AppVersionsIInv, AppVersionsTypeOK
    <3> QED
      BY <1>1, <1>3, <2>2, <3>1 DEF Stored, Given, AppVersionRow
  <2> QED
    BY <1>3, <2>2, <2>3
<1> QED
  BY <1>1, <1>2, <1>3

(* A train a body was accepted with is one.                                 *)
LEMMA AcceptedTrain ==
    ASSUME NEW p \in Platform, NEW os \in DeviceOs \union {Absent}, TrainAccepted(p, os)
    PROVE  <<p, resolveDeviceOs(p, os)>> \in Trains
BY DEF TrainAccepted, resolveDeviceOs, isSingleDistributionPlatform, Trains

(* A request that begins marks whoever it overlaps. *)
LEMMA BeginKeeps ==
    ASSUME AppVersionsIInv, NEW e \in Editor, NEW r \in AppRelease,
           NEW kind \in {"create", "update", "remove"}, NEW form \in Forms \union {NoAppVersion},
           Begin(e, kind, r, form),
           kind # "remove" => form \in Forms,
           kind = "create" => /\ form.platform # Absent /\ form.version # Absent
                              /\ TrainAccepted(form.platform, form.deviceOs),
           kind = "update" => /\ appVersion[r] # NoAppVersion
                              /\ isReleaseTrainAffected(form) =>
                                   TrainAccepted(Given(form.platform, appVersion[r].platform),
                                                 form.deviceOs)
    PROVE  AppVersionsIInv'
<1> USE DEF AppVersionsIInv
<1> DEFINE new == [kind |-> kind, step |-> IF kind = "remove" THEN "write" ELSE "check",
                   row |-> r, form |-> form, existing |-> appVersion[r],
                   crossed |-> \E o \in Editor \ {e} : edit[o].step # "idle"]
<1>1. /\ edit[e].step = "idle" /\ UNCHANGED <<appVersion, overlapped>>
      /\ edits' \in 0 .. MaxEdits
      /\ edit'[e] = new
      /\ \A d \in Editor \ {e} : edit'[d] = [edit[d] EXCEPT !.crossed = edit[d].step # "idle"]
      /\ edit' = [d \in Editor |-> IF d = e THEN new
                     ELSE [edit[d] EXCEPT !.crossed = edit[d].step # "idle"]]
  BY AppVersionsAssumption DEF Begin, AppVersionsTypeOK
<1>2. AppVersionsTypeOK'
  <2>1. appVersion[r] \in AppVersionRow \union {NoAppVersion}
    BY DEF AppVersionsTypeOK
  <2> DEFINE Edit == [kind : {"none", "create", "update", "remove"},
                      step : {"idle", "check", "write"},
                      row : AppRelease \union {NoAppVersion},
                      form : Forms \union {NoAppVersion},
                      existing : AppVersionRow \union {NoAppVersion},
                      crossed : BOOLEAN]
  <2>2. new \in Edit
    BY <2>1
  <2>3. \A d \in Editor \ {e} : [edit[d] EXCEPT !.crossed = edit[d].step # "idle"] \in Edit
    BY DEF AppVersionsTypeOK
  <2>4. edit' \in [Editor -> Edit]
    BY <1>1, <2>2, <2>3
  <2> QED
    BY <1>1, <2>4 DEF AppVersionsTypeOK
<1>3. \A d \in Editor : EditOK(d)'
  BY <1>1 DEF EditOK, AppVersionsTypeOK
<1>4. \A d \in Editor : AloneOK(d)'
  <2>1. ASSUME ~edit'[e].crossed
        PROVE  \A d \in Editor \ {e} : edit'[d].step = "idle"
    <3>1. \A d \in Editor \ {e} : edit[d].step = "idle"
      BY <1>1, <2>1
    <3>2. \A d \in Editor \ {e} : edit'[d].step = edit[d].step
      BY <1>1 DEF AppVersionsTypeOK
    <3> QED
      BY <3>1, <3>2
  <2>2. AloneOK(e)'
    BY <1>1, <2>1 DEF AloneOK
  <2>3. \A d \in Editor \ {e} : edit'[d].step # "idle" => edit'[d].crossed
    <3> TAKE d \in Editor \ {e}
    <3>1. edit'[d].step = edit[d].step
      BY <1>1 DEF AppVersionsTypeOK
    <3>2. CASE edit[d].step # "idle"
      <4>1. edit'[d] = [edit[d] EXCEPT !.crossed = TRUE]
        BY <1>1, <3>2
      <4> QED
        BY <4>1 DEF AppVersionsTypeOK
    <3> QED
      BY <3>1, <3>2
  <2> QED
    BY <2>2, <2>3 DEF AloneOK
<1>5. OneRowPerRelease'
  BY <1>1 DEF OneRowPerRelease
<1> QED
  BY <1>2, <1>3, <1>4, <1>5

(* INSERT and UPDATE: what a request that was alone stores has no twin and is of a
   train; what another stores the index has let through. *)
LEMMA WriteKeeps ==
    ASSUME AppVersionsIInv, NEW e \in Editor, Write(e)
    PROVE  AppVersionsIInv'
<1> USE DEF AppVersionsIInv
<1> DEFINE w == edit[e]
           r == w.row
<1>1. /\ w.step = "write" /\ w.kind \in {"create", "update"} /\ r \in AppRelease
      /\ edit' = [edit EXCEPT ![e] = IdleEdit] /\ edits' = edits
      /\ w.form \in Form
  BY FormsAssumption DEF Write, End, AppVersionsTypeOK, EditOK
<1>2. /\ edit' \in [Editor -> [kind : {"none", "create", "update", "remove"},
                               step : {"idle", "check", "write"},
                               row : AppRelease \union {NoAppVersion},
                               form : Forms \union {NoAppVersion},
                               existing : AppVersionRow \union {NoAppVersion},
                               crossed : BOOLEAN]]
      /\ edit'[e].step = "idle"
      /\ \A d \in Editor \ {e} : edit'[d] = edit[d]
  BY <1>1 DEF AppVersionsTypeOK, IdleEdit
<1>3. \A d \in Editor : EditOK(d)'
  BY <1>2 DEF EditOK
<1>4. \A d \in Editor : AloneOK(d)'
  BY <1>1, <1>2 DEF AloneOK
<1>5. CASE UNCHANGED <<appVersion, overlapped>>
  BY <1>1, <1>2, <1>3, <1>4, <1>5 DEF AppVersionsTypeOK, OneRowPerRelease
<1>6. CASE ~UNCHANGED <<appVersion, overlapped>>
  <2>1. /\ w.kind = "update" => appVersion[r] # NoAppVersion
        /\ ~UniqueIndexRefuses(e)
        /\ appVersion' = [appVersion EXCEPT ![r] = Stored(e)]
        /\ overlapped' = IF w.crossed THEN overlapped \union {r} ELSE overlapped
    BY <1>6 DEF Write
  <2>2. Stored(e) \in AppVersionRow
    BY <1>1, <2>1, RowsTyped
  <2>3. AppVersionsTypeOK'
    BY <1>1, <1>2, <2>1, <2>2 DEF AppVersionsTypeOK
  <2>4. /\ appVersion'[r] = Stored(e)
        /\ \A q \in AppRelease \ {r} : appVersion'[q] = appVersion[q]
        /\ overlapped \subseteq overlapped'
    BY <1>1, <2>1 DEF AppVersionsTypeOK
  <2>5. ASSUME ~w.crossed
        PROVE  /\ Stored(e) = Written(e)
               /\ <<Stored(e).platform, Stored(e).deviceOs>> \in Trains \/ r \in overlapped
               /\ \A q \in AppRelease \ {r} : appVersion[q] # Stored(e)
    <3>1. w.existing = appVersion[r] /\ ~Clashes(e)
      BY <1>1, <2>5 DEF AloneOK
    <3>2. CASE w.kind = "create"
      <4>1. /\ TrainAccepted(w.form.platform, w.form.deviceOs)
            /\ w.form.platform \in Platform /\ w.form.deviceOs \in DeviceOs \union {Absent}
        BY <1>1, <3>2 DEF EditOK, Form
      <4>2. <<w.form.platform, resolveDeviceOs(w.form.platform, w.form.deviceOs)>> \in Trains
        BY <4>1, AcceptedTrain
      <4> QED
        BY <3>1, <3>2, <4>2 DEF Stored, Written, Clashes
    <3>3. CASE w.kind = "update"
      <4>1. /\ appVersion[r] # NoAppVersion /\ appVersion[r] \in AppVersionRow
            /\ appVersion[r].platform \in Platform
        BY <1>1, <2>1, <3>3 DEF AppVersionsTypeOK, AppVersionRow
      <4>2. Stored(e) = Written(e)
        BY <3>1, <3>3, <4>1 DEF Stored, Written, Effective
      <4>3. CASE isReleaseTrainAffected(w.form)
        <5> DEFINE p == Given(w.form.platform, appVersion[r].platform)
        <5>1. /\ TrainAccepted(p, w.form.deviceOs)
              /\ p \in Platform /\ w.form.deviceOs \in DeviceOs \union {Absent}
          BY <1>1, <3>1, <3>3, <4>1, <4>3 DEF EditOK, Form, Given
        <5>2. <<p, resolveDeviceOs(p, w.form.deviceOs)>> \in Trains
          BY <5>1, AcceptedTrain
        <5>3. Stored(e).platform = p /\ Stored(e).deviceOs = resolveDeviceOs(p, w.form.deviceOs)
          BY <3>1, <3>3, <4>2, <4>3 DEF Written, Effective
        <5> QED
          BY <3>1, <4>2, <5>2, <5>3 DEF Clashes
      <4>4. CASE ~isReleaseTrainAffected(w.form)
        <5>1. /\ Stored(e).platform = appVersion[r].platform
              /\ Stored(e).deviceOs = appVersion[r].deviceOs
          BY <3>3, <4>4 DEF Stored, isReleaseTrainAffected, Given
        <5>2. <<appVersion[r].platform, appVersion[r].deviceOs>> \in Trains \/ r \in overlapped
          BY <1>1, <4>1 DEF OneRowPerRelease
        <5> QED
          BY <3>1, <4>2, <5>1, <5>2 DEF Clashes
      <4> QED
        BY <4>3, <4>4
    <3> QED
      BY <1>1, <3>2, <3>3
  <2>6. \A q \in AppRelease \ {r} : appVersion[q] = Stored(e) =>
            Stored(e).deviceOs = Absent /\ r \in overlapped'
    BY <2>1, <2>5 DEF UniqueIndexRefuses
  <2>7. <<Stored(e).platform, Stored(e).deviceOs>> \in Trains \/ r \in overlapped'
    BY <2>1, <2>5
  <2>8. OneRowPerRelease'
    BY <2>4, <2>6, <2>7 DEF OneRowPerRelease
  <2> QED
    BY <1>3, <1>4, <2>3, <2>8
<1> QED
  BY <1>5, <1>6

(* Every step keeps the invariant. *)
LEMMA AppVersionsKept == AppVersionsIInv /\ [AppVersionsNext]_appVersionVars => AppVersionsIInv'
<1> SUFFICES ASSUME AppVersionsIInv, [AppVersionsNext]_appVersionVars
             PROVE  AppVersionsIInv'
  OBVIOUS
<1> USE DEF AppVersionsIInv
<1>1. ASSUME NEW e \in Editor, NEW r \in AppRelease, NEW form \in Forms,
             create(e, r, form) \/ update(e, r, form)
      PROVE  AppVersionsIInv'
  BY <1>1, BeginKeeps DEF create, update
<1>2. ASSUME NEW e \in Editor, NEW r \in AppRelease, deleteVersion(e, r)
      PROVE  AppVersionsIInv'
  BY <1>2, BeginKeeps DEF deleteVersion
<1>3. ASSUME NEW e \in Editor, assertVersionAvailable(e)
      PROVE  AppVersionsIInv'
  <2>1. edit[e].step = "check" /\ UNCHANGED <<appVersion, edits, overlapped>>
    BY <1>3 DEF assertVersionAvailable
  <2>2. CASE Clashes(e)
    <3>1. edit' = [edit EXCEPT ![e] = IdleEdit]
      BY <1>3, <2>2 DEF assertVersionAvailable, End
    <3>2. AppVersionsTypeOK' /\ \A d \in Editor : EditOK(d)'
      BY <2>1, <3>1 DEF AppVersionsTypeOK, EditOK, IdleEdit
    <3>3. \A d \in Editor : AloneOK(d)'
      BY <2>1, <3>1 DEF AppVersionsTypeOK, AloneOK, IdleEdit, Clashes, Written
    <3> QED
      BY <2>1, <3>2, <3>3 DEF OneRowPerRelease
  <2>3. CASE ~Clashes(e)
    <3>1. edit' = [edit EXCEPT ![e].step = "write"]
      BY <1>3, <2>3 DEF assertVersionAvailable
    <3>2. AppVersionsTypeOK' /\ \A d \in Editor : EditOK(d)'
      BY <2>1, <3>1 DEF AppVersionsTypeOK, EditOK
    <3>3. \A d \in Editor : AloneOK(d)'
      BY <2>1, <2>3, <3>1 DEF AppVersionsTypeOK, AloneOK, Clashes, Written
    <3> QED
      BY <2>1, <3>2, <3>3 DEF OneRowPerRelease
  <2> QED
    BY <2>2, <2>3
<1>4. ASSUME NEW e \in Editor, Delete(e)
      PROVE  AppVersionsIInv'
  <2>1. /\ edit[e].step = "write" /\ edit[e].row \in AppRelease /\ UNCHANGED edits
        /\ appVersion' = [appVersion EXCEPT ![edit[e].row] = NoAppVersion]
        /\ overlapped' = overlapped \ {edit[e].row}
        /\ edit' = [edit EXCEPT ![e] = IdleEdit]
    BY <1>4 DEF Delete, End, EditOK
  <2>2. AppVersionsTypeOK' /\ \A d \in Editor : EditOK(d)'
    BY <2>1 DEF AppVersionsTypeOK, EditOK, IdleEdit
  <2>3. \A d \in Editor : AloneOK(d)'
    BY <2>1 DEF AppVersionsTypeOK, AloneOK, IdleEdit
  <2>4. OneRowPerRelease'
    BY <2>1 DEF OneRowPerRelease, AppVersionsTypeOK
  <2> QED
    BY <2>2, <2>3, <2>4
<1>5. CASE UNCHANGED appVersionVars
  BY <1>5 DEF appVersionVars, AppVersionsTypeOK, EditOK, AloneOK, Clashes, Written,
              OneRowPerRelease
<1> QED
  BY <1>1, <1>2, <1>3, <1>4, <1>5, WriteKeeps DEF AppVersionsNext

(* Requests of administrators that do not overlap leave every row in a train *)
(* and no release twice; the unique index holds wherever it applies, also    *)
(* under overlapping ones (AppVersionsService.create, update, delete).       *)
THEOREM ReleasesStayDistinct == AppVersionsSpec => [](AppVersionsTypeOK /\ OneRowPerRelease)
<1>1. AppVersionsIInv => AppVersionsTypeOK /\ OneRowPerRelease
  BY DEF AppVersionsIInv
<1> QED
  BY <1>1, AppVersionsBegin, AppVersionsKept, PTL DEF AppVersionsSpec
=============================================================================
