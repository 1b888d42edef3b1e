------------------------------ MODULE Turnstile ------------------------------
(***************************************************************************)
(* The bot check in front of sign-in, sign-up and every texted code, and   *)
(* its circuit breaker (common/turnstile). Requests that ask siteverify    *)
(* are under way together: their answers and time-outs reach the breaker   *)
(* in any order, up to AskTimeout after they began. One process, as the    *)
(* breaker's header says; the provider is external.                        *)
(***************************************************************************)
EXTENDS Integers

CONSTANTS
    Asker,          \* requests under way at once
    NotYet,
    FailureThreshold,    \* PROVIDER_FAILURE_THRESHOLD
    OpenWindow,     \* OPEN_WINDOW_MILLISECONDS
    AskTimeout,     \* REQUEST_TIMEOUT_MILLISECONDS
    MaxAsks,        \* bound: the calls of a behaviour
    BotClockEnd     \* bound: the instants of a behaviour

ASSUME TurnstileAssumption ==
    /\ FailureThreshold \in Nat \ {0}
    /\ OpenWindow \in Nat \ {0} /\ AskTimeout \in Nat \ {0}
    /\ MaxAsks \in Nat /\ BotClockEnd \in Nat
    /\ NotYet \notin Nat

VARIABLES
    breaker,        \* the fields of TurnstileCircuitBreaker
    askedAt,        \* when each call under way began, or NotYet
    botClock,       \* Date.now()
    healthySince,   \* the provider answers every call made after it; NotYet in an outage
    asks,           \* bound: MaxAsks
    decision,       \* history: what the last request was told
    waivedAt        \* history: when a request last passed unchecked

turnstileVars == <<breaker, askedAt, botClock, healthySince, asks, decision, waivedAt>>

FailureMemory == 2 * OpenWindow

BotInstant == 0 .. BotClockEnd

TurnstileTypeOK ==
    /\ breaker \in [failures : 0 .. MaxAsks, lastFailure : BotInstant \union {NotYet},
                    openUntil : (0 .. BotClockEnd + OpenWindow) \union {NotYet}]
    /\ askedAt \in [Asker -> BotInstant \union {NotYet}]
    /\ botClock \in BotInstant
    /\ healthySince \in BotInstant \union {NotYet}
    /\ asks \in 0 .. MaxAsks
    /\ decision \in {"none", "verified", "refused", "waived"}
    /\ waivedAt \in BotInstant \union {NotYet}

Closed == [failures |-> 0, lastFailure |-> NotYet, openUntil |-> NotYet]

TurnstileInit ==
    /\ breaker = Closed
    /\ askedAt = [r \in Asker |-> NotYet]
    /\ botClock = 0
    /\ healthySince = 0
    /\ asks = 0
    /\ decision = "none"
    /\ waivedAt = NotYet

----------------------------------------------------------------------------
(* TurnstileCircuitBreaker *)

shouldBypass == breaker.openUntil # NotYet /\ botClock < breaker.openUntil

(* The last failure, or the end of the window it opened. *)
LastEvidence ==
    IF breaker.openUntil # NotYet /\ breaker.openUntil > breaker.lastFailure
    THEN breaker.openUntil ELSE breaker.lastFailure

(* The breaker a no-answer is added to: one that is out of memory starts over. *)
Remembered ==
    IF breaker.lastFailure # NotYet /\ botClock - LastEvidence > FailureMemory
    THEN Closed ELSE breaker

(* mutant: a late no-answer prolongs the window that is open. *)
OpenUntil_Prolonged ==
    OpenWindow + (IF shouldBypass THEN breaker.openUntil ELSE botClock)

OpenUntil == botClock + OpenWindow

(* mutant: one no-answer too early. *)
Opens_Early(failures) == failures + 1 >= FailureThreshold

Opens(failures) == failures >= FailureThreshold

recordProviderFailure ==
    LET failures == Remembered.failures + 1
    IN  breaker' = [failures |-> failures, lastFailure |-> botClock,
                    openUntil |-> IF Opens(failures) THEN OpenUntil
                                  ELSE Remembered.openUntil]

recordProviderSuccess == breaker' = Closed

----------------------------------------------------------------------------
(* TurnstileGuard and TurnstileService.verify *)

(* A request passes unchecked once its audit row is written, or is refused. *)
recordBypass ==
    \/ decision' = "waived" /\ waivedAt' = botClock
    \/ decision' = "refused" /\ UNCHANGED waivedAt

(* No token, or one longer than any that is genuine. *)
RefuseToken ==
    /\ decision' = "refused"
    /\ UNCHANGED <<breaker, askedAt, botClock, healthySince, asks, waivedAt>>

Bypass ==
    /\ shouldBypass
    /\ recordBypass
    /\ UNCHANGED <<breaker, askedAt, botClock, healthySince, asks>>

callSiteverify(r) ==
    /\ ~shouldBypass
    /\ askedAt[r] = NotYet
    /\ asks < MaxAsks
    /\ asks' = asks + 1
    /\ askedAt' = [askedAt EXCEPT ![r] = botClock]
    /\ UNCHANGED <<breaker, botClock, healthySince, decision, waivedAt>>

(* A verdict on the token, or on our request. *)
Answered(r) ==
    /\ askedAt[r] # NotYet
    /\ recordProviderSuccess
    /\ decision' \in {"verified", "refused"}
    /\ askedAt' = [askedAt EXCEPT ![r] = NotYet]
    /\ UNCHANGED <<botClock, healthySince, asks, waivedAt>>

(* The call threw or timed out, or the answer is no verdict. *)
handleNoAnswer(r) ==
    /\ askedAt[r] # NotYet
    /\ healthySince # NotYet => askedAt[r] <= healthySince
    /\ recordProviderFailure
    /\ IF Opens(breaker'.failures) THEN recordBypass
       ELSE decision' = "refused" /\ UNCHANGED waivedAt
    /\ askedAt' = [askedAt EXCEPT ![r] = NotYet]
    /\ UNCHANGED <<botClock, healthySince, asks>>

----------------------------------------------------------------------------
(* Surroundings *)

ProviderFails ==
    /\ healthySince # NotYet
    /\ asks < MaxAsks
    /\ healthySince' = NotYet
    /\ UNCHANGED <<breaker, askedAt, botClock, asks, decision, waivedAt>>

ProviderRecovers ==
    /\ healthySince = NotYet
    /\ healthySince' = botClock
    /\ UNCHANGED <<breaker, askedAt, botClock, asks, decision, waivedAt>>

(* AbortSignal.timeout ends a call that is AskTimeout old. *)
BotTick ==
    /\ botClock < BotClockEnd
    /\ \A r \in Asker : askedAt[r] # NotYet => botClock < askedAt[r] + AskTimeout
    /\ botClock' = botClock + 1
    /\ UNCHANGED <<breaker, askedAt, healthySince, asks, decision, waivedAt>>

TurnstileNext ==
    \/ RefuseToken \/ Bypass
    \/ \E r \in Asker : callSiteverify(r) \/ Answered(r) \/ handleNoAnswer(r)
    \/ ProviderFails \/ ProviderRecovers \/ BotTick

TurnstileSpec == TurnstileInit /\ [][TurnstileNext]_turnstileVars

----------------------------------------------------------------------------
(* Properties *)

Breaker == INSTANCE CircuitBreaker WITH
    Threshold <- FailureThreshold,
    phase <- IF breaker.openUntil = NotYet THEN "closed"
             ELSE IF botClock < breaker.openUntil THEN "open" ELSE "halfOpen",
    failures <- IF breaker.failures < FailureThreshold THEN breaker.failures
                ELSE FailureThreshold,
    decision <- decision

(* The breaker, with its timestamps and with calls that end in any order,  *)
(* does what its header says: it implements CircuitBreaker.                *)
ImplementsBreaker == Breaker!Spec

(* "it bounds how long checks are skipped after Cloudflare is back": no    *)
(* request passes unchecked a window and a call's time-out after the       *)
(* provider answers again, whatever calls of the outage are still to fail. *)
BypassIsBounded ==
    (healthySince # NotYet /\ waivedAt # NotYet) =>
        waivedAt < healthySince + AskTimeout + OpenWindow
=============================================================================
