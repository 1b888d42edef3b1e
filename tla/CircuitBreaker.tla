--------------------------- MODULE CircuitBreaker ---------------------------
(***************************************************************************)
(* What a circuit breaker around an external check promises, without time  *)
(* and without the calls that are under way.  It is the abstract           *)
(* specification of Turnstile, from the header of                          *)
(* turnstile-circuit-breaker.ts: Threshold consecutive no-answers open it; *)
(* while it is open requests pass unchecked; then one request asks again   *)
(* (half-open), any verdict closes it and a no-answer opens it once more.  *)
(***************************************************************************)
EXTENDS Naturals

CONSTANT Threshold

VARIABLES
    phase,      \* "closed", "open", "halfOpen"
    failures,   \* consecutive no-answers, up to Threshold
    decision    \* what the last request was told

OneMore == IF failures + 1 < Threshold THEN failures + 1 ELSE Threshold

Init == phase = "closed" /\ failures = 0 /\ decision = "none"

(* Only an open breaker lets a request pass unchecked, and only recorded. *)
Waive ==
    /\ phase = "open"
    /\ decision' \in {"waived", "refused"}
    /\ UNCHANGED <<phase, failures>>

(* A no-answer; the one that opens the breaker is waived already. *)
Fail ==
    /\ failures' = OneMore
    /\ IF failures' = Threshold
       THEN phase' = "open" /\ decision' \in {"waived", "refused"}
       ELSE phase' = "closed" /\ decision' = "refused"

(* After a quiet time the count starts over: never under an open breaker. *)
FailAfterQuiet ==
    /\ phase # "open"
    /\ failures' = 1
    /\ IF failures' = Threshold
       THEN phase' = "open" /\ decision' \in {"waived", "refused"}
       ELSE phase' = "closed" /\ decision' = "refused"

(* Any verdict closes it. *)
Verdict ==
    /\ phase' = "closed"
    /\ failures' = 0
    /\ decision' \in {"verified", "refused"}

(* A request without a usable token is refused whatever the phase is. *)
Refuse ==
    /\ decision' = "refused"
    /\ UNCHANGED <<phase, failures>>

Elapse ==
    /\ phase = "open"
    /\ phase' = "halfOpen"
    /\ UNCHANGED <<failures, decision>>

Next == Waive \/ Fail \/ FailAfterQuiet \/ Verdict \/ Refuse \/ Elapse

Spec == Init /\ [][Next]_<<phase, failures, decision>>
=============================================================================
