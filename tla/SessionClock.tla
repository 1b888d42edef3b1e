--------------------------- MODULE SessionClock ---------------------------
(***************************************************************************)
(* The two clock conversions every session decision rests on.  A timestamp  *)
(* column has millisecond precision, a JWT's `iat` has whole seconds.       *)
(* Instants are numbers of ticks (milliseconds), TicksPerSecond of which    *)
(* make a second.                                                           *)
(***************************************************************************)
EXTENDS Integers

CONSTANT TicksPerSecond

ASSUME TicksPerSecondAssumption == TicksPerSecond \in Nat \ {0}

(* Mutant of nextWholeSecond: the cutoff rounded down. *)
roundedDownSecond(t) == (t \div TicksPerSecond) * TicksPerSecond

(* nextWholeSecond: Math.ceil(ms / 1000) * 1000, still in ticks. *)
nextWholeSecond(t) ==
    ((t + TicksPerSecond - 1) \div TicksPerSecond) * TicksPerSecond

(* Math.floor(ms / 1000): the whole second an instant falls in, which is the  *)
(* `iat` of an access token and the value JwtStrategy compares it with.       *)
wholeSecond(t) == t \div TicksPerSecond
=============================================================================
