----------------------------- MODULE UploadTier -----------------------------
(***************************************************************************)
(* scoring.TieredTimeScore: the score of an upload by the quarter of the   *)
(* announce-to-deadline window it falls in.  Instants are integers; a      *)
(* time.Duration is a signed integer that time.Time.Sub saturates at       *)
(* MaxDuration and arithmetic wraps.                                       *)
(***************************************************************************)
EXTENDS Integers

CONSTANT MaxDuration    \* the largest time.Duration, 2^63 - 1 in the code

ASSUME DurationAssumption == MaxDuration \in Nat \ {0}

\* time.Time.Sub.
Sub(a, b) ==
    IF a - b > MaxDuration THEN MaxDuration
    ELSE IF a - b < -MaxDuration - 1 THEN -MaxDuration - 1
    ELSE a - b

\* Two's complement wrap-around of a Duration computation, and Go's division,
\* which truncates towards zero.
Wrap(x) == ((x + MaxDuration + 1) % (2 * (MaxDuration + 1))) - MaxDuration - 1
Quotient(x, d) == IF x >= 0 THEN x \div d ELSE -((-x) \div d)

FaultyThreeQuarters(total) == Quotient(Wrap(total * 3), 4)
ThreeQuarters(total) == (total \div 4) * 3

\* The switch, first match first.
Tier(elapsed, total) ==
    IF elapsed <= total \div 4 THEN 25
    ELSE IF elapsed <= total \div 2 THEN 19
    ELSE IF elapsed <= ThreeQuarters(total) THEN 13
    ELSE IF elapsed <= total THEN 6
    ELSE 0

Before(elapsed) == elapsed < 0

TieredTimeScore(t, announced, deadline) ==
    LET total   == Sub(deadline, announced)
        elapsed == Sub(t, announced)
    IN IF total <= 0 \/ Before(elapsed) THEN 0 ELSE Tier(elapsed, total)

\* Config.Validate, as far as this score depends on it.
Valid(announced, deadline) == deadline > announced

-----------------------------------------------------------------------------
\* The reference: the scores allowed for an upload so long after the
\* announcement of an exercise of that length.
QuarterScores(elapsed, length) ==
    IF elapsed < 0 \/ elapsed > length THEN {0}
    ELSE IF 4 * elapsed <= length THEN {25}
    ELSE IF 2 * elapsed <= length THEN {19}
    ELSE IF 4 * elapsed > 3 * length THEN {6}
    ELSE IF 4 * (elapsed + 2) > 3 * length THEN {13, 6}
    ELSE {13}
=============================================================================
