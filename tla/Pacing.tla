------------------------------- MODULE Pacing -------------------------------
(***************************************************************************)
(* The durations that model time is advanced and paced in                  *)
(* (simulator/internal/physics/runner.go).  A duration is a whole number   *)
(* of nanoseconds, of which an int64 holds MaxDuration; a speed, model     *)
(* time by real time, is a float64, in units.                              *)
(***************************************************************************)
EXTENDS Floats

CONSTANTS
    MaxDuration,    \* math.MaxInt64
    Speeds          \* the speeds that paces are looked at for

\* The float64 of a duration; from some size on it is rounded.
float64(d) == nearest(d * Unit, 1)

\* 2^63 - 1 is no float64, 2^63 is; and the spacings reach as far as the quotient
\* of the longest duration by the slowest speed.
ASSUME PacingAssumption ==
    /\ MaxDuration \in Nat \ {0} /\ Speeds \subseteq Nat \ {0}
    /\ Significands > 1 /\ Significands <= Unit
    /\ \E top \in Spacings : 2 * MaxDuration * Unit * Unit < Significands * top
    /\ float64(MaxDuration) = (MaxDuration + 1) * Unit

NotRepresentable == -(MaxDuration + 1)

\* time.Duration(ns): out of range is the build's choice, amd64's smallest
\* integer or arm64's saturation.
toDuration(ns, saturates) ==
    IF ns < (MaxDuration + 1) * Unit THEN ns \div Unit
    ELSE IF saturates THEN MaxDuration ELSE NotRepresentable

\* Mutant: a pace of nothing is accepted.
paceUnchecked(d, speed, saturates) == toDuration(quotient(float64(d), speed), saturates)

\* CheckedPace: d at this speed, or NotRepresentable.  float64(MaxInt64) is the
\* power of two above it, so the comparison lets one value too many through.
CheckedPace(d, speed, saturates) ==
    LET ns   == quotient(float64(d), speed)
        pace == toDuration(ns, saturates)
    IN  IF ns > float64(MaxDuration) \/ (d > 0 /\ pace <= 0) THEN NotRepresentable ELSE pace

representable(d, speed, saturates) == CheckedPace(d, speed, saturates) # NotRepresentable

\* Mutant: only the whole chunks are looked at.
ValidateWhole(total, stepInterval, speed, saturates) ==
    total >= stepInterval => representable(stepInterval, speed, saturates)

\* ValidatePacing, for a positive stepInterval.
ValidatePacing(total, stepInterval, speed, saturates) ==
    total > 0 =>
        /\ total >= stepInterval => representable(stepInterval, speed, saturates)
        /\ LET remainder == total % stepInterval
           IN  remainder > 0 => representable(remainder, speed, saturates)

\* fastForwardLocked: the next increment, the last one being what remains.
nextChunk(stepInterval, remaining) == IF remaining < stepInterval THEN remaining ELSE stepInterval

-----------------------------------------------------------------------------
\* The speeds at which, whatever a build makes of a conversion that is out of
\* range, every accepted pace is the real quotient to within the error of two
\* roundings to float64 and the nanosecond that the conversion cuts off, and
\* moves; and at which a pace is refused only if the quotient, to within that
\* error, is below a nanosecond or reaches beyond an int64.
closeSpeeds ==
    {speed \in Speeds : \A d \in 1..MaxDuration, choice \in BOOLEAN :
        LET pace  == CheckedPace(d, speed, choice)
            one   == speed * Significands * Significands
            most  == d * Unit * (Significands + 1) * (Significands + 1)
            least == d * Unit * (Significands - 1) * (Significands - 1)
        IN  IF pace = NotRepresentable
            THEN least < one \/ most >= (MaxDuration + 1) * one
            ELSE pace > 0 /\ pace * one <= most /\ least <= (pace + 1) * one}
=============================================================================
