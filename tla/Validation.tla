----------------------------- MODULE Validation -----------------------------
(***************************************************************************)
(* What the command processor lets through: Validate and validateValue     *)
(* (simulator/internal/commands/processor.go).  Values are floats, in      *)
(* Floats' units.                                                          *)
(*                                                                         *)
(* Every point of today's catalog has scale 1 and no range; the code is    *)
(* written, and tested, for any.                                           *)
(***************************************************************************)
EXTENDS Floats

CONSTANTS
    MinI16, MaxI16, \* the domain of an I16 point
    MaxFloat32,     \* the same of an F32 point, in units
    NotFinite,      \* NaN or an infinity
    AllowDangerous, \* cfg.AllowDangerous
    Metas,          \* catalog entries; their scale is 1/per
    Tenths          \* the raw values that are tried, in tenths

ASSUME ValidationAssumption ==
    /\ MinI16 \in Int /\ MaxI16 \in Int /\ MinI16 <= MaxI16 /\ MaxFloat32 \in Nat
    /\ NotFinite \notin Int

\* A decimal literal.
literal(n, d) == nearest(n * Unit, d)

\* math.Round, half away from zero.
Rounded(x) ==
    LET whole == ((2 * absolute(x) + Unit) \div (2 * Unit)) * Unit
    IN  IF x < 0 THEN -whole ELSE whole

\* math.Nextafter towards +Inf, less x: below a negative power of two the gap
\* is half of what it is above the positive one.
ulp(x) == IF x < 0 THEN spacing(absolute(x) - 1, 1) ELSE spacing(x, 1)

integralityToleranceULPs == 4

\* Mutant: a quotient that is one rounding away from a whole number is not it.
toleranceNone(rounded) == 0

\* Mutant: a tolerance relative to the value.
toleranceRelative(rounded) == absolute(rounded) \div 64

tolerance(rounded) == integralityToleranceULPs * ulp(rounded)

\* snapToIntegerWithinTolerance: whether there is a whole number, and which.
snaps(raw) == absolute(raw - Rounded(raw)) <= tolerance(Rounded(raw))
snapped(raw) == Rounded(raw) \div Unit

\* validateValue: the type's domain, the enum, and the range, each in full.
validateValue(meta, value) ==
    LET raw == quotient(value, literal(1, meta.per))
    IN  /\ meta.type = "I16" => snaps(raw) /\ snapped(raw) \in MinI16..MaxI16
        /\ meta.type = "F32" => absolute(raw) <= MaxFloat32
        /\ "enum" \in DOMAIN meta => snaps(raw) /\ snapped(raw) \in meta.enum
        /\ "range" \in DOMAIN meta => meta.range.min <= value /\ value <= meta.range.max

\* Validate: only an EMS setpoint is written, a dangerous one only if allowed.
Validate(meta, value) ==
    /\ meta.device = "EMS" /\ meta.class = "setpoint"
    /\ meta.dangerous => AllowDangerous
    /\ value # NotFinite /\ validateValue(meta, value)

-----------------------------------------------------------------------------
\* A decimal value is accepted exactly when it is what the catalog declares: a
\* whole number where one is required, inside the domain, the enum and the
\* range, and never one that is only near to it.
AcceptsDeclared ==
    \A meta \in Metas, t \in Tenths :
        LET whole == t % 10 = 0
            n     == t \div 10
            value == literal(t, 10 * meta.per)
        IN  Validate(meta, value) <=>
                /\ meta.device = "EMS" /\ meta.class = "setpoint"
                /\ meta.dangerous => AllowDangerous
                /\ meta.type = "I16" => whole /\ n \in MinI16..MaxI16
                /\ meta.type = "F32" => t * Unit \in -(10 * MaxFloat32)..10 * MaxFloat32
                /\ "enum" \in DOMAIN meta => whole /\ n \in meta.enum
                /\ "range" \in DOMAIN meta =>
                       /\ t * Unit >= 10 * meta.per * meta.range.min
                       /\ t * Unit <= 10 * meta.per * meta.range.max
=============================================================================
