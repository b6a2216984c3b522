-------------------------------- MODULE Floats -------------------------------
(***************************************************************************)
(* Rounding to float64.  A float is written as a whole number of Units to  *)
(* 1, the Unit being the smallest denormal: below Significands Units every *)
(* whole number is a float, above it only the multiples of the spacing     *)
(* are.  The exponent's upper limit is left out of the rounding.           *)
(***************************************************************************)
EXTENDS Integers

CONSTANTS
    Significands,   \* how many significands a float may have, a power of two
    Spacings,       \* the distances between neighbouring floats: 1, 2, 4, ...
    Unit            \* the denormals to 1

ASSUME FloatsAssumption ==
    /\ Significands \in Nat \ {0} /\ Unit \in Nat \ {0}
    /\ 1 \in Spacings /\ Spacings \subseteq Nat \ {0}
    /\ \A s \in Spacings : s = 1 \/ \E half \in Spacings : s = 2 * half

absolute(x) == IF x < 0 THEN -x ELSE x

\* The distance between floats of the magnitude of n/d: the least that leaves
\* one of the significands.
spacing(n, d) ==
    LET fits(s) == absolute(n) < d * Significands * s
    IN  CHOOSE s \in Spacings : fits(s) /\ \A r \in Spacings : r < s => ~fits(r)

\* The float nearest to n/d, the even one of two.
nearest(n, d) ==
    LET gap  == spacing(n, d) * d
        q    == n \div gap
        twice == 2 * (n % gap)
    IN  spacing(n, d) * (IF twice < gap \/ (twice = gap /\ q % 2 = 0) THEN q ELSE q + 1)

\* The division of two floats.
quotient(x, y) == IF y < 0 THEN nearest(-x * Unit, -y) ELSE nearest(x * Unit, y)
=============================================================================
