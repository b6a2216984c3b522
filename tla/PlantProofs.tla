----------------------------- MODULE PlantProofs -----------------------------
(***************************************************************************)
(* Theorems about Plant, for every battery and every format of floating    *)
(* point numbers that satisfy the modules' assumptions: a pace that is     *)
(* accepted is close to the exact one, a run is stopped by its pacing only *)
(* when the clock had drifted before it, no tick moves power against a     *)
(* published prohibition, and no tick makes energy.                        *)
(*                                                                         *)
(* The arithmetic comes first: whole-number division rounds down, floats   *)
(* round to nearest, and the chain of inequalities from the taper to the   *)
(* energy that one increment takes.  ScenarioInv then follows the distance *)
(* to a scenario's next step.                                              *)
(***************************************************************************)
EXTENDS Plant, TLAPS, WellFoundedInduction, NaturalsInduction

\* What PlantAssumption says of the constants, in the form the proofs use.
LEMMA Constants ==
    /\ Capacity \in Nat /\ InitialEnergy \in 0..Capacity /\ Epsilon \in Nat
    /\ Nominal \in Nat /\ Nominal > 0 /\ Hour \in Nat /\ Hour > 0
    /\ EffNum \in Nat /\ EffNum > 0 /\ EffDen \in Nat /\ EffDen > 0 /\ EffNum <= EffDen
    /\ Band \in Nat /\ Band > 0 /\ ThermalMass \in Nat /\ ThermalMass > 0
    /\ StepInterval \in Nat /\ StepInterval > 0
    /\ Ambient \in Int /\ DerateStart \in Int /\ DerateFull \in Int /\ DerateStart < DerateFull
    /\ Heat \in Int /\ Chiller \in Int /\ PassiveLoss \in Int
    /\ StepInterval * Nominal * EffDen <= Band * EffNum * Hour
    /\ Demands \subseteq Int /\ Totals \subseteq Nat
    /\ ScenarioSpeeds \subseteq Speeds
    /\ MaxLate \in Nat
  BY PlantAssumption DEF PlantAssumption

-----------------------------------------------------------------------------
(***************************************************************************)
(* Whole-number division.                                                  *)
(***************************************************************************)
\* The product of two numbers that are at least nought is as well.
LEMMA ProductNat == \A a, b \in Nat : a * b \in Nat
  BY SMT

\* A product grows with its factors.
LEMMA ProductGrows ==
    ASSUME NEW a \in Int, NEW b \in Int, NEW m \in Nat, a <= b
    PROVE  a * m <= b * m /\ m * a <= m * b
  BY SMT

\* and a common positive factor can be dropped.
LEMMA FactorDropped ==
    ASSUME NEW a \in Int, NEW b \in Int, NEW m \in Nat, m > 0, a * m <= b * m
    PROVE  a <= b
<1> SUFFICES ASSUME b + 1 <= a
             PROVE  FALSE
  OBVIOUS
<1>1. (b + 1) * m <= a * m
  BY ProductGrows
<1>2. (b + 1) * m = b * m + m
  BY SMT
<1>3. a * m \in Int /\ b * m \in Int
  BY SMT
<1> QED
  BY <1>1, <1>2, <1>3

\* A quotient is the largest number whose product does not exceed the dividend.
LEMMA Quotient ==
    ASSUME NEW n \in Int, NEW m \in Nat, m > 0
    PROVE  /\ n \div m \in Int /\ n % m \in 0..m - 1
           /\ n = m * (n \div m) + (n % m)
  BY SMTT(60)

LEMMA QuotientBelow ==
    ASSUME NEW n \in Int, NEW m \in Nat, m > 0
    PROVE  /\ n \div m \in Int /\ (n \div m) * m <= n
           /\ \A k \in Int : k * m <= n => k <= n \div m
<1> DEFINE q == n \div m  r == n % m
<1>1. q \in Int /\ r \in 0..m - 1 /\ n = m * q + r
  BY Quotient
<1>2. m * q = q * m /\ q * m \in Int
  BY <1>1, SMT
<1>3. q * m <= n
  BY <1>1, <1>2
<1>4. ASSUME NEW k \in Int, k * m <= n
      PROVE  k <= q
  <2> HIDE DEF q, r
  <2> SUFFICES ASSUME q + 1 <= k
               PROVE  FALSE
    BY <1>1
  <2>1. (q + 1) * m <= k * m
    BY <1>1, ProductGrows
  <2>2. (q + 1) * m = q * m + m /\ k * m \in Int
    BY <1>1, SMT
  <2> QED
    BY <2>1, <2>2, <1>4, <1>1, <1>2
<1> QED
  BY <1>1, <1>3, <1>4

\* The quotient of two numbers that are at least nought is as well, and that
\* of nought is nought.
LEMMA QuotientNat ==
    ASSUME NEW n \in Nat, NEW m \in Nat, m > 0
    PROVE  n \div m \in Nat /\ (n = 0 => n \div m = 0)
<1>1. n \div m \in Int /\ 0 <= n \div m
  BY QuotientBelow
<1>2. n = 0 => n \div m = 0
  BY SMT
<1> QED
  BY <1>1, <1>2

\* The remainder is determined by its defining equation.
LEMMA RemainderUnique ==
    ASSUME NEW n \in Int, NEW m \in Int, m > 0, NEW q \in Int, NEW r \in Int,
           0 <= r, r < m, n = m * q + r
    PROVE  q = n \div m /\ r = n % m
  BY SMTT(60)

\* Taking the divisor away leaves the remainder.
LEMMA RemainderKept ==
    ASSUME NEW n \in Nat, NEW m \in Nat, m > 0, m <= n
    PROVE  (n - m) % m = n % m
<1> DEFINE q == n \div m  r == n % m  k == n - m  p == q - 1
<1>1. q \in Int /\ r \in 0..m - 1 /\ n = m * q + r
  BY Quotient
<1>2. m * p = m * q - m
  BY <1>1, SMT
<1>3. k \in Int /\ p \in Int /\ r \in Int /\ 0 <= r /\ r < m /\ m \in Int
  BY <1>1
<1>4. m * q \in Int
  BY <1>1, SMT
<1>5. k = m * p + r
  BY <1>1, <1>2, <1>4
<1> HIDE DEF q, r, k, p
<1>6. r = k % m
  BY <1>3, <1>5, RemainderUnique
<1> QED
  BY <1>6 DEF r, k

\* A number below the divisor is its own remainder.
LEMMA RemainderSmall ==
    ASSUME NEW n \in Nat, NEW m \in Nat, n < m
    PROVE  n % m = n
  BY SMT

-----------------------------------------------------------------------------
(***************************************************************************)
(* Pacing: what a rounding to float64 leaves of a number, and what two of  *)
(* them and the conversion leave of a pace.                                *)
(***************************************************************************)
\* A set of numbers has a smallest one.
LEMMA Smallest ==
    ASSUME NEW T, T \subseteq Nat, T # {}
    PROVE  \E x \in T : \A y \in T : x <= y
<1>1. PICK x \in T : \A y \in T : ~ (<<y, x>> \in OpToRel(<, Nat))
  BY NatLessThanWellFounded, WFMin
<1>2. \A y \in T : ~ (y < x)
  BY <1>1 DEF OpToRel
<1>3. x \in Nat /\ \A y \in T : y \in Nat
  OBVIOUS
<1>4. \A y \in T : x <= y
  BY ONLY <1>2, <1>3
<1> QED
  BY <1>4

LEMMA FloatConstants ==
    /\ Significands \in Nat /\ Significands > 1 /\ Unit \in Nat /\ Unit > 0 /\ Significands <= Unit
    /\ 1 \in Spacings /\ \A s \in Spacings : s \in Nat /\ s > 0
    /\ \A s \in Spacings : s = 1 \/ \E half \in Spacings : s = 2 * half
    /\ MaxDuration \in Nat /\ MaxDuration > 0
    /\ \A speed \in Speeds : speed \in Nat /\ speed > 0
  BY FloatsAssumption, PacingAssumption DEF FloatsAssumption, PacingAssumption

\* Floats lie closely: half of the spacing would leave too many significands.
LEMMA SpacingNat ==
    ASSUME NEW n \in Nat, NEW d \in Nat, d > 0,
           NEW top \in Spacings, n < d * Significands * top
    PROVE  /\ spacing(n, d) \in Nat /\ spacing(n, d) > 0
           /\ spacing(n, d) = 1 \/ 2 * n >= d * Significands * spacing(n, d)
<1> DEFINE fits(s) == absolute(n) < d * Significands * s
           S == {s \in Spacings : fits(s)}
           spread == spacing(n, d)
           A == d * Significands
<1>1. absolute(n) = n /\ A \in Nat
  BY FloatConstants, ProductNat DEF absolute
<1>2. S \subseteq Nat /\ top \in S
  BY <1>1, FloatConstants
<1>3. PICK x \in S : \A y \in S : x <= y
  <2> HIDE DEF S
  <2> QED
    BY <1>2, Smallest
<1>4. x \in Spacings /\ fits(x) /\ \A r \in Spacings : r < x => ~fits(r)
  <2>1. x \in Int /\ \A r \in Spacings : r \in Int
    BY FloatConstants
  <2>2. \A r \in Spacings : fits(r) => x <= r
    BY <1>3
  <2> QED
    BY <2>1, <2>2
<1>5. spread \in Spacings /\ fits(spread) /\ \A r \in Spacings : r < spread => ~fits(r)
  <2>1. spread = CHOOSE s \in Spacings : fits(s) /\ \A r \in Spacings : r < s => ~fits(r)
    BY DEF spacing
  <2> HIDE DEF fits, spread
  <2> QED
    BY <1>4, <2>1
<1>6. spread \in Nat /\ spread > 0
  BY <1>5, FloatConstants
<1>7. ASSUME spread # 1
      PROVE  2 * n >= A * spread
  <2>1. PICK half \in Spacings : spread = 2 * half
    BY <1>5, <1>7, FloatConstants
  <2>2. half \in Nat /\ half > 0 /\ half < spread
    BY <2>1, <1>6, FloatConstants
  <2>3. ~ (n < A * half)
    BY <1>1, <1>5, <2>2
  <2> HIDE DEF A, spread
  <2> QED
    BY <1>1, <1>6, <2>1, <2>2, <2>3
<1> HIDE DEF spread
<1> QED
  BY <1>6, <1>7 DEF spread

\* The nearest float is half a spacing away at most.
LEMMA NearestNat ==
    ASSUME NEW n \in Nat, NEW d \in Nat, d > 0,
           NEW top \in Spacings, n < d * Significands * top
    PROVE  /\ nearest(n, d) \in Nat
           /\ 2 * (nearest(n, d) * d) <= 2 * n + spacing(n, d) * d
           /\ 2 * n <= 2 * (nearest(n, d) * d) + spacing(n, d) * d
<1> DEFINE s == spacing(n, d)
           g == s * d
           q == n \div g
           r == n % g
           twice == 2 * r
           k == IF twice < g \/ (twice = g /\ q % 2 = 0) THEN q ELSE q + 1
<1>1. s \in Nat /\ s > 0
  BY SpacingNat
<1>2. nearest(n, d) = s * k
  BY DEF nearest
<1> HIDE DEF s
<1>3. g \in Nat /\ g > 0
  BY <1>1, ProductNat
<1> HIDE DEF g
<1>4. q \in Nat /\ r \in Nat /\ r < g /\ n = g * q + r
  BY <1>3, Quotient, QuotientNat
<1> HIDE DEF q, r
<1>5. (k = q /\ twice <= g) \/ (k = q + 1 /\ twice >= g)
  BY <1>3, <1>4
<1>6. k \in Nat
  BY <1>4, <1>5
<1> HIDE DEF k
<1>7. (s * k) * d = g * k /\ s * k \in Nat
  BY <1>1, <1>6, ProductNat DEF g
<1>8. g * (q + 1) = g * q + g /\ g * q \in Nat
  BY <1>3, <1>4, ProductNat
<1>9. /\ 2 * (g * k) <= 2 * n + g
      /\ 2 * n <= 2 * (g * k) + g
  BY <1>3, <1>4, <1>5, <1>8
<1> QED
  BY <1>2, <1>7, <1>9 DEF s, g

\* Unless it is a denormal, it is off by less than its last significand; and what
\* would be a denormal stays one.
LEMMA NearestClose ==
    ASSUME NEW n \in Nat, NEW d \in Nat, d > 0,
           NEW top \in Spacings, n < d * Significands * top
    PROVE  /\ 2 * n >= d * Significands =>
                /\ Significands * (nearest(n, d) * d) <= (Significands + 1) * n
                /\ (Significands - 1) * n <= Significands * (nearest(n, d) * d)
           /\ 2 * n < d * Significands => nearest(n, d) < Significands
<1> DEFINE s == spacing(n, d)
           m == nearest(n, d)
           md == m * d
           sd == s * d
           Sn == Significands * n
           Smd == Significands * md
<1>1. /\ s \in Nat /\ s > 0 /\ m \in Nat
      /\ s = 1 \/ 2 * n >= d * Significands * s
      /\ 2 * md <= 2 * n + sd /\ 2 * n <= 2 * md + sd
  BY SpacingNat, NearestNat
<1> HIDE DEF s, m
<1>2. md \in Nat /\ sd \in Nat /\ Sn \in Nat /\ Significands \in Nat /\ Significands > 1
  BY <1>1, FloatConstants, ProductNat
<1>3. Smd \in Nat /\ Significands * sd \in Nat
  BY <1>2, ProductNat
<1>4. ASSUME 2 * n >= d * Significands
      PROVE  Smd <= (Significands + 1) * n /\ (Significands - 1) * n <= Smd
  <2>1. d * Significands * s <= 2 * n
    BY <1>1, <1>4, FloatConstants
  <2>2. Significands * sd <= 2 * n
    BY <1>1, <1>2, <2>1
  <2>3. Significands * (2 * md) <= Significands * (2 * n + sd)
        /\ Significands * (2 * n) <= Significands * (2 * md + sd)
    <3>1. 2 * md \in Int /\ 2 * n + sd \in Int /\ 2 * n \in Int /\ 2 * md + sd \in Int
      BY <1>2
    <3> HIDE DEF md, sd
    <3> QED
      BY <1>1, <1>2, <3>1, ProductGrows
  <2>4. /\ Significands * (2 * md) = 2 * Smd
        /\ Significands * (2 * n) = 2 * Sn
        /\ Significands * (2 * n + sd) = 2 * Sn + Significands * sd
        /\ Significands * (2 * md + sd) = 2 * Smd + Significands * sd
    <3> HIDE DEF md, sd
    <3> QED
      BY <1>2
  <2>5. (Significands + 1) * n = Sn + n /\ (Significands - 1) * n = Sn - n
    BY <1>2
  <2> DEFINE Ssd == Significands * sd
  <2> HIDE DEF Smd, Sn, Ssd
  <2>6. Smd \in Nat /\ Sn \in Nat /\ Ssd \in Nat
    BY <1>2, <1>3 DEF Ssd
  <2>7. 2 * Smd <= 2 * Sn + Ssd /\ 2 * Sn <= 2 * Smd + Ssd /\ Ssd <= 2 * n
    BY <2>2, <2>3, <2>4 DEF Ssd
  <2>8. Smd <= Sn + n /\ Sn - n <= Smd
    BY ONLY <2>6, <2>7, n \in Nat
  <2> QED
    BY <2>5, <2>8
<1>5. ASSUME 2 * n < d * Significands
      PROVE  m < Significands
  <2>1. s = 1
    <3> SUFFICES ASSUME 2 * n >= d * Significands * s
                 PROVE  FALSE
      BY <1>1
    <3>1. d * Significands \in Nat
      BY <1>2, ProductNat
    <3>2. d * Significands * 1 <= d * Significands * s
      BY <1>1, <3>1, ProductGrows
    <3> QED
      BY <1>1, <1>5, <3>1, <3>2, ProductNat
  <2>2. 2 * md < d * Significands + d
    BY <1>1, <1>2, <1>5, <2>1
  <2> SUFFICES ASSUME Significands <= m
               PROVE  FALSE
    BY <1>1, <1>2
  <2>3. Significands * d <= md
    BY <1>1, <1>2, ProductGrows
  <2>4. 2 * d <= Significands * d
    BY <1>2, ProductGrows
  <2>5. Significands * d = d * Significands /\ Significands * d \in Nat
    BY <1>2, ProductNat
  <2> HIDE DEF md
  <2> QED
    BY <1>2, <2>2, <2>3, <2>4, <2>5
<1> QED
  BY <1>4, <1>5 DEF m

\* What is paced, as the code computes it: the duration and the quotient, each
\* rounded.  Either the quotient is a denormal, below a nanosecond, or it is the
\* real one to within both roundings.
LEMMA PaceRounds ==
    ASSUME NEW d \in 1..MaxDuration, NEW speed \in Nat, speed > 0
    PROVE  LET ns    == quotient(float64(d), speed)
               one   == speed * Significands * Significands
               most  == d * Unit * (Significands + 1) * (Significands + 1)
               least == d * Unit * (Significands - 1) * (Significands - 1)
           IN  /\ ns \in Nat
               /\ one \in Nat /\ one > 0 /\ most \in Nat /\ least \in Nat
               /\ \/ ns < Unit /\ least < one
                  \/ ns * one <= Unit * most /\ Unit * least <= ns * one
<1> DEFINE S == Significands
           U == Unit
           T == d * U
           x == float64(d)
           X == x * U
           ns == nearest(X, speed)
           one == speed * S * S
           most == T * (S + 1) * (S + 1)
           least == T * (S - 1) * (S - 1)
<1>1. /\ d \in Nat /\ d >= 1 /\ d <= MaxDuration /\ MaxDuration \in Nat
      /\ S \in Nat /\ S > 1 /\ U \in Nat /\ U > 0 /\ S <= U
  BY FloatConstants
<1>2. PICK top \in Spacings : 2 * MaxDuration * Unit * Unit < Significands * top
  BY PacingAssumption DEF PacingAssumption
<1>3. top \in Nat
  BY FloatConstants
<1>4. T \in Nat /\ T >= U
  <2>1. 1 * U <= d * U
    BY <1>1, ProductGrows
  <2> QED
    BY <1>1, <2>1, ProductNat
<1>5. 2 * T * U <= 2 * MaxDuration * U * U /\ T <= T * U /\ T * U \in Nat
  <2>1. T <= MaxDuration * U /\ MaxDuration * U \in Nat
    BY <1>1, ProductGrows, ProductNat
  <2>2. T * U <= (MaxDuration * U) * U
    BY <1>1, <1>4, <2>1, ProductGrows
  <2>3. T * 1 <= T * U
    BY <1>1, <1>4, ProductGrows
  <2>4. 2 * MaxDuration * U * U = 2 * ((MaxDuration * U) * U)
    BY <1>1
  <2>5. T * U \in Nat /\ 2 * T * U = 2 * (T * U) /\ (MaxDuration * U) * U \in Nat
    BY <1>1, <1>4, <2>1, ProductNat
  <2> HIDE DEF T
  <2> QED
    BY <1>4, <2>2, <2>3, <2>4, <2>5
<1> HIDE DEF T
<1>6. /\ x \in Nat
      /\ S * x <= (S + 1) * T /\ (S - 1) * T <= S * x
  <2>1. x = nearest(T, 1)
    BY DEF float64, T
  <2>2. T < 1 * Significands * top
    <3>1. S * top \in Nat /\ 1 * Significands * top = S * top
      BY <1>1, <1>3, ProductNat
    <3>2. 2 * T * U = 2 * (T * U) /\ 2 * MaxDuration * U * U \in Nat
      <4>1. 2 * MaxDuration \in Nat
        BY <1>1
      <4>2. 2 * MaxDuration * U \in Nat
        BY <1>1, <4>1, ProductNat
      <4> QED
        BY <1>1, <1>4, <4>2, ProductNat
    <3> QED
      BY <1>2, <1>4, <1>5, <3>1, <3>2
  <2>3. 2 * T >= 1 * Significands
    BY <1>1, <1>4
  <2>4. /\ nearest(T, 1) \in Nat
        /\ 2 * T >= 1 * Significands =>
             /\ Significands * (nearest(T, 1) * 1) <= (Significands + 1) * T
             /\ (Significands - 1) * T <= Significands * (nearest(T, 1) * 1)
    BY <1>4, <2>2, NearestNat, NearestClose
  <2>5. nearest(T, 1) * 1 = nearest(T, 1)
    BY <2>4
  <2> QED
    BY <2>1, <2>3, <2>4, <2>5
<1> HIDE DEF x
<1>7. x <= 2 * T
  <2>1. (S + 1) * T <= (2 * S) * T
    BY <1>1, <1>4, ProductGrows
  <2>2. (2 * S) * T = (2 * T) * S /\ S * x = x * S
    BY <1>1, <1>4, <1>6
  <2>3. x * S <= (2 * T) * S
    <3>1. (S + 1) * T \in Int /\ (2 * T) * S \in Int /\ x * S \in Int
      BY <1>1, <1>4, <1>6
    <3> QED
      BY <1>6, <2>1, <2>2, <3>1
  <2> QED
    BY <1>1, <1>4, <1>6, <2>3, FactorDropped
<1>8. X \in Nat /\ X <= 2 * T * U
  <2>1. x * U <= (2 * T) * U
    BY <1>1, <1>4, <1>6, <1>7, ProductGrows
  <2> QED
    BY <1>1, <1>4, <1>6, <2>1, ProductNat
<1>9. X < speed * Significands * top
  <2>1. S * top \in Nat /\ 1 * (S * top) <= speed * (S * top)
    <3>1. S * top \in Nat
      BY <1>1, <1>3, ProductNat
    <3> HIDE DEF S
    <3> QED
      BY <3>1, ProductGrows
  <2>2. speed * Significands * top = speed * (S * top) /\ speed * (S * top) \in Nat
    BY <1>1, <1>3, <2>1, ProductNat
  <2>3. 2 * T * U = 2 * (T * U) /\ 2 * MaxDuration * U * U \in Nat
    <3>1. 2 * MaxDuration \in Nat
      BY <1>1
    <3>2. 2 * MaxDuration * U \in Nat
      BY <1>1, <3>1, ProductNat
    <3> QED
      BY <1>1, <1>4, <3>2, ProductNat
  <2> HIDE DEF X
  <2> QED
    BY <1>2, <1>5, <1>8, <2>1, <2>2, <2>3
<1>10. quotient(float64(d), speed) = ns
  BY <1>6 DEF quotient, x
<1>11. /\ ns \in Nat
       /\ 2 * X >= speed * S => /\ S * (ns * speed) <= (S + 1) * X
                                /\ (S - 1) * X <= S * (ns * speed)
       /\ 2 * X < speed * S => ns < S
  <2> HIDE DEF X
  <2> QED
    BY <1>8, <1>9, NearestNat, NearestClose
<1> HIDE DEF ns
<1>12. /\ S * S \in Nat /\ one = speed * (S * S) /\ one \in Nat /\ one > 0
       /\ most \in Nat /\ least \in Nat /\ S - 1 \in Nat /\ S + 1 \in Nat
  <2>1. S - 1 \in Nat /\ S + 1 \in Nat
    BY <1>1
  <2>2. S * S \in Nat /\ S * S > 0 /\ speed * S \in Nat /\ T * (S + 1) \in Nat /\ T * (S - 1) \in Nat
    BY <1>1, <1>4, <2>1, ProductNat
  <2>3. one = speed * (S * S)
    BY <1>1
  <2>4. 1 * (S * S) <= speed * (S * S)
    BY <2>2, ProductGrows
  <2>5. one \in Nat /\ most \in Nat /\ least \in Nat
    BY <1>1, <2>1, <2>2, ProductNat
  <2> HIDE DEF S
  <2> QED
    BY <2>1, <2>2, <2>3, <2>4, <2>5
<1>13. CASE 2 * X >= speed * S
  <2>1. ns * one = (S * (ns * speed)) * S /\ S * (ns * speed) \in Nat
    BY <1>1, <1>11, ProductNat
  <2>2. (S * (ns * speed)) * S <= ((S + 1) * X) * S
    BY <1>1, <1>8, <1>11, <1>13, <2>1, ProductGrows
  <2>3. ((S - 1) * X) * S <= (S * (ns * speed)) * S
    BY <1>1, <1>8, <1>11, <1>13, <2>1, ProductGrows
  <2>4. ((S + 1) * X) * S = (S * x) * ((S + 1) * U) /\ ((S - 1) * X) * S = (S * x) * ((S - 1) * U)
    BY <1>1, <1>6
  <2>5. (S + 1) * U \in Nat /\ (S - 1) * U \in Nat /\ S * x \in Nat
    BY <1>1, <1>6, <1>12, ProductNat
  <2>6. (S * x) * ((S + 1) * U) <= ((S + 1) * T) * ((S + 1) * U)
    BY <1>4, <1>6, <1>12, <2>5, ProductGrows
  <2>7. ((S - 1) * T) * ((S - 1) * U) <= (S * x) * ((S - 1) * U)
    BY <1>4, <1>6, <1>12, <2>5, ProductGrows
  <2>8. ((S + 1) * T) * ((S + 1) * U) = U * most /\ ((S - 1) * T) * ((S - 1) * U) = U * least
    BY <1>1, <1>4
  <2>9. /\ ns * one \in Nat /\ U * most \in Nat /\ U * least \in Nat
        /\ (S * x) * ((S + 1) * U) \in Nat /\ (S * x) * ((S - 1) * U) \in Nat
    BY <1>1, <1>11, <1>12, <2>5, ProductNat
  <2> HIDE DEF one, most, least, S, U, X
  <2>10. ns * one <= U * most /\ U * least <= ns * one
    BY <2>1, <2>2, <2>3, <2>4, <2>6, <2>7, <2>8, <2>9
  <2> QED
    BY <1>10, <1>11, <1>12, <2>10 DEF one, most, least, S, U, T
<1>14. CASE ~ (2 * X >= speed * S)
  <2>1. 2 * X < speed * S /\ ns < S
    BY <1>1, <1>8, <1>11, <1>14, ProductNat
  <2>2. ns < U
    BY <1>1, <1>11, <2>1
  <2>3. least < one
    <3>1. (S - 1) * T \in Nat /\ S * x \in Nat /\ U * least \in Nat /\ speed * S \in Nat
      BY <1>1, <1>4, <1>6, <1>12, ProductNat
    <3>2. ((S - 1) * T) * ((S - 1) * U) <= (S * x) * ((S - 1) * U)
      <4>1. (S - 1) * U \in Nat
        BY <1>1, <1>12, ProductNat
      <4> QED
        BY <1>6, <3>1, <4>1, ProductGrows
    <3>3. ((S - 1) * T) * ((S - 1) * U) = U * least
      BY <1>1, <1>4
    <3>4. (S * x) * ((S - 1) * U) = X * (S * (S - 1)) /\ S * (S - 1) \in Nat
      BY <1>1, <1>6, <1>12, ProductNat
    <3>5. X * (S * (S - 1)) <= (speed * S) * (S * (S - 1))
      BY <1>8, <2>1, <3>1, <3>4, ProductGrows
    <3>6. (speed * S) * (S * (S - 1)) = one * (S - 1)
      BY <1>1
    <3>7. one * (S - 1) <= one * (U - 1)
      BY <1>1, <1>12, ProductGrows
    <3>8. one * (U - 1) = one * U - one /\ U * least = least * U
      BY <1>1, <1>12
    <3>9. /\ one * U \in Nat /\ one * (S - 1) \in Nat /\ X * (S * (S - 1)) \in Nat
          /\ least * U \in Nat
      BY <1>1, <1>8, <1>12, <3>4, ProductNat
    <3> HIDE DEF one, least, S, U, X
    <3>10. least * U <= one * U - one
      BY <1>12, <3>2, <3>3, <3>4, <3>5, <3>6, <3>7, <3>8, <3>9
    <3> SUFFICES ASSUME one <= least
                 PROVE  FALSE
      BY <1>12
    <3>11. one * U <= least * U
      BY <1>1, <1>12, ProductGrows
    <3> QED
      BY <1>12, <3>9, <3>10, <3>11
  <2> HIDE DEF one, most, least
  <2> QED
    BY <1>10, <1>11, <1>12, <2>2, <2>3 DEF one, most, least, T
<1> QED
  BY <1>13, <1>14

\* At every speed, the accepted paces are close.
LEMMA EverySpeedIsClose == Speeds \subseteq closeSpeeds
<1> SUFFICES ASSUME NEW d \in 1..MaxDuration, NEW speed \in Speeds, NEW choice \in BOOLEAN
             PROVE  LET pace  == CheckedPace(d, speed, choice)
                        one   == speed * Significands * Significands
                        most  == d * Unit * (Significands + 1) * (Significands + 1)
                        least == d * Unit * (Significands - 1) * (Significands - 1)
                    IN  IF pace = NotRepresentable
                        THEN least < one \/ most >= (MaxDuration + 1) * one
                        ELSE pace > 0 /\ pace * one <= most /\ least <= (pace + 1) * one
  BY DEF closeSpeeds
<1> DEFINE ns    == quotient(float64(d), speed)
           one   == speed * Significands * Significands
           most  == d * Unit * (Significands + 1) * (Significands + 1)
           least == d * Unit * (Significands - 1) * (Significands - 1)
           end   == MaxDuration + 1
           conv  == toDuration(ns, choice)
           pace  == CheckedPace(d, speed, choice)
<1>1. /\ d > 0 /\ speed \in Nat /\ speed > 0
      /\ Unit \in Nat /\ Unit > 0 /\ MaxDuration \in Nat /\ end \in Nat
  BY FloatConstants
<1>2. /\ ns \in Nat
      /\ one \in Nat /\ one > 0 /\ most \in Nat /\ least \in Nat
      /\ \/ ns < Unit /\ least < one
         \/ ns * one <= Unit * most /\ Unit * least <= ns * one
  BY <1>1, PaceRounds
<1>3. pace = IF ns > end * Unit \/ conv <= 0 THEN NotRepresentable ELSE conv
  BY <1>1, PacingAssumption DEF CheckedPace, PacingAssumption
<1> HIDE DEF ns, one, most, least
<1>4. /\ end * Unit \in Nat /\ ns * one \in Nat /\ Unit * most \in Nat /\ Unit * least \in Nat
      /\ Unit <= end * Unit
  <2>1. 1 * Unit <= end * Unit
    BY <1>1, ProductGrows
  <2> QED
    BY <1>1, <1>2, <2>1, ProductNat
<1>5. conv = IF ns < end * Unit THEN ns \div Unit
             ELSE IF choice THEN MaxDuration ELSE NotRepresentable
  BY DEF toDuration
<1>6. ns \div Unit \in Nat /\ (ns \div Unit) * Unit <= ns
      /\ \A k \in Int : k * Unit <= ns => k <= ns \div Unit
  BY <1>1, <1>2, QuotientBelow, QuotientNat
<1> DEFINE div == ns \div Unit
<1> HIDE DEF div
<1>7. /\ div \in Nat /\ div * Unit <= ns
      /\ \A k \in Int : k * Unit <= ns => k <= div
      /\ conv = IF ns < end * Unit THEN div
                ELSE IF choice THEN MaxDuration ELSE NotRepresentable
  BY <1>5, <1>6 DEF div
<1> HIDE DEF conv
<1>8. ns <= (div + 1) * Unit
  <2> SUFFICES ASSUME (div + 1) * Unit <= ns
               PROVE  FALSE
    BY <1>1, <1>2, <1>7
  <2>1. div + 1 <= div
    BY <1>7
  <2> QED
    BY <1>7, <2>1
\* Too long: what is refused reaches beyond an int64.
<1>9. ASSUME ns >= end * Unit
      PROVE  most >= end * one
  <2>1. ns * one <= Unit * most
    BY <1>1, <1>2, <1>4, <1>9
  <2>2. (end * Unit) * one <= ns * one
    BY <1>2, <1>4, <1>9, ProductGrows
  <2>3. (end * Unit) * one = (end * one) * Unit /\ Unit * most = most * Unit
        /\ end * one \in Nat /\ (end * one) * Unit \in Nat
    BY <1>1, <1>2, ProductNat
  <2>4. (end * one) * Unit <= most * Unit
    BY <1>4, <2>1, <2>2, <2>3
  <2> QED
    BY <1>1, <1>2, <2>3, <2>4, FactorDropped
\* Too short.
<1>10. ASSUME ns < Unit
       PROVE  least < one
  <2>1. CASE ns * one <= Unit * most /\ Unit * least <= ns * one
    <3>1. (ns + 1) * one <= Unit * one
      BY <1>1, <1>2, <1>10, ProductGrows
    <3>2. (ns + 1) * one = ns * one + one /\ Unit * one \in Nat
      BY <1>1, <1>2, ProductNat
    <3> SUFFICES ASSUME one <= least
                 PROVE  FALSE
      BY <1>2
    <3>3. Unit * one <= Unit * least
      BY <1>1, <1>2, ProductGrows
    <3> QED
      BY <1>2, <1>4, <2>1, <3>1, <3>2, <3>3
  <2> QED
    BY <1>2, <2>1
<1>11. CASE ns > end * Unit \/ conv <= 0
  <2>1. pace = NotRepresentable
    BY <1>3, <1>11
  <2>2. CASE ns >= end * Unit
    BY <1>9, <2>1, <2>2 DEF one, most, least
  <2>3. CASE ns < end * Unit
    <3>1. div <= 0
      BY <1>2, <1>4, <1>7, <1>11, <2>3
    <3>2. div = 0
      BY <1>7, <3>1
    <3>3. ns < Unit
      <4> SUFFICES ASSUME 1 * Unit <= ns
                   PROVE  FALSE
        BY <1>1, <1>2
      <4>1. 1 <= div
        BY <1>7
      <4> QED
        BY <3>2, <4>1
    <3> QED
      BY <1>10, <2>1, <3>3 DEF one, most, least
  <2> QED
    BY <1>2, <1>4, <2>2, <2>3
<1>12. CASE ~ (ns > end * Unit \/ conv <= 0)
  <2>1. pace = conv /\ ns <= end * Unit /\ ~ (conv <= 0)
    BY <1>2, <1>3, <1>4, <1>12
  <2>2. conv \in Nat /\ conv > 0 /\ conv * Unit <= ns /\ ns <= (conv + 1) * Unit
    <3>1. CASE ns < end * Unit
      BY <1>7, <1>8, <2>1, <3>1
    <3>2. CASE ~ (ns < end * Unit)
      <4>1. ns = end * Unit
        BY <1>2, <1>4, <2>1, <3>2
      <4>2. NotRepresentable <= 0
        BY <1>1 DEF NotRepresentable
      <4>3. conv = MaxDuration
        BY <1>7, <2>1, <3>2, <4>2
      <4>4. MaxDuration * Unit <= end * Unit
        BY <1>1, ProductGrows
      <4> QED
        BY <1>1, <1>4, <2>1, <4>1, <4>3, <4>4
    <3> QED
      BY <3>1, <3>2
  <2>3. ns >= Unit
    <3>1. 1 * Unit <= conv * Unit /\ conv * Unit \in Nat
      BY <1>1, <2>2, ProductGrows, ProductNat
    <3> QED
      BY <1>1, <1>2, <2>2, <3>1
  <2>4. ns * one <= Unit * most /\ Unit * least <= ns * one
    BY <1>1, <1>2, <2>3
  <2>5. (conv * Unit) * one <= ns * one /\ ns * one <= ((conv + 1) * Unit) * one
    <3>1. conv * Unit \in Nat /\ (conv + 1) * Unit \in Nat
      BY <1>1, <2>2, ProductNat
    <3> QED
      BY <1>2, <2>2, <3>1, ProductGrows
  <2>6. /\ (conv * Unit) * one = (conv * one) * Unit
        /\ ((conv + 1) * Unit) * one = ((conv + 1) * one) * Unit
        /\ Unit * most = most * Unit /\ Unit * least = least * Unit
        /\ conv * one \in Nat /\ (conv + 1) * one \in Nat
        /\ (conv * one) * Unit \in Nat /\ ((conv + 1) * one) * Unit \in Nat
    BY <1>1, <1>2, <2>2, ProductNat
  <2>7. (conv * one) * Unit <= most * Unit /\ least * Unit <= ((conv + 1) * one) * Unit
    BY <1>4, <2>4, <2>5, <2>6
  <2>8. conv * one <= most /\ least <= (conv + 1) * one
    BY <1>1, <1>2, <2>6, <2>7, FactorDropped
  <2>9. conv # NotRepresentable
    BY <1>1, <2>2 DEF NotRepresentable
  <2> HIDE DEF pace
  <2> QED
    BY <2>1, <2>2, <2>8, <2>9 DEF one, most, least, pace
<1> QED
  BY <1>11, <1>12

-----------------------------------------------------------------------------
(***************************************************************************)
(* A scenario's way from step to step.                                     *)
(***************************************************************************)

\* The plant knows where a scenario is: its next step was accepted by Load, it is
\* not later than it can be, and nobody else moves the clock while it runs.
ScenarioInv ==
    /\ scenario.gap \in Nat /\ scenario.due \in Int /\ scenario.due <= scenario.gap
    /\ scenario.due >= -(MaxLate + 1)
    /\ scenario = [at |-> scenario.at, gap |-> scenario.gap,
                   due |-> scenario.due, speed |-> scenario.speed]
    /\ scenario.at \in {"loaded", "running", "stopped"} =>
           ValidatePacing(scenario.gap, StepInterval, scenario.speed, Saturates)
    /\ scenario.speed \in Speeds \cup {noScenario.speed}
    /\ advance \in Nat
    /\ advance > 0 => scenario.at # "running"

\* What Load accepts.
LEMMA AcceptedValid ==
    ASSUME NEW gap, NEW speed, <<gap, speed>> \in accepted
    PROVE  /\ gap \in Nat /\ ValidatePacing(gap, StepInterval, speed, Saturates)
           /\ speed \in Speeds
<1>1. PICK g \in Totals, v \in ScenarioSpeeds :
          <<gap, speed>> \in IF ValidatePacing(g, StepInterval, v, Saturates)
                             THEN {<<g, v>>} ELSE {}
  BY DEF accepted
<1>2. ValidatePacing(g, StepInterval, v, Saturates) /\ <<gap, speed>> = <<g, v>>
  BY <1>1
<1>3. gap = g /\ speed = v
  BY <1>2
<1> QED
  BY <1>2, <1>3, Constants, PlantAssumption DEF PlantAssumption

\* The next increment is whole or all that is left.
LEMMA NextChunk ==
    ASSUME NEW left \in Nat, left > 0
    PROVE  /\ nextChunk(StepInterval, left) \in 1..StepInterval
           /\ left - nextChunk(StepInterval, left) \in Nat
           /\ \/ left < StepInterval /\ nextChunk(StepInterval, left) = left
              \/ left >= StepInterval /\ nextChunk(StepInterval, left) = StepInterval
  BY Constants DEF nextChunk

\* Two numbers that differ by a multiple of the divisor have one remainder.
LEMMA RemainderShared ==
    ASSUME NEW n \in Nat, NEW k \in Nat, NEW m \in Nat, m > 0, k <= n, k < m,
           (n - k) % m = 0
    PROVE  n % m = k
<1> DEFINE e == n - k  q == e \div m
<1>1. e \in Int /\ q \in Int /\ e = m * q + (e % m)
  BY Quotient
<1>2. e % m = 0
  OBVIOUS
<1> HIDE DEF q, e
<1>3. m * q \in Int /\ e = m * q
  BY <1>1, <1>2
<1>4. n = m * q + k
  BY <1>3 DEF e
<1>5. k \in Int /\ 0 <= k /\ m \in Int /\ n \in Int
  OBVIOUS
<1> QED
  BY <1>1, <1>4, <1>5, RemainderUnique

\* A number's multiple of the divisor more has no remainder either.
LEMMA RemainderAdded ==
    ASSUME NEW n \in Nat, NEW m \in Nat, m > 0, n % m = 0
    PROVE  (n + m) % m = 0
<1> DEFINE k == n + m
<1>1. k \in Nat /\ m <= k /\ k - m = n
  OBVIOUS
<1>2. (k - m) % m = k % m
  BY <1>1, RemainderKept
<1> QED
  BY <1>1, <1>2

\* Unless the clock has drifted, the next increment was looked at by Load.
LEMMA ChunkWasValidated ==
    ASSUME ScenarioInv, scenario.at = "running", scenario.due > 0, ~drifted
    PROVE  paced
<1> DEFINE gap == scenario.gap  due == scenario.due  SI == StepInterval  v == scenario.speed
<1>1. /\ gap \in Nat /\ due \in Nat /\ due > 0 /\ due <= gap /\ SI \in Nat /\ SI > 0
      /\ (gap - due) % SI = 0
      /\ ValidatePacing(gap, SI, v, Saturates)
  BY Constants DEF ScenarioInv, drifted
<1>2. /\ gap >= SI => representable(SI, v, Saturates)
      /\ gap % SI > 0 => representable(gap % SI, v, Saturates)
  BY <1>1 DEF ValidatePacing
<1>3. CASE due < SI
  <2>1. gap % SI = due
    BY <1>1, <1>3, RemainderShared
  <2>2. chunk = due
    BY <1>1, <1>3, NextChunk DEF chunk
  <2> QED
    BY <1>1, <1>2, <2>1, <2>2 DEF paced
<1>4. CASE due >= SI
  <2>1. chunk = SI
    BY <1>1, <1>4, NextChunk DEF chunk
  <2> QED
    BY <1>1, <1>2, <1>4, <2>1 DEF paced
<1> QED
  BY <1>1, <1>3, <1>4

\* What a move of the clock leaves of the scenario.
LEMMA ElapseFacts ==
    ASSUME ScenarioInv, NEW dt \in Nat, elapse(dt)
    PROVE  /\ scenario'.at = scenario.at /\ scenario'.gap = scenario.gap
           /\ scenario'.speed = scenario.speed
           /\ scenario' = [at |-> scenario'.at, gap |-> scenario'.gap,
                           due |-> scenario'.due, speed |-> scenario'.speed]
           /\ scenario'.due \in Int /\ scenario'.due <= scenario.due
           /\ scenario'.due >= -(MaxLate + 1)
           /\ scenario.at = "running" /\ dt <= scenario.due => scenario'.due = scenario.due - dt
<1> DEFINE due == scenario.due - dt
           new == IF due < -MaxLate THEN -(MaxLate + 1) ELSE due
<1>1. /\ scenario.due \in Int /\ MaxLate \in Nat /\ scenario.due >= -(MaxLate + 1)
      /\ scenario = [at |-> scenario.at, gap |-> scenario.gap,
                     due |-> scenario.due, speed |-> scenario.speed]
  BY Constants DEF ScenarioInv
<1>2. new \in Int /\ new <= scenario.due /\ new >= -(MaxLate + 1)
      /\ (dt <= scenario.due => new = scenario.due - dt)
  BY <1>1
<1>3. CASE scenario.at \in {"running", "stopped"}
  <2>1. scenario' = [scenario EXCEPT !.due = new]
    BY <1>3 DEF elapse
  <2> HIDE DEF new
  <2>2. scenario' = [at |-> scenario.at, gap |-> scenario.gap,
                     due |-> new, speed |-> scenario.speed]
    BY <1>1, <2>1
  <2> QED
    BY <1>2, <2>2
<1>4. CASE scenario.at \notin {"running", "stopped"}
  <2>1. scenario' = scenario
    BY <1>4 DEF elapse
  <2> QED
    BY <1>1, <1>4, <2>1
<1> QED
  BY <1>3, <1>4

\* A freshly loaded scenario.
LEMMA LoadedFacts ==
    ASSUME NEW gap \in Nat, NEW speed
    PROVE  LET s == loaded(gap, speed) IN
           /\ s.at = "loaded" /\ s.gap = gap /\ s.due = gap /\ s.speed = speed
           /\ s = [at |-> s.at, gap |-> s.gap, due |-> s.due, speed |-> s.speed]
  BY DEF loaded

\* A step that is done, and the last one.
LEMMA StepDone ==
    ASSUME ScenarioInv, NEW gap \in Nat
    PROVE  /\ LET s == [scenario EXCEPT !.gap = gap, !.due = @ + gap] IN
              /\ s = [at |-> scenario.at, gap |-> gap,
                      due |-> scenario.due + gap, speed |-> scenario.speed]
              /\ s.at = scenario.at /\ s.gap = gap /\ s.due = scenario.due + gap
              /\ s.speed = scenario.speed
           /\ LET s == [scenario EXCEPT !.gap = 0, !.due = 0, !.at = "ended"] IN
              /\ s = [at |-> "ended", gap |-> 0, due |-> 0, speed |-> scenario.speed]
              /\ s.at = "ended" /\ s.gap = 0 /\ s.due = 0 /\ s.speed = scenario.speed
<1>1. scenario = [at |-> scenario.at, gap |-> scenario.gap,
                  due |-> scenario.due, speed |-> scenario.speed]
  BY DEF ScenarioInv
<1>2. ASSUME NEW g, NEW due
      PROVE  [scenario EXCEPT !.gap = g, !.due = due]
               = [at |-> scenario.at, gap |-> g, due |-> due, speed |-> scenario.speed]
  <2>1. [scenario EXCEPT !.gap = g]
          = [at |-> scenario.at, gap |-> g, due |-> scenario.due, speed |-> scenario.speed]
    BY <1>1
  <2> DEFINE r == [scenario EXCEPT !.gap = g]
  <2>2. [r EXCEPT !.due = due]
          = [at |-> scenario.at, gap |-> g, due |-> due, speed |-> scenario.speed]
    <3> HIDE DEF r
    <3>1. r = [at |-> scenario.at, gap |-> g, due |-> scenario.due, speed |-> scenario.speed]
      BY <2>1 DEF r
    <3> QED
      BY <3>1
  <2>3. [scenario EXCEPT !.gap = g, !.due = due] = [r EXCEPT !.due = due]
    OBVIOUS
  <2> QED
    BY <2>2, <2>3
<1>3. [scenario EXCEPT !.gap = 0, !.due = 0, !.at = "ended"]
        = [at |-> "ended", gap |-> 0, due |-> 0, speed |-> scenario.speed]
  <2> DEFINE r == [scenario EXCEPT !.gap = 0, !.due = 0]
  <2>1. r = [at |-> scenario.at, gap |-> 0, due |-> 0, speed |-> scenario.speed]
    BY <1>2
  <2>2. [scenario EXCEPT !.gap = 0, !.due = 0, !.at = "ended"] = [r EXCEPT !.at = "ended"]
    OBVIOUS
  <2> HIDE DEF r
  <2>3. [r EXCEPT !.at = "ended"] = [at |-> "ended", gap |-> 0, due |-> 0, speed |-> scenario.speed]
    BY <2>1
  <2> QED
    BY <2>2, <2>3
<1> QED
  BY <1>2, <1>3

\* A run that begins or ends where it is.
LEMMA AtChanged ==
    ASSUME ScenarioInv, NEW at
    PROVE  LET s == [scenario EXCEPT !.at = at] IN
           /\ s = [at |-> at, gap |-> scenario.gap, due |-> scenario.due, speed |-> scenario.speed]
           /\ s.at = at /\ s.gap = scenario.gap /\ s.due = scenario.due /\ s.speed = scenario.speed
<1>1. \A r : r = [at |-> r.at, gap |-> r.gap, due |-> r.due, speed |-> r.speed] =>
        LET s == [r EXCEPT !.at = at] IN
        /\ s = [at |-> at, gap |-> r.gap, due |-> r.due, speed |-> r.speed]
        /\ s.at = at /\ s.gap = r.gap /\ s.due = r.due /\ s.speed = r.speed
  OBVIOUS
<1> QED
  BY <1>1 DEF ScenarioInv

LEMMA ScenarioInit == Init => ScenarioInv
  BY Constants DEF Init, ScenarioInv, noScenario

\* Each of the ways in which the scenario or the advance changes.
LEMMA ScenarioElapses ==
    ASSUME ScenarioInv, NEW dt \in Nat, elapse(dt), advance' \in Nat, advance' <= advance
    PROVE  ScenarioInv'
<1>1. /\ scenario'.at = scenario.at /\ scenario'.gap = scenario.gap
      /\ scenario'.speed = scenario.speed
      /\ scenario' = [at |-> scenario'.at, gap |-> scenario'.gap,
                      due |-> scenario'.due, speed |-> scenario'.speed]
      /\ scenario'.due \in Int /\ scenario'.due <= scenario.due
      /\ scenario'.due >= -(MaxLate + 1)
  BY ElapseFacts
<1>2. /\ scenario.gap \in Nat /\ scenario.due \in Int /\ scenario.due <= scenario.gap
      /\ advance \in Nat /\ (advance > 0 => scenario.at # "running")
      /\ (scenario.at \in {"loaded", "running", "stopped"} =>
             ValidatePacing(scenario.gap, StepInterval, scenario.speed, Saturates))
  BY DEF ScenarioInv
<1>3. scenario'.due <= scenario'.gap /\ (advance' > 0 => scenario'.at # "running")
  BY <1>1, <1>2
<1> QED
  BY <1>1, <1>2, <1>3 DEF ScenarioInv, ValidatePacing

clockMoves(dt) ==
    /\ elapse(dt) /\ advance' \in Nat /\ advance' <= advance
    /\ (scenario.at = "running" => dt = chunk /\ scenario.due > 0 /\ dt <= scenario.due)

LEMMA ScenarioMoves ==
    ASSUME ScenarioInv, [Next]_vars
    PROVE  \/ UNCHANGED <<scenario, advance>>
           \/ \E dt \in 1..StepInterval : clockMoves(dt)
           \/ idle /\ advance' \in Nat /\ UNCHANGED scenario
           \/ /\ UNCHANGED advance
              /\ \/ \E gap \in Nat : \E speed \in Speeds :
                       /\ scenario' = loaded(gap, speed)
                       /\ ValidatePacing(gap, StepInterval, speed, Saturates)
                 \/ idle /\ scenario' = [scenario EXCEPT !.at = "running"]
                    /\ scenario.at \in {"loaded", "stopped"}
                 \/ /\ scenario.at = "running"
                    /\ scenario' = [scenario EXCEPT !.at = "stopped"]
                 \/ /\ scenario.at = "running" /\ scenario.due <= 0
                    /\ \/ \E gap \in Nat :
                             /\ ValidatePacing(gap, StepInterval, scenario.speed, Saturates)
                             /\ scenario' = [scenario EXCEPT !.gap = gap, !.due = @ + gap]
                       \/ scenario' = [scenario EXCEPT !.gap = 0, !.due = 0, !.at = "ended"]
<1>1. CASE UNCHANGED vars \/ \E p \in Demands, inv \in BOOLEAN : Demand(p, inv)
  BY <1>1 DEF vars, Demand
<1>2. CASE LiveTick
  <2>1. elapse(StepInterval) /\ advance' = advance /\ scenario.at # "running"
    BY <1>2 DEF LiveTick, idle
  <2>2. StepInterval \in 1..StepInterval /\ advance \in Nat
    BY Constants DEF ScenarioInv
  <2>3. clockMoves(StepInterval)
    BY <2>1, <2>2 DEF clockMoves
  <2> QED
    BY <2>2, <2>3
<1>3. CASE requestTick
  <2> DEFINE next == nextChunk(StepInterval, advance)
  <2>1. advance > 0 /\ elapse(next) /\ advance' = advance - next
    BY <1>3 DEF requestTick
  <2>2. next \in 1..StepInterval /\ advance - next \in Nat
    BY <2>1, NextChunk DEF ScenarioInv
  <2> HIDE DEF next
  <2>3. advance' \in Nat /\ advance' <= advance
    BY <2>1, <2>2, Constants DEF ScenarioInv
  <2>4. scenario.at # "running"
    BY <2>1 DEF ScenarioInv
  <2>5. clockMoves(next)
    BY <2>1, <2>3, <2>4 DEF clockMoves
  <2> QED
    BY <2>2, <2>5
<1>4. CASE runTick
  <2>1. scenario.due > 0 /\ elapse(chunk) /\ advance' = advance
    BY <1>4 DEF runTick
  <2>2. chunk \in 1..StepInterval /\ scenario.due - chunk \in Nat
    BY <2>1, NextChunk DEF ScenarioInv, chunk
  <2>3. chunk <= scenario.due
    BY <2>2, Constants DEF ScenarioInv
  <2>4. advance' \in Nat /\ advance' <= advance
    BY <2>1 DEF ScenarioInv
  <2>5. clockMoves(chunk)
    BY <2>1, <2>3, <2>4 DEF clockMoves
  <2> QED
    BY <2>2, <2>5
<1>5. ASSUME NEW total \in Totals, FastForward(total)
      PROVE  idle /\ advance' \in Nat /\ UNCHANGED scenario
  BY <1>5, Constants DEF FastForward
<1>6. ASSUME NEW gap \in Totals, NEW speed \in ScenarioSpeeds, Load(gap, speed)
      PROVE  /\ UNCHANGED advance
             /\ \E g \in Nat : \E v \in Speeds :
                   /\ scenario' = loaded(g, v)
                   /\ ValidatePacing(g, StepInterval, v, Saturates)
  BY <1>6, AcceptedValid DEF Load
<1>7. CASE Start
  BY <1>7 DEF Start
<1>8. CASE paceFails \/ Stop
  BY <1>8 DEF paceFails, Stop
<1>9. CASE executeStep
  <2>1. scenario.at = "running" /\ scenario.due <= 0 /\ UNCHANGED advance
    BY <1>9 DEF executeStep
  <2>2. ASSUME NEW gap \in Totals, <<gap, scenario.speed>> \in accepted,
               scenario' = [scenario EXCEPT !.gap = gap, !.due = @ + gap]
        PROVE  \E g \in Nat :
                  /\ ValidatePacing(g, StepInterval, scenario.speed, Saturates)
                  /\ scenario' = [scenario EXCEPT !.gap = g, !.due = @ + g]
    BY <2>2, AcceptedValid
  <2>3. \/ \E gap \in Totals :
             /\ <<gap, scenario.speed>> \in accepted
             /\ scenario' = [scenario EXCEPT !.gap = gap, !.due = @ + gap]
        \/ scenario' = [scenario EXCEPT !.gap = 0, !.due = 0, !.at = "ended"]
        \/ scenario' = [scenario EXCEPT !.at = "stopped"]
    BY <1>9 DEF executeStep
  <2> QED
    BY <2>1, <2>2, <2>3
<1>10. CASE Reset
  <2>1. advance' = advance
    BY <1>10 DEF Reset
  <2>2. CASE scenario.at = "none"
    BY <1>10, <2>1, <2>2 DEF Reset
  <2>3. CASE scenario.at # "none"
    <3>1. PICK gap \in Totals : /\ <<gap, scenario.speed>> \in accepted
                                /\ scenario' = loaded(gap, scenario.speed)
      BY <1>10, <2>3 DEF Reset
    <3>2. /\ gap \in Nat /\ ValidatePacing(gap, StepInterval, scenario.speed, Saturates)
          /\ scenario.speed \in Speeds
      BY <3>1, AcceptedValid
    <3> QED
      BY <2>1, <3>1, <3>2
  <2> QED
    BY <2>2, <2>3
<1> QED
  BY <1>1, <1>2, <1>3, <1>4, <1>5, <1>6, <1>7, <1>8, <1>9, <1>10 DEF Next, Tick

LEMMA ScenarioNext == ScenarioInv /\ [Next]_vars => ScenarioInv'
<1> SUFFICES ASSUME ScenarioInv, [Next]_vars
             PROVE  ScenarioInv'
  OBVIOUS
<1>0. /\ scenario.gap \in Nat /\ scenario.due \in Int /\ scenario.due <= scenario.gap
      /\ scenario.due >= -(MaxLate + 1) /\ MaxLate \in Nat /\ advance \in Nat
  BY Constants DEF ScenarioInv
<1>1. CASE UNCHANGED <<scenario, advance>>
  BY <1>1 DEF ScenarioInv, ValidatePacing
<1>2. ASSUME NEW dt \in 1..StepInterval, clockMoves(dt)
      PROVE  ScenarioInv'
  BY <1>2, Constants, ScenarioElapses DEF clockMoves
<1>3. CASE idle /\ advance' \in Nat /\ UNCHANGED scenario
  BY <1>3 DEF ScenarioInv, ValidatePacing, idle
<1>4. ASSUME UNCHANGED advance, NEW gap \in Nat, NEW speed \in Speeds,
             scenario' = loaded(gap, speed),
             ValidatePacing(gap, StepInterval, speed, Saturates)
      PROVE  ScenarioInv'
  <2>1. /\ scenario'.at = "loaded" /\ scenario'.gap = gap /\ scenario'.due = gap
        /\ scenario'.speed = speed
        /\ scenario' = [at |-> scenario'.at, gap |-> scenario'.gap,
                        due |-> scenario'.due, speed |-> scenario'.speed]
    BY <1>4, LoadedFacts
  <2> QED
    BY <1>0, <1>4, <2>1 DEF ScenarioInv, ValidatePacing
<1>5. ASSUME UNCHANGED advance, scenario.at \in {"loaded", "stopped", "running"},
             NEW at \in {"running", "stopped"},
             scenario' = [scenario EXCEPT !.at = at], at = "running" => idle
      PROVE  ScenarioInv'
  <2>1. /\ scenario' = [at |-> at, gap |-> scenario.gap, due |-> scenario.due, speed |-> scenario.speed]
        /\ scenario'.at = at /\ scenario'.gap = scenario.gap /\ scenario'.due = scenario.due
        /\ scenario'.speed = scenario.speed
    BY <1>5, AtChanged
  <2>2. advance' > 0 => scenario'.at # "running"
    BY <1>0, <1>5, <2>1 DEF idle
  <2>3. ValidatePacing(scenario.gap, StepInterval, scenario.speed, Saturates)
    BY <1>5 DEF ScenarioInv
  <2> QED
    BY <1>0, <1>5, <2>1, <2>2, <2>3 DEF ScenarioInv, ValidatePacing
<1>6. ASSUME UNCHANGED advance, scenario.at = "running", scenario.due <= 0, NEW gap \in Nat,
             ValidatePacing(gap, StepInterval, scenario.speed, Saturates),
             scenario' = [scenario EXCEPT !.gap = gap, !.due = @ + gap]
      PROVE  ScenarioInv'
  <2>1. /\ scenario' = [at |-> scenario.at, gap |-> gap,
                        due |-> scenario.due + gap, speed |-> scenario.speed]
        /\ scenario'.at = scenario.at /\ scenario'.gap = gap /\ scenario'.due = scenario.due + gap
        /\ scenario'.speed = scenario.speed
    BY <1>6, StepDone
  <2>2. advance' > 0 => scenario'.at # "running"
    BY <1>6, <2>1 DEF ScenarioInv
  <2>3. scenario'.due \in Int /\ scenario'.due <= gap /\ scenario'.due >= -(MaxLate + 1)
    BY <1>0, <1>6, <2>1
  <2> QED
    BY <1>0, <1>6, <2>1, <2>2, <2>3 DEF ScenarioInv, ValidatePacing
<1>7. ASSUME UNCHANGED advance, scenario' = [scenario EXCEPT !.gap = 0, !.due = 0, !.at = "ended"]
      PROVE  ScenarioInv'
  <2>1. /\ scenario' = [at |-> "ended", gap |-> 0, due |-> 0, speed |-> scenario.speed]
        /\ scenario'.at = "ended" /\ scenario'.gap = 0 /\ scenario'.due = 0
        /\ scenario'.speed = scenario.speed
    BY <1>7, StepDone
  <2>2. scenario'.gap \in Nat /\ scenario'.due \in Int /\ scenario'.due <= scenario'.gap
        /\ scenario'.due >= -(MaxLate + 1) /\ advance' \in Nat
    BY <1>0, <1>7, <2>1
  <2>3. /\ scenario'.at \notin {"loaded", "running", "stopped"}
        /\ scenario' = [at |-> scenario'.at, gap |-> scenario'.gap,
                        due |-> scenario'.due, speed |-> scenario'.speed]
    BY <2>1
  <2> QED
    BY <2>1, <2>2, <2>3 DEF ScenarioInv
<1>8. ASSUME UNCHANGED advance, idle, scenario' = [scenario EXCEPT !.at = "running"],
             scenario.at \in {"loaded", "stopped"}
      PROVE  ScenarioInv'
  BY <1>5, <1>8
<1>9. ASSUME UNCHANGED advance, scenario.at = "running", scenario' = [scenario EXCEPT !.at = "stopped"]
      PROVE  ScenarioInv'
  BY <1>5, <1>9
<1> QED
  BY ScenarioMoves, <1>1, <1>2, <1>3, <1>4, <1>6, <1>7, <1>8, <1>9

\* No run of a scenario makes the clock drift.
LEMMA RunKeepsGrid ==
    ASSUME ScenarioInv, [Next]_vars, ~drifted, scenario.at = "running"
    PROVE  ~drifted'
<1>0. /\ scenario.gap \in Nat /\ scenario.due \in Int /\ scenario.due <= scenario.gap
      /\ scenario.due >= 0 /\ StepInterval \in Nat /\ StepInterval > 0
      /\ scenario.due > 0 => (scenario.gap - scenario.due) % StepInterval = 0
  BY Constants DEF ScenarioInv, drifted
<1>1. ASSUME scenario'.due = scenario.due, scenario'.gap = scenario.gap
      PROVE  ~drifted'
  BY <1>1 DEF drifted
<1>2. ASSUME NEW dt \in 1..StepInterval, clockMoves(dt)
      PROVE  ~drifted'
  <2> DEFINE gap == scenario.gap  due == scenario.due  SI == StepInterval  n == gap - due
  <2>0. elapse(dt) /\ dt = chunk /\ due > 0 /\ dt <= due
    BY <1>2 DEF clockMoves
  <2>1. scenario'.gap = gap /\ scenario'.due = due - dt
    BY <2>0, ElapseFacts
  <2>2. (due < SI /\ dt = due) \/ (due >= SI /\ dt = SI)
    BY <1>0, <2>0, NextChunk DEF chunk
  <2>3. n \in Nat /\ n % SI = 0
    BY <1>0, <2>0
  <2>4. (n + SI) % SI = 0
    BY <1>0, <2>3, RemainderAdded
  <2>5. scenario'.due >= 0
    BY <1>0, <2>0, <2>1
  <2>6. CASE due < SI /\ dt = due
    BY <1>0, <2>1, <2>6 DEF drifted
  <2>7. CASE due >= SI /\ dt = SI
    <3>1. scenario'.gap - scenario'.due = n + SI
      BY <1>0, <2>1, <2>7
    <3> QED
      BY <2>4, <2>5, <3>1, <1>0, <2>1, <2>7 DEF drifted
  <2> QED
    BY <2>2, <2>6, <2>7
<1>3. ASSUME NEW gap \in Nat, NEW speed \in Speeds, scenario' = loaded(gap, speed)
      PROVE  ~drifted'
  <2>1. scenario'.gap = gap /\ scenario'.due = gap
    BY <1>3, LoadedFacts
  <2>2. (gap - gap) % StepInterval = 0
    BY <1>0, RemainderSmall
  <2> QED
    BY <2>1, <2>2 DEF drifted
<1>4. ASSUME NEW at, scenario' = [scenario EXCEPT !.at = at]
      PROVE  ~drifted'
  BY <1>1, <1>4, AtChanged
<1>5. ASSUME NEW gap \in Nat, scenario.due <= 0,
             scenario' = [scenario EXCEPT !.gap = gap, !.due = @ + gap]
      PROVE  ~drifted'
  <2>1. scenario'.gap = gap /\ scenario'.due = scenario.due + gap
    BY <1>5, StepDone
  <2>2. scenario'.due = gap
    BY <1>0, <1>5, <2>1
  <2>3. (gap - gap) % StepInterval = 0
    BY <1>0, RemainderSmall
  <2> QED
    BY <2>1, <2>2, <2>3 DEF drifted
<1>6. ASSUME scenario' = [scenario EXCEPT !.gap = 0, !.due = 0, !.at = "ended"]
      PROVE  ~drifted'
  <2>1. scenario'.due = 0
    BY <1>6, StepDone
  <2> QED
    BY <2>1 DEF drifted
<1>7. ASSUME UNCHANGED scenario
      PROVE  ~drifted'
  BY <1>1, <1>7
<1> QED
  BY ScenarioMoves, <1>2, <1>3, <1>4, <1>5, <1>6, <1>7

\* Load's check covers every pace of a run, for any speed, increment and steps,
\* and over stops, resumes and live ticks, as long as nothing has made the clock
\* drift, which no run does (scenario/runner.go validateAll, physics/runner.go
\* ValidatePacing and fastForwardLocked).
THEOREM FailsOnlyWhenDrifted == Spec => PacingIsPromised
<1>1. ScenarioInv /\ [Next]_vars =>
        [/\ paceFails => drifted
         /\ drifted' => drifted \/ scenario.at # "running"]_vars
  <2> SUFFICES ASSUME ScenarioInv, [Next]_vars
               PROVE  /\ paceFails => drifted
                      /\ drifted' => drifted \/ scenario.at # "running"
    OBVIOUS
  <2>1. paceFails => drifted
    BY ChunkWasValidated DEF paceFails
  <2>2. drifted' => drifted \/ scenario.at # "running"
    BY RunKeepsGrid
  <2> QED
    BY <2>1, <2>2
<1> QED
  BY <1>1, ScenarioInit, ScenarioNext, PTL DEF Spec, PacingIsPromised

-----------------------------------------------------------------------------
(***************************************************************************)
(* Power limits and energy.                                                *)
(***************************************************************************)
\* The taper is within its band and the headroom, the derating within its range.
LEMMA TaperBounds ==
    ASSUME NEW h \in Nat
    PROVE  taper(h) \in 0..Band /\ taper(h) <= h
  BY Constants DEF taper, clamp

LEMMA DerateBounds ==
    ASSUME NEW t \in Int
    PROVE  thermalDerate(t) \in 0..DerateFull - DerateStart
  BY Constants DEF thermalDerate, clamp

\* A limit is never negative, is nought without headroom, and stays in
\* proportion to the taper.
LEMMA LimitBounds ==
    ASSUME NEW h \in Nat, NEW t \in Int
    PROVE  /\ limit(h, t) \in Nat
           /\ h = 0 => limit(h, t) = 0
           /\ limit(h, t) * Band <= Nominal * taper(h)
<1> DEFINE der == thermalDerate(t)  tap == taper(h)  range == DerateFull - DerateStart
           n == Nominal * der * tap  m == range * Band  l == n \div m
<1>1. /\ der \in Nat /\ der <= range /\ tap \in Nat /\ tap <= h
      /\ range \in Nat /\ range > 0 /\ Band \in Nat /\ Band > 0 /\ Nominal \in Nat
  BY Constants, TaperBounds, DerateBounds
<1>2. limit(h, t) = l
  BY DEF limit
<1> HIDE DEF der, tap, range
<1>3. n \in Nat /\ m \in Nat /\ m > 0 /\ (tap = 0 => n = 0)
  <2>1. Nominal * der \in Nat /\ m \in Nat
    BY <1>1, ProductNat
  <2>2. (Nominal * der) * tap \in Nat
    BY <2>1, <1>1, ProductNat
  <2>3. m > 0 /\ (tap = 0 => n = 0)
    BY <1>1, SMT
  <2> QED
    BY <2>1, <2>2, <2>3
<1>4. l \in Nat /\ (n = 0 => l = 0) /\ l * m <= n
  <2> HIDE DEF n, m
  <2> QED
    BY <1>3, QuotientNat, QuotientBelow
<1>5. l * Band <= Nominal * tap
  <2>1. /\ l * Band \in Int /\ Nominal * tap \in Nat
        /\ (l * Band) * range = l * m
        /\ n = der * (Nominal * tap) /\ (Nominal * tap) * range = range * (Nominal * tap)
    <3> HIDE DEF l
    <3> QED
      BY <1>1, <1>4, ProductNat, SMT
  <2>2. der * (Nominal * tap) <= range * (Nominal * tap)
    BY <1>1, <2>1, ProductGrows
  <2>3. l * m \in Int /\ n \in Int /\ range * (Nominal * tap) \in Int
    <3> HIDE DEF l
    <3> QED
      BY <1>1, <1>3, <1>4, <2>1, ProductNat
  <2>4. (l * Band) * range <= (Nominal * tap) * range
    <3> HIDE DEF l, m, n
    <3> QED
      BY <1>4, <2>1, <2>2, <2>3
  <2> HIDE DEF l
  <2> QED
    BY <1>1, <2>1, <2>4, FactorDropped
<1>6. h = 0 => l = 0
  BY <1>1, <1>3, <1>4
<1> HIDE DEF l
<1> QED
  BY <1>2, <1>4, <1>5, <1>6 DEF tap

\* Charging stores no more than the meter counts in, discharging takes no less
\* than it counts out: a and its quotients are energies of one increment.
LEMMA ChargeLosses ==
    ASSUME NEW a \in Nat
    PROVE  /\ (a * EffNum) \div (Hour * EffDen) \in Nat
           /\ (a * EffNum) \div (Hour * EffDen) <= a \div Hour
<1> DEFINE n == a * EffNum  m == Hour * EffDen  x == n \div m
<1>1. n \in Nat /\ m \in Nat /\ m > 0 /\ Hour \in Nat /\ Hour > 0
      /\ EffNum \in Nat /\ EffDen \in Nat /\ EffDen > 0 /\ EffNum <= EffDen
  BY Constants, ProductNat, SMT
<1>2. x \in Nat /\ x * m <= n
  <2> HIDE DEF n, m
  <2> QED
    BY <1>1, QuotientNat, QuotientBelow
<1> HIDE DEF x
<1>3. x * Hour \in Nat /\ x * m = (x * Hour) * EffDen /\ n <= a * EffDen /\ a * EffDen \in Nat
  BY <1>1, <1>2, ProductNat, ProductGrows, SMT
<1>4. (x * Hour) * EffDen <= a * EffDen
  BY <1>1, <1>2, <1>3
<1>5. x * Hour <= a
  BY <1>1, <1>3, <1>4, FactorDropped
<1>6. x <= a \div Hour
  BY <1>1, <1>2, <1>5, QuotientBelow
<1> QED
  BY <1>2, <1>6 DEF x

LEMMA DischargeLosses ==
    ASSUME NEW a \in Nat
    PROVE  /\ (a * EffDen) \div (Hour * EffNum) \in Nat
           /\ a \div Hour <= (a * EffDen) \div (Hour * EffNum)
<1> DEFINE n == a * EffDen  m == Hour * EffNum  y == a \div Hour
<1>1. n \in Nat /\ m \in Nat /\ m > 0 /\ Hour \in Nat /\ Hour > 0
      /\ EffNum \in Nat /\ EffDen \in Nat /\ EffDen > 0 /\ EffNum <= EffDen
  BY Constants, ProductNat, SMT
<1>2. y \in Nat /\ y * Hour <= a
  BY <1>1, QuotientNat, QuotientBelow
<1> HIDE DEF y
<1>3. y * Hour \in Nat /\ y * m = (y * Hour) * EffNum /\ a * EffNum \in Nat
  BY <1>1, <1>2, ProductNat, SMT
<1>4. (y * Hour) * EffNum <= a * EffNum /\ a * EffNum <= n
  BY <1>1, <1>2, <1>3, ProductGrows
<1>5. y * m <= n
  BY <1>1, <1>3, <1>4
<1> HIDE DEF n, m
<1>6. y <= n \div m /\ n \div m \in Nat
  BY <1>1, <1>2, <1>5, QuotientBelow, QuotientNat
<1> QED
  BY <1>6 DEF n, m, y

\* An increment within the discharge limit takes no more than is stored.
LEMMA DischargeFits ==
    ASSUME NEW s \in Nat, NEW p \in Nat, p * Band <= Nominal * taper(s),
           NEW dt \in 1..StepInterval
    PROVE  (p * dt * EffDen) \div (Hour * EffNum) <= s
<1> DEFINE tap == taper(s)  n == p * dt * EffDen  m == Hour * EffNum  y == n \div m
           big == Band * EffNum * Hour  small == StepInterval * Nominal * EffDen
<1>1. /\ tap \in Nat /\ tap <= s /\ dt \in Nat /\ dt <= StepInterval /\ p * Band <= Nominal * tap
      /\ Band \in Nat /\ Band > 0 /\ EffDen \in Nat /\ EffNum \in Nat /\ EffNum > 0
      /\ Hour \in Nat /\ Hour > 0 /\ Nominal \in Nat /\ StepInterval \in Nat /\ small <= big
  BY Constants, TaperBounds
<1> HIDE DEF tap
<1>2. n \in Nat /\ m \in Nat /\ m > 0 /\ big \in Nat /\ big > 0 /\ small \in Nat
  <2>1. p * dt \in Nat /\ Band * EffNum \in Nat /\ StepInterval * Nominal \in Nat
    BY <1>1, ProductNat
  <2>2. n \in Nat /\ m \in Nat /\ big \in Nat /\ small \in Nat
    BY <1>1, <2>1, ProductNat
  <2>3. m > 0 /\ Band * EffNum > 0
    BY <1>1, SMT
  <2>4. big > 0
    BY <1>1, <2>1, <2>3, SMT
  <2> QED
    BY <2>2, <2>3, <2>4
<1>3. y \in Nat /\ y * m <= n
  <2> HIDE DEF n, m
  <2> QED
    BY <1>2, QuotientNat, QuotientBelow
<1> HIDE DEF y
<1>4. y * big <= n * Band
  <2>1. (y * m) * Band <= n * Band
    BY <1>1, <1>2, <1>3, ProductGrows, ProductNat
  <2>2. (y * m) * Band = y * big
    BY <1>1, <1>3, SMT
  <2> QED
    BY <2>1, <2>2
<1>5. n * Band <= (Nominal * tap) * (dt * EffDen)
  <2>1. n * Band = (p * Band) * (dt * EffDen) /\ dt * EffDen \in Nat
        /\ p * Band \in Nat /\ Nominal * tap \in Nat
    BY <1>1, ProductNat, SMT
  <2> QED
    BY <1>1, <2>1, ProductGrows
<1>6. (Nominal * tap) * (dt * EffDen) <= tap * small
  <2>1. (Nominal * tap) * (dt * EffDen) = dt * ((Nominal * tap) * EffDen)
        /\ tap * small = StepInterval * ((Nominal * tap) * EffDen)
        /\ (Nominal * tap) * EffDen \in Nat
    BY <1>1, ProductNat, SMT
  <2> QED
    BY <1>1, <2>1, ProductGrows
<1>7. tap * small <= tap * big
  BY <1>1, <1>2, ProductGrows
<1>8. y * big <= tap * big
  <2>1. y * big \in Int /\ n * Band \in Int /\ (Nominal * tap) * (dt * EffDen) \in Int
        /\ tap * small \in Int /\ tap * big \in Int
    <3> HIDE DEF n, big, small
    <3> QED
      BY <1>1, <1>2, <1>3, ProductNat
  <2> HIDE DEF n, big, small
  <2> QED
    BY <2>1, <1>4, <1>5, <1>6, <1>7
<1>9. y <= tap
  <2> HIDE DEF big
  <2> QED
    BY <1>1, <1>2, <1>3, <1>8, FactorDropped
<1> QED
  BY <1>1, <1>3, <1>9 DEF y

-----------------------------------------------------------------------------
(***************************************************************************)
(* The battery.                                                            *)
(***************************************************************************)
\* The stored energy is the battery's, and the published limits are its own.
PlantInv ==
    /\ stored \in 0..Capacity /\ temp \in Int /\ power \in Int
    /\ published = writeState(stored, temp)
    /\ demand.power \in Int /\ demand.inverted \in BOOLEAN

PlantIInv == ScenarioInv /\ PlantInv

\* Full or empty within the margin, and otherwise what it was.
LEMMA SnapBounds ==
    ASSUME NEW s \in 0..Capacity
    PROVE  /\ snap(s) \in 0..Capacity
           /\ snap(s) <= s + (IF snap(s) \in {0, Capacity} THEN Epsilon ELSE 0)
  BY Constants DEF snap

\* The power of a tick is within the limits, and so never against a prohibition.
LEMMA TickPower ==
    ASSUME PlantInv
    PROVE  LET p == clamp(demand.power, -MaxChargeable(stored, temp), MaxDischargeable(stored, temp)) IN
           /\ p \in Int
           /\ p <= MaxDischargeable(stored, temp)
           /\ published.chargeProhibited => p >= 0
           /\ published.dischargeProhibited => p <= 0
<1> DEFINE lo == MaxChargeable(stored, temp)  hi == MaxDischargeable(stored, temp)
<1>1. stored \in Nat /\ Capacity - stored \in Nat /\ temp \in Int /\ Capacity \in Nat
  BY Constants DEF PlantInv
<1>2. /\ lo \in Nat /\ (Capacity - stored = 0 => lo = 0)
      /\ hi \in Nat /\ (stored = 0 => hi = 0)
  BY <1>1, LimitBounds DEF MaxChargeable, MaxDischargeable, chargeHeadroom
<1>3. published.chargeProhibited => Capacity - stored = 0
  <2>1. published.chargeProhibited <=> stored >= Capacity
    BY Zenon DEF PlantInv, writeState
  <2> QED
    BY <1>1, <2>1 DEF PlantInv
<1>4. published.dischargeProhibited => stored = 0
  <2>1. published.dischargeProhibited <=> stored <= 0
    BY Zenon DEF PlantInv, writeState
  <2> QED
    BY <1>1, <2>1
<1> HIDE DEF lo, hi
<1>5. clamp(demand.power, -lo, hi) \in Int /\ clamp(demand.power, -lo, hi) <= hi
      /\ (lo = 0 => clamp(demand.power, -lo, hi) >= 0)
      /\ (hi = 0 => clamp(demand.power, -lo, hi) <= 0)
  BY <1>2 DEF clamp, PlantInv
<1> QED
  BY <1>2, <1>3, <1>4, <1>5 DEF lo, hi

\* The energy that one increment moves, and what the meter makes of it.
LEMMA TickEnergy ==
    ASSUME PlantInv, NEW p \in Int, p <= MaxDischargeable(stored, temp), NEW dt \in 1..StepInterval
    PROVE  LET moved  == integrate(stored, p, dt)
               energy == (magnitude(p) * dt) \div Hour
           IN  /\ moved \in 0..Capacity /\ energy \in Nat
               /\ p < 0 => moved - stored <= energy
               /\ p > 0 => moved - stored <= -energy
               /\ p = 0 => moved = stored
<1> DEFINE a == magnitude(p) * dt  energy == a \div Hour
<1>1. /\ stored \in 0..Capacity /\ stored \in Nat /\ Capacity \in Nat /\ dt \in Nat
      /\ magnitude(p) \in Nat /\ Hour \in Nat /\ Hour > 0
  BY Constants DEF PlantInv, magnitude
<1>2. a \in Nat
  BY <1>1, ProductNat
<1>3. energy \in Nat
  <2> HIDE DEF a
  <2> QED
    BY <1>1, <1>2, QuotientNat
<1>4. ASSUME p < 0
      PROVE  /\ integrate(stored, p, dt) \in 0..Capacity
             /\ integrate(stored, p, dt) - stored <= energy
  <2> DEFINE x == (a * EffNum) \div (Hour * EffDen)
  <2>1. x \in Nat /\ x <= energy
    <3> HIDE DEF a
    <3> QED
      BY <1>2, ChargeLosses
  <2>2. -p * dt * EffNum = a * EffNum
    BY <1>1, <1>4, Constants, SMT DEF magnitude
  <2>3. integrate(stored, p, dt) = clamp(stored + x, 0, Capacity)
    BY <1>4, <2>2 DEF integrate
  <2> HIDE DEF x, energy
  <2> QED
    BY <1>1, <1>3, <2>1, <2>3 DEF clamp
<1>5. ASSUME p > 0
      PROVE  /\ integrate(stored, p, dt) \in 0..Capacity
             /\ integrate(stored, p, dt) - stored <= -energy
  <2> DEFINE y == (a * EffDen) \div (Hour * EffNum)
  <2>1. y \in Nat /\ energy <= y
    <3> HIDE DEF a
    <3> QED
      BY <1>2, DischargeLosses
  <2>2. magnitude(p) = p /\ p \in Nat
    BY <1>5 DEF magnitude
  <2>3. p * Band <= Nominal * taper(stored)
    <3> DEFINE l == limit(stored, temp)
    <3>1. l \in Nat /\ l * Band <= Nominal * taper(stored) /\ p <= l
      BY <1>1, LimitBounds DEF MaxDischargeable, PlantInv
    <3>2. taper(stored) \in Nat /\ Band \in Nat /\ Nominal \in Nat
      BY <1>1, TaperBounds, Constants
    <3> HIDE DEF l
    <3>3. p * Band <= l * Band
      BY <3>1, <3>2, ProductGrows
    <3>4. p * Band \in Nat /\ l * Band \in Nat /\ Nominal * taper(stored) \in Nat
      BY <2>2, <3>1, <3>2, ProductNat
    <3> QED
      BY <3>1, <3>3, <3>4
  <2>4. y <= stored
    BY <1>1, <2>2, <2>3, DischargeFits
  <2>5. integrate(stored, p, dt) = clamp(stored - y, 0, Capacity)
    BY <1>5, <2>2 DEF integrate
  <2> HIDE DEF y, energy
  <2> QED
    BY <1>1, <1>3, <2>1, <2>4, <2>5 DEF clamp
<1>6. ASSUME p = 0
      PROVE  integrate(stored, p, dt) = stored
  <2> DEFINE m == Hour * EffNum
  <2>1. p * dt * EffDen = 0 /\ m \in Nat /\ m > 0
    BY <1>1, <1>6, Constants, ProductNat, SMT
  <2>2. 0 \div m = 0
    <3> HIDE DEF m
    <3> QED
      BY <2>1, QuotientNat
  <2>3. integrate(stored, p, dt) = clamp(stored - 0, 0, Capacity)
    BY <1>6, <2>1, <2>2 DEF integrate
  <2> QED
    BY <1>1, <2>3 DEF clamp
<1> HIDE DEF energy
<1>7. p < 0 \/ p > 0 \/ p = 0
  OBVIOUS
<1>8. integrate(stored, p, dt) \in 0..Capacity
  BY <1>1, <1>4, <1>5, <1>6, <1>7
<1> QED
  BY <1>3, <1>4, <1>5, <1>6, <1>8 DEF energy

\* The temperature stays a number.
LEMMA ThermalType ==
    ASSUME NEW t \in Int, NEW p \in Int, NEW dt \in Int
    PROVE  updateThermal(t, p, dt) \in Int
<1> DEFINE heat    == (Heat * p * p) \div (Nominal * Nominal)
           removed == (IF t > Ambient THEN Chiller ELSE 0) + (t - Ambient) * PassiveLoss
<1>1. Nominal * Nominal \in Nat /\ Nominal * Nominal > 0 /\ Heat * p * p \in Int
  BY Constants, ProductNat, SMT
<1>2. heat \in Int
  <2>1. \A n \in Int, m \in Nat : m > 0 => n \div m \in Int
    BY QuotientBelow
  <2> QED
    BY <1>1, <2>1
<1>3. (t - Ambient) * PassiveLoss \in Int
  BY Constants, SMT
<1>4. removed \in Int
  BY <1>3, Constants
<1> HIDE DEF heat, removed
<1>5. (heat - removed) * dt \in Int /\ Hour * ThermalMass \in Nat /\ Hour * ThermalMass > 0
  BY <1>2, <1>4, Constants, ProductNat, SMT
<1>6. ((heat - removed) * dt) \div (Hour * ThermalMass) \in Int
  <2>1. \A n \in Int, m \in Nat : m > 0 => n \div m \in Int
    BY QuotientBelow
  <2> QED
    BY <1>5, <2>1
<1> QED
  BY <1>6 DEF updateThermal, heat, removed

\* The two halves of the balance put together.
LEMMA BalanceChain ==
    \A new, moved, old, margin, in, out \in Int :
        new <= moved + margin /\ moved - old <= in - out => new - old <= (in - out) + margin
  OBVIOUS

\* One tick: the invariant, the prohibitions and the energy balance.
LEMMA StepFacts ==
    ASSUME PlantInv, NEW dt \in 1..StepInterval, step(dt)
    PROVE  /\ stored' \in 0..Capacity /\ temp' \in Int /\ power' \in Int
           /\ published' = writeState(stored', temp')
           /\ published.chargeProhibited => power' >= 0
           /\ published.dischargeProhibited => power' <= 0
           /\ LET in  == IF inverted' THEN forward' ELSE reverse'
                  out == IF inverted' THEN reverse' ELSE forward'
              IN  stored' - stored <= in - out + (IF stored' \in {0, Capacity} THEN Epsilon ELSE 0)
<1> DEFINE p      == power'
           moved  == integrate(stored, p, dt)
           energy == (magnitude(p) * dt) \div Hour
<1>1. /\ p \in Int /\ p <= MaxDischargeable(stored, temp)
      /\ published.chargeProhibited => p >= 0
      /\ published.dischargeProhibited => p <= 0
  <2>1. p = clamp(demand.power, -MaxChargeable(stored, temp), MaxDischargeable(stored, temp))
    BY DEF step
  <2> HIDE DEF p
  <2> QED
    BY <2>1, TickPower
<1>2. /\ power' = p /\ stored' = snap(moved) /\ temp' = updateThermal(temp, p, dt)
      /\ published' = writeState(stored', temp') /\ inverted' = demand.inverted
      /\ forward' = IF p # 0 /\ ((p > 0) # demand.inverted) THEN energy ELSE 0
      /\ reverse' = IF p # 0 /\ ~((p > 0) # demand.inverted) THEN energy ELSE 0
  BY DEF step, integrateSOC, updateMeter
<1> HIDE DEF p
<1>3. /\ moved \in 0..Capacity /\ energy \in Nat
      /\ p < 0 => moved - stored <= energy
      /\ p > 0 => moved - stored <= -energy
      /\ p = 0 => moved = stored
  BY <1>1, TickEnergy
<1>4. temp' \in Int
  BY <1>1, <1>2, ThermalType, Constants DEF PlantInv
<1> HIDE DEF moved, energy
<1>5. /\ stored' \in 0..Capacity
      /\ stored' <= moved + (IF stored' \in {0, Capacity} THEN Epsilon ELSE 0)
  BY <1>2, <1>3, SnapBounds
<1> DEFINE in  == IF inverted' THEN forward' ELSE reverse'
           out == IF inverted' THEN reverse' ELSE forward'
<1> DEFINE turned == (p > 0) # demand.inverted
<1>6. /\ p < 0 => in = energy /\ out = 0
      /\ p > 0 => in = 0 /\ out = energy
      /\ p = 0 => in = 0 /\ out = 0
  <2>1. demand.inverted \in BOOLEAN /\ (p > 0) \in BOOLEAN
    BY <1>1 DEF PlantInv
  <2>2. turned <=> IF demand.inverted THEN ~(p > 0) ELSE p > 0
    BY <2>1, Zenon
  <2>3. /\ forward' = IF p # 0 /\ turned THEN energy ELSE 0
        /\ reverse' = IF p # 0 /\ ~turned THEN energy ELSE 0
    BY <1>2
  <2> HIDE DEF turned
  <2>4. CASE demand.inverted
    <3>1. in = forward' /\ out = reverse'
      BY <2>4, <1>2
    <3> QED
      BY <3>1, <2>2, <2>3, <2>4, <1>1
  <2>5. CASE ~demand.inverted
    <3>1. in = reverse' /\ out = forward'
      BY <2>5, <1>2
    <3> QED
      BY <3>1, <2>2, <2>3, <2>5, <1>1
  <2> QED
    BY <2>4, <2>5
<1> HIDE DEF in, out
<1>7. moved - stored <= in - out
  BY <1>1, <1>3, <1>6, Constants DEF PlantInv
<1>8. in \in Int /\ out \in Int /\ stored \in Int /\ moved \in Int /\ Epsilon \in Int
  BY <1>1, <1>3, <1>6, Constants DEF PlantInv
<1>9. stored' - stored <= in - out + (IF stored' \in {0, Capacity} THEN Epsilon ELSE 0)
  <2> DEFINE margin == IF stored' \in {0, Capacity} THEN Epsilon ELSE 0
  <2>1. margin \in Int /\ stored' \in Int
    BY <1>5, <1>8, Constants
  <2>2. stored' <= moved + margin
    BY <1>5
  <2> HIDE DEF margin
  <2>3. stored' - stored <= in - out + margin
    BY <1>7, <1>8, <2>1, <2>2, BalanceChain
  <2> QED
    BY <2>3 DEF margin
<1> QED
  BY <1>1, <1>2, <1>4, <1>5, <1>9 DEF in, out

\* The increments that the code ticks by.
LEMMA TickIncrement ==
    ASSUME ScenarioInv, Tick
    PROVE  (\E dt \in 1..StepInterval : step(dt)) /\ UNCHANGED demand
<1>1. CASE LiveTick
  BY <1>1, Constants DEF LiveTick
<1>2. CASE requestTick
  <2> DEFINE next == nextChunk(StepInterval, advance)
  <2>1. next \in 1..StepInterval
    BY <1>2, NextChunk DEF requestTick, ScenarioInv
  <2>2. step(next) /\ UNCHANGED demand
    BY <1>2 DEF requestTick
  <2> QED
    BY <2>1, <2>2
<1>3. CASE runTick
  <2>1. scenario.due \in Nat /\ scenario.due > 0
    BY <1>3 DEF runTick, ScenarioInv
  <2>2. chunk \in 1..StepInterval
    BY <2>1, NextChunk DEF chunk
  <2>3. step(chunk) /\ UNCHANGED demand
    BY <1>3 DEF runTick
  <2> QED
    BY <2>2, <2>3
<1> QED
  BY <1>1, <1>2, <1>3 DEF Tick

LEMMA PlantInit == Init => PlantInv
  BY Constants DEF Init, PlantInv

LEMMA PlantNext == PlantIInv /\ [Next]_vars => PlantInv'
<1> SUFFICES ASSUME PlantIInv, [Next]_vars
             PROVE  PlantInv'
  OBVIOUS
<1> USE DEF PlantIInv
<1>1. CASE Tick
  <2>1. PICK dt \in 1..StepInterval : step(dt) /\ UNCHANGED demand
    BY <1>1, TickIncrement
  <2>2. /\ stored' \in 0..Capacity /\ temp' \in Int /\ power' \in Int
        /\ published' = writeState(stored', temp')
    BY <2>1, StepFacts
  <2> QED
    BY <2>1, <2>2 DEF PlantInv
<1>2. ASSUME NEW p \in Demands, NEW inv \in BOOLEAN, Demand(p, inv)
      PROVE  PlantInv'
  <2>1. /\ demand' = [power |-> p, inverted |-> inv]
        /\ UNCHANGED <<stored, temp, power, published>>
    BY <1>2 DEF Demand, plant
  <2>2. p \in Int
    BY Constants
  <2>3. published' = writeState(stored', temp')
    BY <2>1 DEF PlantInv, writeState, MaxChargeable, MaxDischargeable, limit, thermalDerate
  <2> QED
    BY <2>1, <2>2, <2>3 DEF PlantInv
<1>3. ASSUME UNCHANGED <<stored, temp, power, published, demand>>
      PROVE  PlantInv'
  <2>1. published' = writeState(stored', temp')
    BY <1>3 DEF PlantInv
  <2> QED
    BY <1>3, <2>1 DEF PlantInv
<1>4. CASE Reset
  <2>1. /\ stored' = InitialEnergy /\ temp' = Ambient /\ power' = 0
        /\ published' = writeState(InitialEnergy, Ambient)
        /\ demand' = [power |-> 0, inverted |-> FALSE]
    BY <1>4 DEF Reset
  <2>2. published' = writeState(stored', temp')
    BY <2>1
  <2> QED
    BY <2>1, <2>2, Constants DEF PlantInv
<1> QED
  <2>1. CASE UNCHANGED vars
    BY <2>1, <1>3 DEF vars, plant
  <2>2. CASE Start \/ paceFails \/ executeStep \/ Stop
    BY <2>2, <1>3 DEF Start, paceFails, executeStep, Stop, plant
  <2>3. ASSUME NEW total \in Totals, FastForward(total)
        PROVE  PlantInv'
    BY <2>3, <1>3 DEF FastForward, plant
  <2>4. ASSUME NEW gap \in Totals, NEW speed \in ScenarioSpeeds, Load(gap, speed)
        PROVE  PlantInv'
    BY <2>4, <1>3 DEF Load, plant
  <2> QED
    BY <2>1, <2>2, <2>3, <2>4, <1>1, <1>2, <1>4 DEF Next

\* The inductive invariant of the plant: a scenario's next step is one that was
\* looked at, and the published limits are those of the battery's present state.
THEOREM PlantCorrect == Spec => []PlantIInv
<1>1. Init => PlantIInv
  BY ScenarioInit, PlantInit DEF PlantIInv
<1>2. PlantIInv /\ [Next]_vars => PlantIInv'
  BY ScenarioNext, PlantNext DEF PlantIInv
<1> QED
  BY <1>1, <1>2, PTL DEF Spec

\* At the speed of any scenario that is ever loaded, and at every other, an accepted
\* pace is the real quotient to within two roundings and the nanosecond cut off, and
\* it moves; and only what is below a nanosecond or beyond an int64, to within the
\* roundings, is refused.  For every duration, every number of significands, every
\* width of the integer and whatever a build makes of a conversion out of range
\* (runner.go CheckedPace).
THEOREM AcceptedPaceAlwaysClose == Spec => []AcceptedPaceIsClose
<1>1. PlantIInv => AcceptedPaceIsClose
  BY EverySpeedIsClose DEF PlantIInv, ScenarioInv, AcceptedPaceIsClose
<1> QED
  BY <1>1, PlantCorrect, PTL

\* No tick moves power against a published prohibition, for any battery, any
\* derating and any sequence of demands (engine.go Step, recompute).
THEOREM ProhibitionAlwaysObeyed == Spec => ProhibitionIsObeyed
<1>1. ASSUME PlantIInv, Tick
      PROVE  /\ published.chargeProhibited => power' >= 0
             /\ published.dischargeProhibited => power' <= 0
  <2>1. PICK dt \in 1..StepInterval : step(dt)
    BY <1>1, TickIncrement DEF PlantIInv
  <2> QED
    BY <1>1, <2>1, StepFacts DEF PlantIInv
<1>2. PlantIInv /\ [Next]_vars =>
        [Tick => /\ published.chargeProhibited => power' >= 0
                 /\ published.dischargeProhibited => power' <= 0]_vars
  BY <1>1
<1> QED
  BY <1>2, PlantCorrect, PTL DEF Spec, ProhibitionIsObeyed

\* No tick makes energy: over any tick of any battery whose one increment fits
\* the taper band, the energy stored and metered out is at most the energy
\* metered in, but for a boundary's margin (engine.go integrateSOC, updateMeter).
THEOREM EnergyNeverFree == Spec => NoFreeEnergy
<1>1. ASSUME PlantIInv, Tick
      PROVE  LET in  == IF inverted' THEN forward' ELSE reverse'
                 out == IF inverted' THEN reverse' ELSE forward'
             IN  stored' - stored <= in - out + (IF stored' \in {0, Capacity} THEN Epsilon ELSE 0)
  <2>1. PICK dt \in 1..StepInterval : step(dt)
    BY <1>1, TickIncrement DEF PlantIInv
  <2> QED
    BY <1>1, <2>1, StepFacts DEF PlantIInv
<1>2. PlantIInv /\ [Next]_vars =>
        [Tick =>
           LET in  == IF inverted' THEN forward' ELSE reverse'
               out == IF inverted' THEN reverse' ELSE forward'
           IN  stored' - stored <= in - out + (IF stored' \in {0, Capacity} THEN Epsilon ELSE 0)]_vars
  BY <1>1
<1> QED
  BY <1>2, PlantCorrect, PTL DEF Spec, NoFreeEnergy

-----------------------------------------------------------------------------
(***************************************************************************)
(* The type invariant.                                                     *)
(***************************************************************************)
\* No limit exceeds the nominal power.
LEMMA LimitBelowNominal ==
    ASSUME NEW h \in Nat, NEW t \in Int
    PROVE  limit(h, t) \in 0..Nominal
<1> DEFINE l == limit(h, t)
<1>1. l \in Nat /\ l * Band <= Nominal * taper(h)
  BY LimitBounds
<1>2. taper(h) \in Nat /\ taper(h) <= Band /\ Band \in Nat /\ Band > 0 /\ Nominal \in Nat
  BY TaperBounds, Constants
<1>3. Nominal * taper(h) <= Nominal * Band
  BY <1>2, ProductGrows
<1> HIDE DEF l
<1>4. l * Band <= Nominal * Band
  BY <1>1, <1>2, <1>3, ProductNat
<1> QED
  BY <1>1, <1>2, <1>4, FactorDropped DEF l

\* What one tick leaves in the power and the meter.
LEMMA StepTypes ==
    ASSUME PlantInv, NEW dt \in 1..StepInterval, step(dt)
    PROVE  /\ power' \in -Nominal..Nominal /\ inverted' \in BOOLEAN
           /\ forward' \in Nat /\ reverse' \in Nat
<1> DEFINE lo == MaxChargeable(stored, temp)  hi == MaxDischargeable(stored, temp)
           p == power'
           energy == (magnitude(p) * dt) \div Hour
<1>1. stored \in Nat /\ Capacity - stored \in Nat /\ temp \in Int /\ Nominal \in Nat
  BY Constants DEF PlantInv
<1>2. lo \in 0..Nominal /\ hi \in 0..Nominal
  BY <1>1, LimitBelowNominal DEF MaxChargeable, MaxDischargeable, chargeHeadroom
<1>3. p \in -Nominal..Nominal /\ p \in Int
  <2>1. p = clamp(demand.power, -lo, hi)
    BY DEF step
  <2> HIDE DEF p, lo, hi
  <2> QED
    BY <2>1, <1>1, <1>2 DEF clamp, PlantInv
<1>4. power' = p /\ inverted' = demand.inverted
      /\ forward' \in {0, energy} /\ reverse' \in {0, energy}
  BY DEF step, updateMeter
<1> HIDE DEF p
<1>5. magnitude(p) \in Nat /\ dt \in Nat
  BY <1>3, Constants DEF magnitude
<1>6. magnitude(p) * dt \in Nat
  BY <1>5, ProductNat
<1>7. energy \in Nat
  BY <1>6, Constants, QuotientNat
<1> HIDE DEF energy
<1> QED
  BY <1>3, <1>4, <1>7 DEF PlantInv

\* The part of the type invariant that PlantIInv does not have.
Types ==
    /\ power \in -Nominal..Nominal
    /\ forward \in Nat /\ reverse \in Nat /\ inverted \in BOOLEAN

\* Nothing runs and nothing moves.
LEMMA TypesAtRest == 0 \in -Nominal..Nominal /\ 0 \in Nat /\ FALSE \in BOOLEAN
<1>1. 0 \in -Nominal..Nominal /\ 0 \in Nat
  BY Constants
<1> QED
  BY <1>1

LEMMA TypesNext == PlantIInv /\ Types /\ [Next]_vars => Types'
<1> SUFFICES ASSUME PlantIInv, Types, [Next]_vars
             PROVE  Types'
  OBVIOUS
<1> USE DEF PlantIInv
<1>1. CASE Tick
  <2>1. PICK dt \in 1..StepInterval : step(dt)
    BY <1>1, TickIncrement
  <2>2. /\ power' \in -Nominal..Nominal /\ inverted' \in BOOLEAN
        /\ forward' \in Nat /\ reverse' \in Nat
    BY <2>1, StepTypes
  <2> QED
    BY <2>2 DEF Types
<1>2. ASSUME UNCHANGED <<power, forward, reverse, inverted>>
      PROVE  Types'
  BY <1>2 DEF Types
<1>3. CASE UNCHANGED vars \/ \E p \in Demands, inv \in BOOLEAN : Demand(p, inv)
  BY <1>2, <1>3 DEF vars, plant, Demand
<1>4. ASSUME NEW total \in Totals, FastForward(total)
      PROVE  Types'
  BY <1>2, <1>4 DEF FastForward, plant
<1>5. ASSUME NEW gap \in Totals, NEW speed \in ScenarioSpeeds, Load(gap, speed)
      PROVE  Types'
  BY <1>2, <1>5 DEF Load, plant
<1>6. CASE Start \/ paceFails \/ executeStep \/ Stop
  BY <1>2, <1>6 DEF Start, paceFails, executeStep, Stop, plant
<1>7. CASE Reset
  <2>1. power' = 0 /\ forward' = 0 /\ reverse' = 0 /\ inverted' = FALSE
    BY <1>7 DEF Reset
  <2> QED
    BY <2>1, TypesAtRest DEF Types
<1> QED
  BY <1>1, <1>3, <1>4, <1>5, <1>6, <1>7 DEF Next

\* The type invariant: no power beyond the inverter's, counters that only grow,
\* and a scenario no later than its bound, for every battery.
THEOREM PlantTypeCorrect == Spec => []TypeOK
<1>1. Init => Types
  BY TypesAtRest DEF Init, Types
<1>2. PlantIInv /\ Types => TypeOK
  <2> SUFFICES ASSUME PlantIInv, Types
               PROVE  TypeOK
    OBVIOUS
  <2>1. scenario.due \in -(MaxLate + 1)..scenario.gap
    BY Constants DEF PlantIInv, ScenarioInv
  <2> QED
    BY <2>1 DEF PlantIInv, PlantInv, ScenarioInv, Types, TypeOK
<1>3. Spec => []Types
  BY <1>1, TypesNext, PlantCorrect, PTL DEF Spec
<1> QED
  BY <1>2, <1>3, PlantCorrect, PTL
=============================================================================
