------------------------------- MODULE Money -------------------------------
(* Integer money arithmetic (engine/numeric.py): amounts are minor units,  *)
(* a rate is an exact ratio, and every multiplication by a rate is divided *)
(* and rounded once, on the magnitude.  A rate is given here by its        *)
(* numerator over RateScale.  Integers are unbounded, as they are in the   *)
(* code, which widens before an int64 product could wrap.                  *)
EXTENDS Integers

CONSTANTS
    Policy,       \* the RoundingPolicy of the run
    RateScale     \* the denominator of every rate

ASSUME PolicyAssumption == Policy \in {"half_up", "half_even"}
ASSUME RateScaleAssumption == RateScale \in Nat \ {0}

Magnitude(n) == IF n < 0 THEN -n ELSE n

\* Whether the quotient of a division moves away from zero.
SplitRounding(remainder, denominator, quotient) ==
    LET half == denominator \div 2 IN
    \/ remainder > half
    \/ /\ denominator % 2 = 0
       /\ remainder = half
       /\ Policy = "half_up" \/ quotient % 2 = 1

\* The rounded quotient of two magnitudes.
RoundMagnitude(n, d) ==
    LET quotient == n \div d IN
    IF SplitRounding(n % d, d, quotient) THEN quotient + 1 ELSE quotient

RoundDiv(n, d) ==
    LET rounded == RoundMagnitude(Magnitude(n), Magnitude(d)) IN
    IF (n < 0) # (d < 0) THEN -rounded ELSE rounded

\* Elementwise division is masked: a zero denominator yields zero.
RoundDivElementwise(n, d) == IF d = 0 THEN 0 ELSE RoundDiv(n, d)

MulRate(amount, rate) == RoundDiv(amount * rate, RateScale)
=============================================================================
