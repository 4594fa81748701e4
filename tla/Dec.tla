------------------------------- MODULE Dec -------------------------------
(* Fixed-point decimals, as cosmossdk.io/math.LegacyDec computes them.  The *)
(* library is not part of the repository: these operators state what its    *)
(* callers rely on, at an arbitrary scale.  A decimal d is the integer d *  *)
(* One; the library's scale is 10^18.  Every argument here is non-negative. *)
EXTENDS Integers

CONSTANT One    \* the integer that represents 1.0

ASSUME OneAssumption == One \in Nat \ {0, 1}

NewDec(n) == n * One

\* Division of a non-negative integer, rounding half to even.
RoundHalfEven(n, m) ==
    LET q == n \div m
        r == n % m
    IN  IF 2 * r < m \/ (2 * r = m /\ q % 2 = 0) THEN q ELSE q + 1

DecMul(a, b) == RoundHalfEven(a * b, One)

\* Quo extends the dividend by two scales, truncates, and rounds one scale off.
DecQuo(a, b) == RoundHalfEven((a * One * One) \div b, One)

\* QuoInt divides by a plain integer and truncates.
DecQuoInt(a, n) == a \div n

TruncateInt(a) == a \div One

\* Power squares its base and rounds at every multiplication: the loop that is
\* left at a counter, as a function of the base and of the product so far.
PowerLoop[i \in Nat] ==
    [d \in Nat |-> [tmp \in Nat |->
        IF i <= 1 THEN DecMul(d, tmp)
        ELSE PowerLoop[i \div 2][DecMul(d, d)][IF i % 2 = 1 THEN DecMul(tmp, d) ELSE tmp]]]

DecPower(d, n) == IF n = 0 THEN One ELSE PowerLoop[n][d][One]
=============================================================================
