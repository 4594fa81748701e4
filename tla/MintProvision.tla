--------------------------- MODULE MintProvision ---------------------------
(* How many coins an epoch mints: the exponential decay of the period, the   *)
(* bonding incentive and the long-term rate, in the decimals of Dec.         *)
EXTENDS Dec

CONSTANT EpochsPerPeriod     \* genesis: epochs in a period

ASSUME PeriodAssumption == EpochsPerPeriod \in Nat \ {0}

\* The parameters of the curve, as validateExponentialCalculation admits them.
Calculation == [a : Nat, r : 0 .. One, c : Nat, bondingTarget : 1 .. One, maxVariance : Nat]

ReductionFactor == 3

\* Fault: the incentive grows with the bonded ratio.
CalculateEpochMintProvision_Reversed(calc, per, bondedRatio) ==
    LET exponentialDecay == DecMul(calc.a, DecPower(One - calc.r, per))
        ratio == IF bondedRatio >= calc.bondingTarget THEN calc.bondingTarget ELSE bondedRatio
        sub == DecMul(calc.maxVariance, DecQuo(ratio, calc.bondingTarget))
        bondingIncentive == One + sub
        periodProvision == DecMul(exponentialDecay, bondingIncentive) + calc.c
        reduced == DecQuo(periodProvision, NewDec(ReductionFactor))
    IN  DecMul(DecQuo(reduced, NewDec(EpochsPerPeriod)), NewDec(One))

\* Fault: the long-term rate decays as well.
CalculateEpochMintProvision_NoFloor(calc, per, bondedRatio) ==
    LET exponentialDecay == DecMul(calc.a, DecPower(One - calc.r, per))
        ratio == IF bondedRatio >= calc.bondingTarget THEN calc.bondingTarget ELSE bondedRatio
        sub == DecMul(calc.maxVariance, DecQuo(ratio, calc.bondingTarget))
        bondingIncentive == One + calc.maxVariance - sub
        periodProvision == DecMul(exponentialDecay + DecMul(calc.c, DecPower(One - calc.r, per)), bondingIncentive)
        reduced == DecQuo(periodProvision, NewDec(ReductionFactor))
    IN  DecMul(DecQuo(reduced, NewDec(EpochsPerPeriod)), NewDec(One))

\* The last factor turns tokens into base units.  The code scales it by
\* PowerReduction, which equals the scale of its decimals.
CalculateEpochMintProvision(calc, per, bondedRatio) ==
    LET exponentialDecay == DecMul(calc.a, DecPower(One - calc.r, per))
        ratio == IF bondedRatio >= calc.bondingTarget THEN calc.bondingTarget ELSE bondedRatio
        sub == DecMul(calc.maxVariance, DecQuo(ratio, calc.bondingTarget))
        bondingIncentive == One + calc.maxVariance - sub
        periodProvision == DecMul(exponentialDecay, bondingIncentive) + calc.c
        reduced == DecQuo(periodProvision, NewDec(ReductionFactor))
    IN  DecMul(DecQuo(reduced, NewDec(EpochsPerPeriod)), NewDec(One))

-----------------------------------------------------------------------------
(* What the curve promises for one choice of its inputs.                    *)

\* What an epoch mints of a period's total.
PerEpoch(total) == DecQuo(DecQuo(total, NewDec(ReductionFactor)), NewDec(EpochsPerPeriod)) * One

\* The provision stays between the long-term rate and the full rate of the
\* first period at zero bonding, and is a whole number of base units: the
\* TruncateInt in AfterEpochEnd loses nothing.
WithinRates(calc, per, bondedRatio) ==
    LET provision == CalculateEpochMintProvision(calc, per, bondedRatio) IN
    /\ provision % One = 0
    /\ PerEpoch(calc.c) <= provision
    /\ provision <= PerEpoch(DecMul(calc.a, One + calc.maxVariance) + calc.c)

\* The provision never grows from one period to a later one, nor as more
\* tokens are bonded, whatever the rounding of the intermediate decimals; above
\* the bonding target it no longer depends on what is bonded.
NeverGrows(calc, per, ratio, later, higher) ==
    LET before == CalculateEpochMintProvision(calc, per, ratio)
        after == CalculateEpochMintProvision(calc, later, higher)
    IN  /\ after <= before
        /\ ratio >= calc.bondingTarget /\ later = per => after = before
=============================================================================
