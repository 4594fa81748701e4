---------------------------- MODULE MCProvision ----------------------------
(* The mint provision along its inputs, at two decimal digits: every choice  *)
(* of parameters is a start, a step goes to the next period or raises the    *)
(* bonded ratio.                                                             *)
EXTENDS MintProvision

CONSTANTS As, Rs, Cs, Targets, Variances, Ratios, MaxPeriod

VARIABLES calc, period, bondedRatio

inputs == <<calc, period, bondedRatio>>

Init ==
    /\ calc \in [a : As, r : Rs, c : Cs, bondingTarget : Targets, maxVariance : Variances]
    /\ period = 0
    /\ bondedRatio = 0

NextPeriod == period < MaxPeriod /\ period' = period + 1 /\ UNCHANGED <<calc, bondedRatio>>

MoreBonded ==
    /\ bondedRatio' \in {b \in Ratios : b > bondedRatio}
    /\ UNCHANGED <<calc, period>>

Spec == Init /\ [][NextPeriod \/ MoreBonded]_inputs

\* The provision never grows from one period to the next, nor as more tokens
\* are bonded, whatever the rounding of the intermediate decimals; above the
\* bonding target it no longer depends on what is bonded.
ProvisionDecays == [][NeverGrows(calc, period, bondedRatio, period', bondedRatio')]_inputs

\* The provision stays between the long-term rate and the full rate of the
\* first period at zero bonding, and is a whole number of base units: the
\* TruncateInt in AfterEpochEnd loses nothing.
ProvisionBounded == WithinRates(calc, period, bondedRatio)
=============================================================================
