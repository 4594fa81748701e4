---------------------------- MODULE MCInflation ----------------------------
(* Inflation with decimals of one digit (One = 10), a day of 2 and a week of *)
(* 3 time units and periods of 2 epochs, so that a few blocks reach the      *)
(* third period.                                                             *)
EXTENDS Inflation

MCDuration == [id \in Identifiers |-> IF id = "day" THEN 2 ELSE 3]

Calc(a, r, c) == [a |-> a, r |-> r, c |-> c, bondingTarget |-> 6, maxVariance |-> 4]

MCParams(enable, calc, staking) ==
    [enableInflation |-> enable, calculation |-> calc, stakingRewards |-> staking,
     communityPool |-> One - staking]

\* Inflation on, off, and on with an odd split; and the valid values at the
\* edge: nothing to mint, and nothing for the stakers.
MCParamSet ==
    {MCParams(TRUE, Calc(600, 5, 60), 5), MCParams(FALSE, Calc(600, 5, 60), 5),
     MCParams(TRUE, Calc(0, 10, 31), 3), MCParams(TRUE, Calc(0, 5, 0), 5),
     MCParams(TRUE, Calc(600, 5, 60), 0)}
=============================================================================
