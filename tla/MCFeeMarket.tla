---------------------------- MODULE MCFeeMarket ----------------------------
(* A small instance of the fee market.                                      *)
EXTENDS FeeMarket

P(off, denominator, elasticity, fee, from, minPrice, multiplier) ==
    [noBaseFee |-> off, baseFeeChangeDenominator |-> denominator,
     elasticityMultiplier |-> elasticity, baseFee |-> fee, enableHeight |-> from,
     minGasPrice |-> minPrice, minGasMultiplier |-> multiplier]

\* A decimal with half units, as 0.5 and 2.5 are the interesting values.
MCOne == 2

\* A chain without a minimum price, one with a fractional minimum (2.5), one
\* whose fee market is off, and one that starts at height 2 below its minimum.
MCParams == {P(FALSE, 2, 2, 5, 0, 0, 1), P(FALSE, 2, 2, 4, 0, 5, 2),
             P(TRUE, 2, 2, 3, 0, 0, 1), P(FALSE, 3, 1, 1, 2, 7, 0)}

\* Elasticities that validation accepts: above every gas limit, so that the
\* target is rounded to zero, and zero.
MCEdge == MCParams \cup {P(FALSE, 2, 9, 5, 0, 0, 1), P(FALSE, 2, 0, 5, 0, 0, 1)}
============================================
