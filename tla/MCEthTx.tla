------------------------------ MODULE MCEthTx ------------------------------
(* Small instances of the transaction flow.                                 *)
EXTENDS FeeMarketRefinement

CONSTANTS alice, bob, contract, dev, fresh, staking

P(off, fee, minPrice, multiplier) ==
    [noBaseFee |-> off, baseFeeChangeDenominator |-> 2, elasticityMultiplier |-> 2,
     baseFee |-> fee, enableHeight |-> 0, minGasPrice |-> minPrice,
     minGasMultiplier |-> multiplier]

M(from, to, value, gas, cap, tip, data) ==
    [from |-> from, to |-> to, value |-> value, gas |-> gas, feeCap |-> cap, tipCap |-> tip,
     data |-> data]

\* A decimal with quarters: a multiplier of 0.25, a minimum price of 1, half shares.
MCOne == 4
NoLocks == [a \in Accounts |-> 0]
LockedAlice == [a \in Accounts |-> IF a = alice THEN 20 ELSE 0]
NoRevenue == [a \in Accounts |-> None]
Revenue == [a \in Accounts |-> IF a = contract THEN dev ELSE None]

MCParams == {P(FALSE, 1, 4, 1)}
MCHalf == 2

\* alice's coins are partly locked; one of her calls reserves more gas than it
\* needs, the other too little.  bob calls and creates contracts, with gas for
\* one creation in a block: see MCEthTx_nonce.cfg.
MCPayloads == {M(alice, contract, 2, 3, 2, 1, TRUE), M(bob, staking, 20, 2, 1, 1, FALSE),
               M(alice, bob, 3, 0, 1, 1, FALSE), M(bob, Create, 1, 5, 2, 0, TRUE)}

\* bob also sends Cosmos transactions: the fee, beyond the balance, is declared
\* with a tip that does not use it up.
MCCosmosTxs == {[payer |-> bob, fee |-> 60, gas |-> 1, tip |-> 40]}
MCRewards == [a \in Accounts |-> IF a = bob THEN <<20, 30, 7>> ELSE <<>>]

\* A creation, a call.
NoncePayloads == {M(alice, Create, 0, 2, 1, 0, TRUE), M(alice, contract, 0, 2, 1, 0, TRUE)}
=============================================================================
