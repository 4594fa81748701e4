------------------------------ MODULE CosmosTx ------------------------------
(* Cosmos transactions in the blocks of EthTx: their ante handler checks and *)
(* deducts the fee, out of staking rewards if the balance is short, and the  *)
(* post handler burns it, out of the account that holds the fees of          *)
(* Ethereum transactions as well.  What their messages do is left out.       *)
EXTENDS EthTx

CONSTANTS CosmosTxs,        \* payer, declared fee, gas limit and priority price
          InitialRewards    \* unclaimed rewards of each account, by delegation

VARIABLES rewards,   \* unclaimed staking rewards
          burned     \* coins burned

cosmosVars == <<rewards, burned>>
allVars == <<vars, cosmosVars>>

ASSUME CosmosTxAssumption ==
    /\ \A tx \in CosmosTxs :
          tx.payer \in Accounts \ {NewContract} /\ tx.fee \in Nat /\ tx.gas \in GasLimits /\ tx.tip \in Nat
    /\ InitialRewards \in [Accounts -> Seq(Nat)]

CosmosInit == EthInit /\ rewards = InitialRewards /\ burned = 0

-----------------------------------------------------------------------------
(* The ante handler.                                                        *)

Ceil(x) == (x + One - 1) \div One

\* An amount of zero is no coin, and covers no requirement.
MinGasPrice(tx) ==
    params.minGasPrice > 0 =>
        tx.fee > 0 /\ tx.fee >= Ceil(DecMul(params.minGasPrice, NewDec(tx.gas)))

FeeCap(tx) == tx.fee \div tx.gas

CheckFee(tx) == tx.gas > 0 /\ FeeCap(tx) >= GetBaseFee

\* The fee the checker returns: at the effective price, not what was declared.
DeductedFee(tx) == Smaller(tx.tip + GetBaseFee, FeeCap(tx)) * tx.gas

Claimed(a, k) == SumFunctionOnSet(rewards[a], 1..k)

\* The numbers of delegations whose rewards cover what the balance lacks.
SufficientClaims(tx) ==
    {k \in 0..Len(rewards[tx.payer]) :
        world.balance[tx.payer] + Claimed(tx.payer, k) >= DeductedFee(tx)}

\* ClaimSufficientStakingRewards withdraws delegation by delegation until it is enough.
ClaimStakingRewards(tx) == Min(SufficientClaims(tx))

\* Locked coins pay no fees, not even if claimed rewards make up for them.
CanPay(tx) ==
    /\ SufficientClaims(tx) # {}
    /\ DeductedFee(tx) > 0 =>
          world.balance[tx.payer] + Claimed(tx.payer, ClaimStakingRewards(tx)) - Locked[tx.payer]
              >= DeductedFee(tx)

\* The fee is deducted and the payer's sequence number advances.
Deduct(tx) ==
    [world EXCEPT !.balance[tx.payer] = @ + Claimed(tx.payer, ClaimStakingRewards(tx)) - DeductedFee(tx),
                  !.feeCollector = @ + DeductedFee(tx),
                  !.nonce[tx.payer] = @ + 1]

\* Fault: all delegations are withdrawn from, only what is needed is paid out.
WithdrawRewards_All(tx) ==
    [rewards EXCEPT ![tx.payer] = [i \in DOMAIN @ |-> 0]]

WithdrawRewards(tx) ==
    [rewards EXCEPT ![tx.payer] =
        [i \in DOMAIN @ |-> IF i <= ClaimStakingRewards(tx) THEN 0 ELSE @[i]]]

\* What the ante handler does, given the gas the whole transaction consumes;
\* CheckGasWanted is part of DeliverTx.  The payer's sequence is bounded.
AnteHandle(tx, used) ==
    /\ stage = "idle" /\ world.nonce[tx.payer] <= MaxNonce
    /\ MinGasPrice(tx) /\ CheckFee(tx) /\ CanPay(tx)
    /\ DeliverTx(1, tx.gas, used)
    /\ rewards' = WithdrawRewards(tx)
    /\ sent' = [sent EXCEPT ![tx.payer] = @ + 1]
    /\ UNCHANGED <<stage, gasUsed>>

-----------------------------------------------------------------------------
(* The messages and the post handler.                                       *)

\* BurnDecorator burns the declared fee, as far as the fee collector has it.
Burn(tx, w) == Smaller(tx.fee, w.feeCollector)

\* The block gas meter is charged after the post handler: past the limit only
\* what the ante handler wrote stays.
CosmosTxSucceeds(tx, used) ==
    LET w == Deduct(tx)
        burn == IF MaxGas > 0 /\ blockGas + used > MaxGas THEN 0 ELSE Burn(tx, w)
    IN  /\ AnteHandle(tx, used)
        /\ world' = [w EXCEPT !.feeCollector = @ - burn] /\ NoTx
        /\ burned' = burned + burn

\* The post handler does not run.
CosmosTxFails(tx, used) ==
    /\ AnteHandle(tx, used)
    /\ world' = Deduct(tx) /\ NoTx
    /\ UNCHANGED burned

\* The ante handler refuses, for its own checks or for those left out.
RefuseCosmosTx(used) ==
    /\ stage = "idle" /\ RefuseTx(used)
    /\ UNCHANGED <<txVars, cosmosVars>>

CosmosTx ==
    \E tx \in CosmosTxs : \E used \in 0..tx.gas :
        CosmosTxSucceeds(tx, used) \/ CosmosTxFails(tx, used) \/ RefuseCosmosTx(used)

CosmosNext == (EthNext /\ UNCHANGED cosmosVars) \/ CosmosTx

CosmosSpec == CosmosInit /\ [][CosmosNext]_allVars

-----------------------------------------------------------------------------
(* Properties.                                                              *)

AllRewards(r) == SumFunction([a \in Accounts |-> SumFunction(r[a])])

\* Charging, refunding, paying revenue, claiming rewards, burning, failing and
\* falling back neither make nor lose coins.
Conservation ==
    SumFunction(world.balance)
        + world.feeCollector + world.distributed + burned + AllRewards(rewards)
      = InitialBalance * Cardinality(Accounts) + AllRewards(InitialRewards)
=============================================================================
