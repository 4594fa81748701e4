----------------------------- MODULE FeeMarket -----------------------------
(* x/feemarket: the base fee of a block is computed in BeginBlock from the  *)
(* gas the parent block wanted, which EndBlock derives from the gas the     *)
(* ante handlers reserved and the gas the block meter counted.  Governance  *)
(* may replace the parameters, the base fee among them, when a block ends.  *)
EXTENDS Dec, FiniteSets

CONSTANTS MaxGas,        \* consensus parameter Block.MaxGas, -1 for no limit
          MaxUint64,     \* largest uint64
          MaxInt64,      \* largest int64
          ParamSet,      \* parameter values of genesis and of governance
          GasLimits,     \* gas limits a transaction may declare
          MaxMsgs,       \* bound: Ethereum messages in a transaction
          MaxTxs,        \* bound: transactions in a block
          MaxHeight,     \* bound: heights from here on are not told apart
          MaxBaseFee     \* bound: no transaction offers to pay this base fee

VARIABLES height,               \* block height
          phase,                \* "commit", "txs" or "gov": where the block is
          params,               \* module parameters, the base fee included
          blockGasWanted,       \* store: gas wanted of the last ended block
          transientGasWanted,   \* transient store: gas wanted of this block
          blockGas,             \* gas consumed on the block gas meter
          halted,               \* BeginBlock has panicked
          txs,                  \* history: transactions of this block
          wanted,               \* history: gas the ante handler reserved, unbounded
          parent                \* history: gas used and wanted of the last block stored

feeVars == <<height, phase, params, blockGasWanted, transientGasWanted, blockGas,
             halted, txs, wanted, parent>>

\* What Params.Validate accepts.  The elasticity multiplier is not looked at.
Params ==
    [noBaseFee: BOOLEAN, baseFeeChangeDenominator: Nat \ {0}, elasticityMultiplier: Nat,
     baseFee: Nat, enableHeight: Nat, minGasPrice: Nat, minGasMultiplier: 0..One]

ASSUME FeeMarketAssumption ==
    /\ MaxGas \in Nat \cup {-1}
    /\ MaxInt64 \in Nat /\ MaxUint64 = 2 * MaxInt64 + 1
    /\ MaxGas <= MaxInt64
    /\ ParamSet \subseteq Params
    /\ GasLimits \subseteq 0..MaxUint64
    /\ MaxMsgs \in Nat \ {0} /\ MaxTxs \in Nat /\ MaxBaseFee \in Nat
    /\ MaxHeight \in Nat /\ \A p \in ParamSet : p.enableHeight < MaxHeight

Bigger(a, b) == IF a >= b THEN a ELSE b
Smaller(a, b) == IF a <= b THEN a ELSE b

TypeOK ==
    /\ height \in Nat /\ phase \in {"commit", "txs", "gov"}
    /\ params \in Params
    /\ blockGasWanted \in Nat /\ transientGasWanted \in 0..MaxUint64 /\ blockGas \in Nat
    /\ halted \in BOOLEAN
    /\ txs \in Nat /\ wanted \in Nat
    /\ parent.used \in Nat /\ parent.wanted \in Nat

Init ==
    /\ height = 0 /\ phase = "commit"
    /\ params \in ParamSet
    /\ blockGasWanted = 0
    /\ transientGasWanted = 0 /\ blockGas = 0
    /\ halted = FALSE
    /\ txs = 0 /\ wanted = 0
    /\ parent = [used |-> 0, wanted |-> 0]

-----------------------------------------------------------------------------
(* BeginBlock: the base fee of the new block.                               *)

IsBaseFeeEnabled(p, h) == ~p.noBaseFee /\ h >= p.enableHeight

\* The gas limit the target derives from; -1 stands for the largest uint64.
TargetLimit == IF MaxGas > -1 THEN MaxGas ELSE MaxUint64

\* Fault: the change denominator divides the target as well.
ParentGasTarget_Double(p) ==
    TargetLimit \div (p.elasticityMultiplier * p.baseFeeChangeDenominator)

ParentGasTarget(p) == TargetLimit \div p.elasticityMultiplier

MinBaseFee(p) == TruncateInt(p.minGasPrice)

BaseFeeDelta(p, gasUsedDelta) ==
    ((p.baseFee * gasUsedDelta) \div ParentGasTarget(p)) \div p.baseFeeChangeDenominator

\* Faults: a small increase rounds down to nothing; the decrease is not bounded
\* by the minimum gas price; the base fee never comes down.
NextBaseFee_NoMinimalStep(p, gasUsed) ==
    LET target == ParentGasTarget(p) IN
    IF gasUsed = target THEN p.baseFee
    ELSE IF gasUsed > target THEN p.baseFee + BaseFeeDelta(p, gasUsed - target)
    ELSE Bigger(p.baseFee - BaseFeeDelta(p, target - gasUsed), MinBaseFee(p))

NextBaseFee_NoFloor(p, gasUsed) ==
    LET target == ParentGasTarget(p) IN
    IF gasUsed = target THEN p.baseFee
    ELSE IF gasUsed > target THEN p.baseFee + Bigger(BaseFeeDelta(p, gasUsed - target), 1)
    ELSE p.baseFee - BaseFeeDelta(p, target - gasUsed)

NextBaseFee_NeverFalls(p, gasUsed) ==
    LET target == ParentGasTarget(p) IN
    IF gasUsed > target THEN p.baseFee + Bigger(BaseFeeDelta(p, gasUsed - target), 1)
    ELSE p.baseFee

\* The EIP-1559 rule, given the gas the parent block used.
NextBaseFee(p, gasUsed) ==
    LET target == ParentGasTarget(p) IN
    IF gasUsed = target THEN p.baseFee
    ELSE IF gasUsed > target THEN p.baseFee + Bigger(BaseFeeDelta(p, gasUsed - target), 1)
    ELSE Bigger(p.baseFee - BaseFeeDelta(p, target - gasUsed), MinBaseFee(p))

\* The fee market recomputes the base fee: it is enabled, and not for the first time.
Recomputes(h) == IsBaseFeeEnabled(params, h) /\ h # params.enableHeight

\* Integer division by zero panics in CalculateBaseFee.
DividesByZero ==
    params.elasticityMultiplier # 0 => ParentGasTarget(params) = 0 /\ blockGasWanted > 0

NextHeight == Smaller(height + 1, MaxHeight)

\* The transient store and the block gas meter start every block empty.
FreshBlock == transientGasWanted' = 0 /\ blockGas' = 0 /\ txs' = 0 /\ wanted' = 0

\* Below the enable height, or with the base fee switched off, the stored
\* base fee stays; at the enable height it is stored unchanged.
BeginBlock ==
    /\ phase = "commit" /\ ~halted
    /\ height' = NextHeight /\ phase' = "txs"
    /\ Recomputes(NextHeight) => ~DividesByZero
    /\ params' = IF Recomputes(NextHeight)
                 THEN [params EXCEPT !.baseFee = NextBaseFee(params, blockGasWanted)]
                 ELSE params
    /\ FreshBlock
    /\ UNCHANGED <<blockGasWanted, halted, parent>>

BeginBlockPanics ==
    /\ phase = "commit" /\ ~halted
    /\ Recomputes(NextHeight) /\ DividesByZero
    /\ halted' = TRUE
    /\ UNCHANGED <<height, phase, params, blockGasWanted, transientGasWanted, blockGas,
                   txs, wanted, parent>>

-----------------------------------------------------------------------------
(* Transactions.                                                            *)

\* The base fee the EVM works with: EnableHeight is not consulted.
GetBaseFee == IF params.noBaseFee THEN 0 ELSE params.baseFee

BlockGasLimit == IF MaxGas = -1 THEN MaxUint64 ELSE MaxGas

\* The block gas meter of the SDK: bounded only if MaxGas is positive.
BlockMeterOpen == MaxGas > 0 => blockGas < MaxGas
GasConsumedToLimit == IF MaxGas > 0 THEN Smaller(blockGas, MaxGas) ELSE blockGas

AddTransientGasWanted(gas) == (transientGasWanted + gas) % (MaxUint64 + 1)

MayDeliver == phase = "txs" /\ BlockMeterOpen /\ txs < MaxTxs /\ GetBaseFee < MaxBaseFee

\* A transaction of msgs Ethereum messages, gas their summed gas limits, used
\* what its execution consumes.  CheckGasWanted runs for every message and
\* adds the gas of the whole transaction each time.  A Cosmos transaction
\* passes it once.
DeliverTx(msgs, gas, used) ==
    /\ MayDeliver
    /\ gas <= BlockGasLimit
    /\ transientGasWanted' = IF IsBaseFeeEnabled(params, height)
                             THEN AddTransientGasWanted(msgs * gas)
                             ELSE transientGasWanted
    /\ blockGas' = blockGas + used
    /\ txs' = txs + 1 /\ wanted' = wanted + msgs * gas
    /\ UNCHANGED <<height, phase, params, blockGasWanted, halted, parent>>

\* The ante handler refuses: its writes are dropped, the gas it used is not.
RefuseTx(used) ==
    /\ MayDeliver
    /\ blockGas' = blockGas + used
    /\ txs' = txs + 1
    /\ UNCHANGED <<height, phase, params, blockGasWanted, transientGasWanted, halted,
                   wanted, parent>>

-----------------------------------------------------------------------------
(* The end of the block: governance first, then the fee market.             *)

UpdateParams(p) ==
    /\ phase = "txs"
    /\ phase' = "gov"
    /\ params' = p
    /\ UNCHANGED <<height, blockGasWanted, transientGasWanted, blockGas, halted, txs,
                   wanted, parent>>

LimitedGasWanted(gasUsed) ==
    TruncateInt(Bigger(DecMul(NewDec(transientGasWanted), params.minGasMultiplier),
                       NewDec(gasUsed)))

\* Amounts that do not fit an int64 leave the stored value as it was.
EndBlock ==
    /\ phase \in {"txs", "gov"}
    /\ phase' = "commit"
    /\ IF transientGasWanted <= MaxInt64 /\ GasConsumedToLimit <= MaxInt64
       THEN /\ blockGasWanted' = LimitedGasWanted(GasConsumedToLimit)
            /\ parent' = [used |-> GasConsumedToLimit, wanted |-> wanted]
       ELSE UNCHANGED <<blockGasWanted, parent>>
    /\ UNCHANGED <<height, params, transientGasWanted, blockGas, halted, txs, wanted>>

Deliver ==
    \E gas \in GasLimits : \E used \in 0..gas :
        \/ \E msgs \in 1..MaxMsgs : DeliverTx(msgs, gas, used)
        \/ RefuseTx(used)

Next ==
    \/ BeginBlock
    \/ BeginBlockPanics
    \/ Deliver
    \/ \E p \in ParamSet : UpdateParams(p)
    \/ EndBlock

\* The consensus engine keeps producing blocks until BeginBlock panics.
Spec == Init /\ [][Next]_feeVars
             /\ WF_feeVars(BeginBlock \/ BeginBlockPanics) /\ WF_feeVars(EndBlock)

-----------------------------------------------------------------------------
(* Properties.                                                              *)

AtFloor == params.baseFee >= MinBaseFee(params)

\* A base fee that respects the minimum gas price keeps respecting it: the
\* decrease in CalculateBaseFee is bounded, an increase only adds, and only
\* governance, which replaces base fee and minimum together, can break it.
FloorKept == [][AtFloor /\ phase' # "gov" => AtFloor']_feeVars

\* BeginBlock follows the demand of the parent block, or of the last block
\* whose amounts EndBlock could store: if it used more than the target the
\* base fee strictly rises, however small it is; if both the gas used and the
\* gas reserved stayed at or below the target it does not rise, except to
\* the minimum gas price.
FollowsDemand ==
    [][phase = "commit" /\ phase' = "txs" /\ Recomputes(height') =>
        LET target == ParentGasTarget(params) IN
        /\ parent.used > target => params'.baseFee > params.baseFee
        /\ parent.used <= target /\ parent.wanted <= target =>
              params'.baseFee <= Bigger(params.baseFee, MinBaseFee(params))]_feeVars

\* What EndBlock stores for the next BeginBlock fits the int64 it is computed
\* in, whatever was reserved and consumed; otherwise the old value stays.
StoredFits == blockGasWanted <= MaxInt64

\* BeginBlock panics on a division by zero only under an elasticity
\* multiplier of zero or above the gas limit of a block, the two values that
\* validation lets through: no demand, and no other parameter, stops the chain.
PanicsOnlyOnElasticity == halted => params.elasticityMultiplier \notin 1..TargetLimit

\* With blocks that stay empty the base fee comes down until rounding stops
\* it, or to the minimum gas price, under every elasticity that leaves a target.
Settled ==
    ~params.noBaseFee /\ params.elasticityMultiplier \in 1..TargetLimit =>
        params.baseFee < Bigger(params.baseFeeChangeDenominator, MinBaseFee(params) + 1)
Settles == <>[][BeginBlock \/ EndBlock]_feeVars => <>[]Settled
=============================================================================
