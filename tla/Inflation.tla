----------------------------- MODULE Inflation -----------------------------
(* x/inflation/v1 on top of the epoch clock: AfterEpochEnd mints the epoch's *)
(* provision, splits it between stakers and the community pool, and counts   *)
(* the epochs of a period.  Governance changes the parameters between blocks.*)
EXTENDS Epochs, MintProvision

CONSTANTS EpochIdentifier,     \* genesis: the identifier inflation follows
          ParamSet,            \* parameter values governance may set
          BondedAmounts,       \* totals the staking module may report as bonded
          InitialSupply,       \* supply of the mint denom at genesis
          TeamAlloc,           \* team allocation, not counted as stakeable
          IsMainnet,           \* the chain id is a mainnet one
          MaxUpdates           \* bound: parameter changes explored

VARIABLES params,          \* module parameters
          period,          \* current period
          skippedEpochs,   \* epochs that ended while inflation was disabled
          supply,          \* bank supply of the mint denom
          moduleBalance,   \* balance of the inflation module account
          feeCollector,    \* minted coins sent to the fee collector
          communityPool,   \* minted coins sent to the community pool
          halted,          \* a hook has panicked in BeginBlock
          minted,          \* history: epochs in which coins were minted
          unpaid,          \* history: epochs whose provision was zero
          updates          \* history: parameter changes so far

coinVars == <<supply, moduleBalance, feeCollector, communityPool>>
inflationVars == <<params, period, skippedEpochs, coinVars, halted, minted, unpaid, updates>>
vars == <<epochVars, inflationVars>>

\* Params.Validate: what a parameter change or a genesis file must satisfy.
Validate(p) ==
    /\ p.enableInflation \in BOOLEAN
    /\ p.calculation \in Calculation
    /\ p.stakingRewards \in Nat /\ p.communityPool \in Nat
    /\ p.stakingRewards + p.communityPool = One

ASSUME InflationAssumption ==
    /\ EpochIdentifier \in Identifiers
    /\ \A p \in ParamSet : Validate(p)
    /\ BondedAmounts \subseteq Nat
    /\ InitialSupply \in Nat /\ TeamAlloc \in Nat
    /\ IsMainnet \in BOOLEAN
    /\ MaxUpdates \in Nat

TypeOK ==
    /\ EpochsTypeOK
    /\ params \in ParamSet
    /\ period \in Nat /\ skippedEpochs \in Nat
    /\ supply \in Nat /\ moduleBalance \in Nat /\ feeCollector \in Nat /\ communityPool \in Nat
    /\ halted \in BOOLEAN
    /\ minted \in Nat /\ unpaid \in Nat /\ updates \in Nat

\* A new chain.  A genesis exported from a running one carries the period and the
\* skipped epochs it had then, with the epoch infos and the supply of the same
\* block: a state these actions reach.
Init ==
    /\ EpochsInit
    /\ params \in ParamSet
    /\ period = 0 /\ skippedEpochs = 0
    /\ supply = InitialSupply
    /\ moduleBalance = 0 /\ feeCollector = 0 /\ communityPool = 0
    /\ halted = FALSE
    /\ minted = 0 /\ unpaid = 0 /\ updates = 0

-----------------------------------------------------------------------------
(* The provision of an epoch.                                               *)

\* The share of the stakeable supply that is bonded.
BondedRatio(bonded) ==
    LET stakeSupply == IF IsMainnet THEN supply - TeamAlloc ELSE supply IN
    IF stakeSupply <= 0 THEN 0 ELSE DecQuoInt(NewDec(bonded), stakeSupply)

GetProportions(amount, share) == TruncateInt(DecMul(NewDec(amount), share))

-----------------------------------------------------------------------------
(* AfterEpochEnd(id, number): the hook, one action per way through it.      *)

\* Fault: every ended epoch counts.
Skip_AnyEpoch(id) ==
    /\ ~params.enableInflation
    /\ skippedEpochs' = skippedEpochs + 1
    /\ UNCHANGED <<period, coinVars, halted, minted, unpaid>>

\* Disabled: days are counted as skipped, whatever identifier inflation follows.
Skip(id) ==
    /\ ~params.enableInflation
    /\ skippedEpochs' = IF id = "day" THEN skippedEpochs + 1 ELSE skippedEpochs
    /\ UNCHANGED <<period, coinVars, halted, minted, unpaid>>

OtherEpoch(id) ==
    /\ params.enableInflation /\ id # EpochIdentifier
    /\ UNCHANGED <<period, skippedEpochs, coinVars, halted, minted, unpaid>>

Provision(bonded) == CalculateEpochMintProvision(params.calculation, period, BondedRatio(bonded))

NoProvision(id, bonded) ==
    /\ params.enableInflation /\ id = EpochIdentifier
    /\ Provision(bonded) <= 0
    /\ unpaid' = unpaid + 1
    /\ UNCHANGED <<period, skippedEpochs, coinVars, halted, minted>>

\* Fault: skipped epochs are not subtracted.
PeriodPassed_CountsSkipped(number) == number - EpochsPerPeriod * period > EpochsPerPeriod

PeriodPassed(number) == number - EpochsPerPeriod * period - skippedEpochs > EpochsPerPeriod

\* Fault: the pool is paid its own truncated share.
MintAndAllocate_TwoShares(amount) ==
    LET staking == GetProportions(amount, params.stakingRewards)
        pool == GetProportions(amount, params.communityPool)
    IN  /\ supply' = supply + amount
        /\ feeCollector' = feeCollector + staking
        /\ communityPool' = communityPool + pool
        /\ moduleBalance' = moduleBalance + amount - staking - pool

\* MintAndAllocateInflation: the staking share goes to the fee collector, all
\* that is then left in the module account to the community pool.  Nothing is
\* done for an amount that is not positive.
MintAndAllocate(amount) ==
    LET staking == GetProportions(amount, params.stakingRewards) IN
    IF amount <= 0 THEN UNCHANGED coinVars
    ELSE /\ supply' = supply + amount
         /\ feeCollector' = feeCollector + staking
         /\ communityPool' = communityPool + moduleBalance + amount - staking
         /\ moduleBalance' = 0

\* The bank refuses to send a zero amount to the fee collector.
AllocationFails(amount) == amount > 0 /\ GetProportions(amount, params.stakingRewards) = 0

Mint(id, number, bonded) ==
    LET amount == TruncateInt(Provision(bonded)) IN
    /\ params.enableInflation /\ id = EpochIdentifier
    /\ Provision(bonded) > 0
    /\ ~AllocationFails(amount)
    /\ MintAndAllocate(amount)
    /\ minted' = minted + 1
    /\ period' = IF PeriodPassed(number) THEN period + 1 ELSE period
    /\ UNCHANGED <<skippedEpochs, halted, unpaid>>

\* AfterEpochEnd panics on the error of the allocation, and a panic in BeginBlock stops the chain before the block commits.
MintFails(id, bonded) ==
    /\ params.enableInflation /\ id = EpochIdentifier
    /\ Provision(bonded) > 0
    /\ AllocationFails(TruncateInt(Provision(bonded)))
    /\ halted' = TRUE
    /\ UNCHANGED <<period, skippedEpochs, coinVars, minted, unpaid>>

AfterEpochEnd(id, number) ==
    \/ Skip(id)
    \/ OtherEpoch(id)
    \/ \E bonded \in BondedAmounts :
          bonded <= supply /\ (NoProvision(id, bonded) \/ Mint(id, number, bonded) \/ MintFails(id, bonded))

-----------------------------------------------------------------------------
(* The two modules together.                                                *)

BeginBlock == ~halted /\ NewBlock /\ UNCHANGED inflationVars

StartEpoch == ~halted /\ VisitStart /\ UNCHANGED inflationVars

EndOfEpoch ==
    /\ ~halted /\ VisitEnd
    /\ AfterEpochEnd(ended'.id, ended'.number)
    /\ UNCHANGED <<params, updates>>

SameEpoch == ~halted /\ VisitNothing /\ UNCHANGED inflationVars

\* MsgUpdateParams, executed by the governance module in a transaction.
UpdateParams ==
    /\ ~halted /\ todo = <<>> /\ updates < MaxUpdates
    /\ \E p \in ParamSet : p # params /\ params' = p
    /\ updates' = updates + 1
    /\ UNCHANGED <<epochVars, period, skippedEpochs, coinVars, halted, minted, unpaid>>

Next == BeginBlock \/ StartEpoch \/ EndOfEpoch \/ SameEpoch \/ UpdateParams

\* The chain keeps producing blocks and a block finishes its BeginBlocker.
Spec == Init /\ [][Next]_vars /\ WF_vars(BeginBlock) /\ WF_vars(StartEpoch \/ EndOfEpoch \/ SameEpoch)

-----------------------------------------------------------------------------
(* What inflation promises.                                                 *)

\* A period lasts exactly EpochsPerPeriod epochs in which coins were minted,
\* whatever epochs were skipped in between and however late blocks were: the
\* period number is the number of minted epochs divided by EpochsPerPeriod.
\* Epochs with nothing to mint are not skipped: they make periods shorter in
\* minting epochs, never longer in epochs that count.
PeriodCountsMints ==
    /\ EpochsPerPeriod * period <= minted + unpaid
    /\ unpaid = 0 => minted < EpochsPerPeriod * (period + 1)

\* Every epoch that has ended was minted, had nothing to mint or is counted
\* as skipped, unless its hook has stopped the chain.
EveryEpochCounted ==
    LET ei == epochs[EpochIdentifier] IN
    ~halted => minted + unpaid + skippedEpochs = IF ei.started THEN ei.currentEpoch - 1 ELSE 0

\* Every coin minted is in one of the two destinations: none stays in the
\* module account and none is created or lost by the split's rounding, nor
\* when the hook fails halfway.
MintedIsAllocated ==
    /\ moduleBalance = 0
    /\ supply = InitialSupply + feeCollector + communityPool

\* After a halt the clock catches up: when the block time stays within an
\* epoch of where it is (here: has reached MaxTime), every identifier whose
\* start time has come is eventually in the epoch that contains block time,
\* unless the hook stops the chain.
CatchesUp ==
    \A id \in Identifiers :
        [](epochs[id].startTime <= blockTime =>
             <>(\/ halted
                \/ epochs[id].started /\ blockTime <= epochs[id].currentEpochStartTime + Duration[id]))
=============================================================================
