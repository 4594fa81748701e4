SPECIFICATION CosmosSpec
CONSTANTS
    alice = alice
    bob = bob
    contract = contract
    dev = dev
    fresh = fresh
    staking = staking
    Create = Create
    None = None
    Accounts = {alice, bob, contract, dev, fresh, staking}
    NewContract = fresh
    Payloads <- MCPayloads
    MaxNonce = 1
    InitialBalance = 28
    Clawback = {alice, bob}
    Locked <- LockedAlice
    Intrinsic = 2
    IntrinsicCreate = 5
    RefundQuotient = 2
    MaxRefund = 1
    EnableCreate = TRUE
    EnableCall = TRUE
    Precompiles = {staking}
    Withdrawer <- Revenue
    DeveloperShares <- MCHalf
    CosmosTxs <- MCCosmosTxs
    InitialRewards <- MCRewards
    One <- MCOne
    MaxGas = 8
    MaxUint64 = 127
    MaxInt64 = 63
    ParamSet <- MCParams
    GasLimits = {1, 2, 3, 5}
    MaxMsgs = 2
    MaxTxs = 2
    MaxHeight = 1
    MaxBaseFee = 4
INVARIANTS Solvent  NonceCounts
PROPERTIES NoOvercharge ImplementsFeeMarket
