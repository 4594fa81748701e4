SPECIFICATION CosmosSpec
CONSTANTS
    alice = alice
    bob = bob
    contract = contract
    dev = dev
    fresh = fresh
    staking = staking
    Create = Create
    None = None
    Accounts = {alice, bob, contract, dev, fresh, staking}
    NewContract = fresh
    Payloads <- NoncePayloads
    MaxNonce = 2
    InitialBalance = 14
    Clawback = {}
    Locked <- NoLocks
    Intrinsic = 1
    IntrinsicCreate = 2
    RefundQuotient = 2
    MaxRefund = 1
    EnableCreate = TRUE
    EnableCall = TRUE
    Precompiles = {staking}
    Withdrawer <- Revenue
    DeveloperShares <- MCHalf
    CosmosTxs <- MCCosmosTxs
    InitialRewards <- MCRewards
    One <- MCOne
    MaxGas = 8
    MaxUint64 = 127
    MaxInt64 = 63
    ParamSet <- MCParams
    GasLimits = {1, 2, 4}
    MaxMsgs = 2
    MaxTxs = 2
    MaxHeight = 1
    MaxBaseFee = 4
INVARIANTS NonceCounts
