SPECIFICATION Spec
CONSTANTS
    Duration <- MCDuration
    GenesisTime = 4
    ZeroTime = 0
    One = 10
    EpochIdentifier = "day"
    EpochsPerPeriod = 2
    BondedAmounts = {0, 500}
    InitialSupply = 1000
    TeamAlloc = 200
    StartTimes = {0, 1, 7}
    MaxStep = 4
    MaxTime = 10
    ParamSet <- MCParamSet
    IsMainnet = TRUE
    MaxUpdates = 2
INVARIANTS
    EpochAligned
    EveryEpochCounted
    PeriodCountsMints
    MintedIsAllocated
PROPERTY CatchesUp
CHECK_DEADLOCK FALSE
