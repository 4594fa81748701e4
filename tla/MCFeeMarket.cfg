SPECIFICATION Spec
CONSTANTS
    One <- MCOne
    MaxGas = 3
    MaxUint64 = 7
    MaxInt64 = 3
    ParamSet <- MCEdge
    GasLimits = {1, 3}
    MaxMsgs = 2
    MaxTxs = 2
    MaxHeight = 3
    MaxBaseFee = 8
INVARIANTS PanicsOnlyOnElasticity
PROPERTIES FloorKept FollowsDemand Settles
CHECK_DEADLOCK FALSE
