SPECIFICATION Spec
CONSTANTS
    One = 100
    EpochsPerPeriod = 3
    As = {0, 49, 999, 5050}
    Rs = {0, 1, 33, 50, 99, 100}
    Cs = {0, 1, 250}
    Targets = {1, 66, 100}
    Variances = {0, 7, 100, 250}
    Ratios = {1, 33, 65, 66, 67, 100}
    MaxPeriod = 7
INVARIANTS
    ProvisionBounded
PROPERTY
    ProvisionDecays
CHECK_DEADLOCK FALSE
