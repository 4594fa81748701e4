SPECIFICATION Spec
CONSTANTS
    Funders = {f1, f2}
    Grants <- MCGrants
    Genesis <- MCGenesis
    OwnCoins = 1
    Amounts = {1}
    Proposals = {p1, p2}
    MaxGrants = 2
    MaxSlash = 1
    MaxTime = 5
INVARIANTS ReadsAsGranted GrantCovered ClawbackKeepsEarned MarksFollow
PROPERTY VoteShielded
CHECK_DEADLOCK FALSE
SYMMETRY MCSymmetry
