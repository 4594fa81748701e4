SPECIFICATION Spec
CONSTANTS
    MaxHeight = 3
    BlockChoices <- MCBlockChoices
INVARIANTS TablesAgree LookupsAgree NoGaps
PROPERTIES FollowsChain
