SPECIFICATION RevenueSpec
CONSTANTS
    d1 = d1
    d2 = d2
    c1 = c1
    c2 = c2
    Default = Default
    Accounts = {d1, d2}
    Contracts = {c1, c2}
    Origin <- MCOrigin
INVARIANTS IndexesAgree
PROPERTIES DeployerFixed
