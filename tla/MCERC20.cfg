SPECIFICATION ERC20Spec
CONSTANTS
    NativeCoins = {"coin"}
    NativeERC20s = {"token"}
    Total = 3
    Abroad = {1}
    Amounts = {1, 2}
    Packets = {p1, p2}
INVARIANTS RegistryAgrees Backed ValueKept
PROPERTY RefundsArrive
