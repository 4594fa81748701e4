SPECIFICATION HSpec
CHECK_DEADLOCK FALSE
CONSTANTS
  Addr = {c1, n1}
  Slot = {k1}
  Val = {v0, v1}
  Zero = v0
  Code = {noCode, code1}
  NoCode = noCode
  Nil = Nil
  Unset = Unset
  Amount = {1}
  UsedAddr = {c1, n1}
  RefundGas = {1}
  LogData = {l1}
  WarmAddr = {}
  accounts0 <- MCAccounts
  storage0 <- MCStorage
  MaxBalance = 1
  MaxNonce = 1
  MaxRefund = 1
  MaxJournal = 2
  MaxRevisions = 1
  MaxTx = 2
  c1 = c1
  n1 = n1
  k1 = k1
  k2 = k2
  v0 = v0
  v1 = v1
  code1 = code1
  code2 = code2
  noCode = noCode
  l1 = l1
PROPERTY
  ImplementsStateDBSpec
