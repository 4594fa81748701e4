SPECIFICATION HSpec
CHECK_DEADLOCK FALSE
CONSTANTS
  Addr = {c1, n1}
  Slot = {k1, k2}
  Val = {v0, v1}
  Zero = v0
  Code = {noCode, code1, code2}
  NoCode = noCode
  Nil = Nil
  Unset = Unset
  Amount = {0, 1}
  UsedAddr = {c1, n1}
  RefundGas = {}
  LogData = {}
  WarmAddr = {c1, n1}
  accounts0 <- MCAccounts
  storage0 <- MCStorage
  MaxBalance = 1
  MaxNonce = 1
  MaxRefund = 1
  MaxJournal = 3
  MaxRevisions = 2
  MaxTx = 1
  c1 = c1
  n1 = n1
  k1 = k1
  k2 = k2
  v0 = v0
  v1 = v1
  code1 = code1
  code2 = code2
  noCode = noCode
  l1 = l1
INVARIANTS
  RevertRestores
  UndoSafe
  DirtyTracked
  CommitPersists
