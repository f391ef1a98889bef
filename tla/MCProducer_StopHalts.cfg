CONSTANTS
  l1 = l1
  l2 = l2
  x1 = x1
  x2 = x2
  x3 = x3
  Loops = {l1}
  TxIds <- MCTxIds
  Invalid <- MCInvalid
  TargetBlockTime = 2
  MinTransactions = 1
  MaxTransactions = 2
SPECIFICATION Spec
PROPERTY StopHalts
