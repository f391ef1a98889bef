CONSTANTS
  g = g
  t1 = t1
  t2 = t2
  a = a
  b = b
  w1 = w1
  w2 = w2
  Absent = Absent
  TxIds <- MCTxIds
  Indices <- MCIndices
  Owners <- MCOwners
  Amounts <- MCAmounts
  Workers <- MCWorkers
  Txs <- MCTxs
  Genesis <- MCGenesis
  LoopVarPerIteration = TRUE
SPECIFICATION Spec
INVARIANT CacheCoherent
