\* Every signing route of transaction.go, then VerifyTransaction.
CONSTANTS
  Ids = {"tx1"}
  KeyOf <- MCKeyOf
  Utxos <- MCUtxos
  ValidAesKeys = {"aes32"}
  Now = 1700000000
  None = None
SPECIFICATION Spec
INVARIANT SignedVerifies
\* The node has given its verdict: nothing is left to do.
CHECK_DEADLOCK FALSE
