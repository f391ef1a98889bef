CONSTANTS
  v1 = v1  v2 = v2  v3 = v3
  h1 = h1  h2 = h2
  k1 = k1  k2 = k2
  x1 = x1  x2 = x2
  None = None
  Validators <- MCValidators
  Stake <- MCStake
  MinStake = 1000
  Hashes <- MCHashes
  Handlers <- MCHandlers
  TxIds <- MCTxIds
  ValidTxs <- MCValidTxs
  MaxSubmissions = 2
  MaxPosts = 3
SYMMETRY MCSymmetry
SPECIFICATION Spec
INVARIANT TypeOK
\* An idle node waits for requests: when every bounded request is served
\* nothing is enabled, which is not an error of the code.
CHECK_DEADLOCK FALSE
