\* The second main of main.go: s.Serve(lis) runs before
\* RegisterBlockchainServiceServer.
CONSTANTS
  k1 = k1  k2 = k2  x1 = x1
  NilTx = NilTx  Malformed = Malformed
  MainVersion = 2
  Clients <- MCClients
  Methods <- MCMethods
  TxIds <- MCTxIds
  MaxCalls = 2
SYMMETRY MCSymmetry
SPECIFICATION Spec
INVARIANT SubmitImplemented
CHECK_DEADLOCK FALSE
