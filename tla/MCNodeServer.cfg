\* The first main of main.go, two clients, two calls each.
CONSTANTS
  k1 = k1  k2 = k2  x1 = x1
  NilTx = NilTx  Malformed = Malformed
  MainVersion = 1
  Clients <- MCClients
  Methods <- MCMethods
  TxIds <- MCTxIds
  MaxCalls = 2
SPECIFICATION Spec
INVARIANT TypeOK SubmitImplemented AnswerMatchesEffect
PROPERTY CallsAnswered
\* The node serves (or has exited) and the clients have made their calls:
\* nothing is left to do.
CHECK_DEADLOCK FALSE
